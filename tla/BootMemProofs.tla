--------------------------- MODULE BootMemProofs ---------------------------
(* BootMem lays out memory as its properties say for every memory map, and   *)
(* for every kernel that ends within the 4 MB that boot.S maps.              *)
EXTENDS BootMem, TLAPS

Entry == [test : Nat, first : Nat, end : Nat, available : BOOLEAN]

Typed ==
  /\ pc \in {"boot", "scan", "fill", "set", "sizes", "clear", "done"}
  /\ memMap \in MemMaps /\ kernelEnd \in Kernels
  /\ at \in Nat \ {0} /\ maxPfn \in 0 .. Physical

(* find_pfn_layout: what max_pfn is after the entries before at.             *)
Scanned ==
  /\ maxPfn = 0 \/ \E i \in Available : i < at /\ maxPfn = memMap[i].end
  /\ Separate =>
       \A i \in Available : i < at /\ memMap[i].first > 0 => memMap[i].end <= maxPfn
  /\ pc \notin {"boot", "scan"} => at > Len(memMap)

(* The directory: the entries that set_pgd has stored, and above them those  *)
(* of boot.S.                                                                *)
Stored == IF pc = "set" THEN filled - 1 ELSE filled
Index == 0 .. Entries - 1
Paging ==
  /\ filled \in 0 .. Turns
  /\ dir \in [Index -> Int]
  /\ pc \in {"boot", "scan"} => filled = 0
  /\ pc = "fill" => filled < Turns
  /\ pc = "set" => filled > 0
  /\ pc \in {"sizes", "clear", "done"} => filled = Turns
  /\ pc # "boot" =>
       /\ dir[0] = Pg0
       /\ \A k \in 0 .. Turns - 1 : k < Stored => dir[KernelDir + k] = PageStart + k
       /\ Stored <= 0 => dir[KernelDir] = Pg0
       /\ Stored <= 4 => dir[KernelDir + 4] = Pg4

(* The zones that are set up, one after the other.                           *)
Last(max) == IF max > MaxLow THEN max ELSE MaxLow
ZoneAt(i, max) ==
  CASE i = DMA -> [base |-> 0, spanned |-> MaxDma, to |-> MaxDma]
    [] i = NORMAL -> [base |-> MaxDma, spanned |-> MaxLow - MaxDma, to |-> MaxLow]
    [] i = HIGH -> [base |-> MaxLow, spanned |-> (max - MaxLow) % Word, to |-> Last(max)]
Laid ==
  /\ pc \in {"clear", "done"} => sizes = Sizes(maxPfn) /\ total = maxPfn
  /\ Len(zone) \in 0 .. HIGH /\ DOMAIN zone = 1 .. Len(zone)
  /\ pc \notin {"clear", "done"} => zone = <<>>
  /\ pc = "done" => Len(zone) = HIGH
  /\ \A i \in Zones : i <= Len(zone) => zone[i] = ZoneAt(i, maxPfn)
  /\ count = IF zone = <<>> THEN 0 ELSE ZoneAt(Len(zone), maxPfn).to
  /\ pc = "done" =>
       \A i \in DOMAIN zonelists : \A n \in DOMAIN zonelists[i] :
         zonelists[i][n] \in {DMA, NORMAL}

IInv == Typed /\ Scanned /\ Paging /\ Laid

-----------------------------------------------------------------------------
(* The large numbers, for SMT alone.                                         *)
LEMMA Numbers ==
  /\ Physical \in Nat /\ MaxLow \in Nat /\ MaxLow <= Physical
  /\ MaxDma \in Nat /\ MaxDma <= MaxLow
  /\ Word \in Nat \ {0} /\ Physical < Word
BY BootMemAssumption, SMT DEF Physical, MaxLow, MaxDma, DescBytes

(* A remainder below the word.                                               *)
LEMMA ModSmall ==
  ASSUME NEW a \in Nat, NEW n \in Nat, a < n
  PROVE  a % n = a
<1>1. n > 0 OBVIOUS
<1>2. /\ a \div n \in Int /\ a % n \in 0 .. n - 1
      /\ a = n * (a \div n) + (a % n)
  BY <1>1
<1>3. a \div n = 0
  BY <1>1
<1> QED BY <1>2, <1>3

(* What the high zone's size, wrapped, adds to the other two.                *)
LEMMA ModAdd ==
  ASSUME NEW a \in Int, NEW n \in Nat \ {0}, NEW k \in Int, k + a \in 0 .. n - 1
  PROVE  a % n \in 0 .. n - 1 /\ (k + (a % n)) % n = k + a
<1> DEFINE r == a % n  q == a \div n
           c == k + r
           s == c % n  p == c \div n
           w == k + a
<1>1. r \in 0 .. n - 1 /\ q \in Int /\ a = q * n + r
  OBVIOUS
<1>2. c \in Int /\ c = k + r
  BY <1>1
<1>3. s \in 0 .. n - 1 /\ p \in Int /\ c = p * n + s
  BY <1>2
<1>4. w \in 0 .. n - 1 /\ w = k + a
  OBVIOUS
<1> HIDE DEF r, q, c, s, p, w
<1>5. (p + q) * n = w - s /\ p + q \in Int
  BY <1>1, <1>2, <1>3, <1>4
<1>6. p + q >= 1 => (p + q) * n >= n
  BY <1>5
<1>7. p + q <= -1 => (p + q) * n <= -n
  BY <1>5
<1>8. w = s
  BY <1>3, <1>4, <1>5, <1>6, <1>7
<1> QED
  BY <1>1, <1>8 DEF r, c, s, w

(* The directory's indices.                                                  *)
LEMMA Indices ==
  /\ 0 \in Index /\ 4 \in Index /\ KernelDir \in Index /\ KernelDir + 4 \in Index
  /\ KernelDir \in Nat /\ KernelDir > 4
  /\ Turns \in Nat /\ Turns > 4
  /\ \A k \in 0 .. Turns - 1 : KernelDir + k \in Index
  /\ Index \subseteq Int
  /\ Pg0 \in Int /\ Pg4 \in Int /\ Unmapped \in Int /\ PageStart \in Nat
BY DEF Index, KernelDir, Turns, Entries, Pg0, Pg4, Unmapped, PageStart

(* What the assumption says of the map that boot was given.                  *)
LEMMA MapType ==
  ASSUME Typed
  PROVE  /\ memMap \in Seq(Entry)
         /\ \A i \in Available : memMap[i].first <= memMap[i].test
                                 /\ memMap[i].first <= memMap[i].end
                                 /\ memMap[i].end <= Physical
         /\ \A i \in DOMAIN memMap :
              /\ memMap[i].test \in Nat /\ memMap[i].first \in Nat
              /\ memMap[i].end \in Nat /\ memMap[i].available \in BOOLEAN
<1>1. memMap \in Seq(Entry)
  BY BootMemAssumption DEF Typed, Entry
<1>2. \A i \in DOMAIN memMap : memMap[i] \in Entry
  BY <1>1
<1>3. \A i \in DOMAIN memMap : memMap[i].available =>
        /\ memMap[i].first <= memMap[i].test
        /\ memMap[i].first <= memMap[i].end
        /\ memMap[i].end <= Physical
  BY BootMemAssumption DEF Typed
<1> QED BY <1>1, <1>2, <1>3 DEF Entry, Available

LEMMA InitInv == Init => IInv
<1> SUFFICES ASSUME Init PROVE IInv OBVIOUS
<1>1. Typed BY Numbers DEF Init, Typed
<1>2. Scanned
  BY <1>1, MapType DEF Init, Scanned, Available
<1>3. Paging BY Indices DEF Init, Paging, Index
<1>4. Laid BY DEF Init, Laid, Zones, DMA, HIGH
<1> QED BY <1>1, <1>2, <1>3, <1>4 DEF IInv

-----------------------------------------------------------------------------
(* The invariant, a step at a time.                                          *)
LEMMA BootTablesInv == IInv /\ BootTables => IInv'
<1> SUFFICES ASSUME IInv, BootTables PROVE IInv' OBVIOUS
<1>1. Typed' BY DEF IInv, Typed, BootTables, memory
<1>2. Scanned' BY DEF IInv, Scanned, BootTables, memory, Separate, Available
<1>3. Paging'
  <2>1. filled' = 0 /\ pc' = "scan" /\ dir \in [Index -> Int]
    BY DEF IInv, Paging, BootTables
  <2>2. dir' = [dir EXCEPT ![0] = Pg0, ![KernelDir] = Pg0,
                           ![4] = Pg4, ![KernelDir + 4] = Pg4]
    BY DEF BootTables
  <2>3. dir' \in [Index -> Int]
    BY <2>1, <2>2, Indices
  <2>4. dir'[0] = Pg0 /\ dir'[KernelDir] = Pg0 /\ dir'[KernelDir + 4] = Pg4
    BY <2>1, <2>2, Indices
  <2> QED BY <2>1, <2>3, <2>4, Indices DEF Paging, Stored
<1>4. Laid' BY DEF IInv, Laid, BootTables, memory, zones
<1> QED BY <1>1, <1>2, <1>3, <1>4 DEF IInv

(* An available entry that raises max_pfn raises it past all before it: the  *)
(* maximum so far is 0 or the end of an entry that lies below.               *)
LEMMA ScanInv == IInv /\ Scan => IInv'
<1> SUFFICES ASSUME IInv, Scan PROVE IInv' OBVIOUS
<1> DEFINE e == memMap[at]
<1>1. /\ Typed /\ Scanned /\ Paging /\ Laid
      /\ pc = "scan" /\ pc' = pc /\ at' = at + 1
      /\ maxPfn' = IF e.available /\ maxPfn < e.test THEN e.end ELSE maxPfn
      /\ UNCHANGED <<memMap, kernelEnd, paging, zones>>
  BY DEF IInv, Scan, EndOf
<1>2. at \in DOMAIN memMap /\ at \in Nat /\ Len(memMap) \in Nat
  BY <1>1, MapType DEF Scan, Typed
<1>3. Available' = Available /\ Separate' = Separate /\ memMap' = memMap
  BY <1>1 DEF Available, Separate
<1>4. at \in Available <=> e.available
  BY <1>2 DEF Available
<1>5. \A i \in Available : /\ i \in Nat /\ i <= Len(memMap) /\ i \in DOMAIN memMap
                            /\ memMap[i].test \in Nat /\ memMap[i].first \in Nat
                            /\ memMap[i].end \in Nat
                            /\ memMap[i].first <= memMap[i].test
                            /\ memMap[i].first <= memMap[i].end
                            /\ memMap[i].end <= Physical
  BY <1>1, MapType DEF Available
<1>6. maxPfn \in Nat /\ maxPfn <= Physical /\ Physical \in Nat /\ e.test \in Nat
  BY <1>1, <1>2, Numbers, MapType DEF Typed
<1> HIDE DEF e
<1>7. Typed'
  BY <1>1, <1>2, <1>4, <1>5, <1>6 DEF Typed, e
<1>8. Scanned'
  <2>1. maxPfn' = 0 \/ \E i \in Available' : i < at' /\ maxPfn' = memMap'[i].end
    <3>1. CASE e.available /\ maxPfn < e.test
      BY <1>1, <1>2, <1>3, <1>4, <3>1 DEF e
    <3>2. CASE ~(e.available /\ maxPfn < e.test)
      BY <1>1, <1>2, <1>3, <1>5, <3>2 DEF Scanned
    <3> QED BY <3>1, <3>2
  <2>2. ASSUME Separate, NEW i \in Available, i < at + 1, memMap[i].first > 0
        PROVE  memMap[i].end <= maxPfn'
    <3>1. \A j \in Available : j < at /\ at \in Available => memMap[j].end < memMap[at].first
      BY <2>2, <1>2 DEF Separate
    <3>2. i < at => memMap[i].end <= maxPfn
      BY <1>1, <2>2 DEF Scanned
    <3>3. CASE e.available /\ maxPfn < e.test
      BY <1>1, <1>2, <1>4, <1>5, <2>2, <3>1, <3>3 DEF e
    <3>4. CASE ~(e.available /\ maxPfn < e.test)
      <4>1. CASE i = at
        <5>1. maxPfn >= e.test /\ e.test >= e.first /\ e.first > 0 /\ maxPfn # 0
          BY <1>4, <1>5, <1>6, <2>2, <3>4, <4>1 DEF e
        <5>2. PICK j \in Available : j < at /\ maxPfn = memMap[j].end
          BY <5>1, <1>1 DEF Scanned
        <5> QED BY <5>1, <5>2, <3>1, <1>4, <1>5, <2>2, <4>1 DEF e
      <4>2. CASE i # at
        BY <1>1, <1>2, <1>5, <2>2, <3>2, <3>4, <4>2
      <4> QED BY <4>1, <4>2
    <3> QED BY <3>3, <3>4
  <2> QED BY <1>1, <1>3, <2>1, <2>2 DEF Scanned
<1>9. Paging' BY <1>1 DEF Paging, Stored, paging
<1>10. Laid'
  <2>1. pc' \notin {"clear", "done"} /\ zone' = <<>> /\ count' = 0
    BY <1>1 DEF Laid, zones
  <2> QED BY <2>1 DEF Laid, Zones, DMA, HIGH
<1> QED BY <1>7, <1>8, <1>9, <1>10 DEF IInv

LEMMA ScanEndInv == IInv /\ ScanEnd => IInv'
<1> SUFFICES ASSUME IInv, ScanEnd PROVE IInv' OBVIOUS
<1>1. Typed' BY DEF IInv, Typed, ScanEnd, memory
<1>2. Scanned' BY DEF IInv, Scanned, ScanEnd, memory, Separate, Available
<1>3. Paging'
  BY Indices DEF IInv, Paging, ScanEnd, Stored, paging
<1>4. Laid' BY DEF IInv, Laid, ScanEnd, memory, zones
<1> QED BY <1>1, <1>2, <1>3, <1>4 DEF IInv

LEMMA FillTableInv == IInv /\ FillTable => IInv'
<1> SUFFICES ASSUME IInv, FillTable PROVE IInv' OBVIOUS
<1>1. Typed' BY DEF IInv, Typed, FillTable, memory
<1>2. Scanned' BY DEF IInv, Scanned, FillTable, memory, Separate, Available
<1>3. Paging'
  BY Indices DEF IInv, Paging, FillTable, Stored
<1>4. Laid' BY DEF IInv, Laid, FillTable, memory, zones
<1> QED BY <1>1, <1>2, <1>3, <1>4 DEF IInv

(* A turn stores the next entry, and leaves those below and above it alone.  *)
LEMMA SetDirInv == IInv /\ SetDir => IInv'
<1> SUFFICES ASSUME IInv, SetDir PROVE IInv' OBVIOUS
<1>1. Typed' BY DEF IInv, Typed, SetDir, memory
<1>2. Scanned' BY DEF IInv, Scanned, SetDir, memory, Separate, Available
<1>3. Paging'
  <2> DEFINE i == KernelDir + filled - 1
             v == PageStart + filled - 1
  <2>1. /\ filled \in 1 .. Turns /\ filled' = filled /\ pc = "set"
        /\ dir \in [Index -> Int] /\ dir' = [dir EXCEPT ![i] = v]
        /\ Stored = filled - 1 /\ Stored' = filled
        /\ pc' = IF filled = Turns THEN "sizes" ELSE "fill"
    BY Indices DEF IInv, Paging, SetDir, Stored
  <2>2. i \in Index /\ i >= KernelDir /\ v \in Int /\ filled \in Int
    <3>1. filled - 1 \in 0 .. Turns - 1 /\ i = KernelDir + (filled - 1)
      BY <2>1, Indices
    <3> HIDE DEF i
    <3> QED BY <2>1, <3>1, Indices
  <2> HIDE DEF i, v
  <2>3. /\ dir' \in [Index -> Int]
        /\ \A j \in Index : dir'[j] = IF j = i THEN v ELSE dir[j]
    BY <2>1, <2>2
  <2>4. /\ dir[0] = Pg0
        /\ \A k \in 0 .. Turns - 1 : k < filled - 1 => dir[KernelDir + k] = PageStart + k
        /\ filled - 1 <= 4 => dir[KernelDir + 4] = Pg4
    BY <2>1 DEF IInv, Paging
  <2>5. ASSUME NEW k \in 0 .. Turns - 1, k < filled
        PROVE  dir'[KernelDir + k] = PageStart + k
    <3>1. KernelDir + k \in Index /\ k \in Int
      BY Indices
    <3>2. CASE k = filled - 1
      <4>1. KernelDir + k = i /\ PageStart + k = v
        BY <2>2, <3>2, Indices DEF i, v
      <4> QED BY <4>1, <2>3, <3>1
    <3>3. CASE k # filled - 1
      <4>1. k < filled - 1 /\ KernelDir + k # i
        BY <2>2, <2>5, <3>1, <3>3, Indices DEF i
      <4>2. dir[KernelDir + k] = PageStart + k
        BY <4>1, <2>4
      <4> QED BY <4>1, <4>2, <2>3, <3>1
    <3> QED BY <3>2, <3>3
  <2>6. dir'[0] = Pg0
    BY <2>2, <2>3, <2>4, Indices
  <2>7. ASSUME filled <= 4 PROVE dir'[KernelDir + 4] = Pg4
    <3>1. KernelDir + 4 # i /\ filled - 1 <= 4
      BY <2>2, <2>7, Indices DEF i
    <3> QED BY <2>3, <2>4, <3>1, Indices
  <2>8. filled > 0 /\ (filled # Turns => filled < Turns) /\ filled \in 0 .. Turns
    BY <2>1, Indices
  <2> QED BY <2>1, <2>2, <2>3, <2>5, <2>6, <2>7, <2>8 DEF Paging
<1>4. Laid' BY DEF IInv, Laid, SetDir, memory, zones
<1> QED BY <1>1, <1>2, <1>3, <1>4 DEF IInv

(* The sizes add up to max_pfn, whether or not the last of them wraps.       *)
LEMMA SizesAre ==
  ASSUME Typed
  PROVE  /\ Sizes(maxPfn) = <<MaxDma, MaxLow - MaxDma, (maxPfn - MaxLow) % Word>>
         /\ (maxPfn - MaxLow) % Word \in 0 .. Word - 1
         /\ (MaxDma + (MaxLow - MaxDma) + ((maxPfn - MaxLow) % Word)) % Word = maxPfn
         /\ maxPfn \in Nat /\ maxPfn < Word
<1>1. maxPfn \in Nat /\ maxPfn <= Physical /\ maxPfn < Word
  BY Numbers DEF Typed
<1>2. Sizes(maxPfn) = <<MaxDma, MaxLow - MaxDma, (maxPfn - MaxLow) % Word>>
  BY Numbers DEF Sizes
<1>3. PICK a : a = maxPfn - MaxLow
  OBVIOUS
<1>4. PICK k : k = MaxDma + (MaxLow - MaxDma)
  OBVIOUS
<1>5. a \in Int /\ k = MaxLow /\ k \in Int /\ k + a = maxPfn
  BY <1>1, <1>3, <1>4, Numbers
<1>6. k + a \in 0 .. Word - 1 /\ Word \in Nat \ {0}
  BY <1>1, <1>5, Numbers
<1>7. a % Word \in 0 .. Word - 1 /\ (k + (a % Word)) % Word = k + a
  BY <1>5, <1>6, ModAdd
<1> QED BY <1>1, <1>2, <1>3, <1>4, <1>5, <1>7

LEMMA ZoneSizesInv == IInv /\ ZoneSizes => IInv'
<1> SUFFICES ASSUME IInv, ZoneSizes PROVE IInv' OBVIOUS
<1>1. Typed' BY DEF IInv, Typed, ZoneSizes, memory
<1>2. Scanned' BY DEF IInv, Scanned, ZoneSizes, memory, Separate, Available
<1>3. Paging' BY DEF IInv, Paging, ZoneSizes, Stored, paging
<1>4. Laid'
  <2>1. /\ pc = "sizes" /\ pc' = "clear" /\ maxPfn' = maxPfn
        /\ zone = <<>> /\ zone' = <<>> /\ count' = 0
    BY DEF IInv, Laid, ZoneSizes, memory
  <2>2. sizes' = Sizes(maxPfn') /\ total' = maxPfn'
    <3>1. /\ sizes' = Sizes(maxPfn)
          /\ total' = (sizes'[DMA] + sizes'[NORMAL] + sizes'[HIGH]) % Word
      BY DEF ZoneSizes
    <3>2. /\ sizes'[DMA] = MaxDma /\ sizes'[NORMAL] = MaxLow - MaxDma
          /\ sizes'[HIGH] = (maxPfn - MaxLow) % Word
      BY <3>1, SizesAre DEF IInv, DMA, NORMAL, HIGH
    <3>3. total' = (MaxDma + (MaxLow - MaxDma) + ((maxPfn - MaxLow) % Word)) % Word
      BY <3>1, <3>2
    <3> QED BY <2>1, <3>1, <3>3, SizesAre DEF IInv
  <2> QED BY <2>1, <2>2 DEF Laid, Zones, DMA, HIGH
<1> QED BY <1>1, <1>2, <1>3, <1>4 DEF IInv

LEMMA ZoneAtIs ==
  ASSUME NEW max
  PROVE  /\ ZoneAt(DMA, max) = [base |-> 0, spanned |-> MaxDma, to |-> MaxDma]
         /\ ZoneAt(NORMAL, max) =
              [base |-> MaxDma, spanned |-> MaxLow - MaxDma, to |-> MaxLow]
         /\ ZoneAt(HIGH, max) =
              [base |-> MaxLow, spanned |-> (max - MaxLow) % Word, to |-> Last(max)]
BY DEF ZoneAt, DMA, NORMAL, HIGH

(* A turn of node_alloc_mem_map ends at the limit, or where it began when    *)
(* the high zone's limit lies below.                                         *)
LEMMA ClearZoneInv == IInv /\ ClearZone => IInv'
<1> SUFFICES ASSUME IInv, ClearZone PROVE IInv' OBVIOUS
<1>1. Typed' BY DEF IInv, Typed, ClearZone, memory
<1>2. Scanned' BY DEF IInv, Scanned, ClearZone, memory, Separate, Available
<1>3. Paging' BY DEF IInv, Paging, ClearZone, Stored, paging
<1>4. Laid'
  <2> DEFINE i == Len(zone) + 1
             limit == (IF i = DMA THEN sizes[DMA]
                       ELSE IF i = NORMAL THEN sizes[DMA] + sizes[NORMAL] ELSE total) % Word
             z == [base |-> count, spanned |-> sizes[i], to |-> count']
  <2>1. /\ pc = "clear" /\ pc' = pc /\ maxPfn' = maxPfn /\ Len(zone) < HIGH
        /\ count' = IF count < limit THEN limit ELSE count
        /\ zone' = Append(zone, z)
        /\ sizes' = sizes /\ total' = total
    BY DEF ClearZone, memory
  <2>2. /\ Typed /\ Laid /\ Len(zone) \in 0 .. 2 /\ DOMAIN zone = 1 .. Len(zone)
        /\ total = maxPfn /\ maxPfn \in Nat /\ maxPfn < Word
        /\ sizes[DMA] = MaxDma /\ sizes[NORMAL] = MaxLow - MaxDma
        /\ sizes[HIGH] = (maxPfn - MaxLow) % Word
    BY <2>1, SizesAre DEF IInv, Laid, DMA, NORMAL, HIGH
  <2>3. /\ DOMAIN zone' = 1 .. Len(zone) + 1 /\ Len(zone') = Len(zone) + 1
        /\ \A j \in 1 .. Len(zone) : zone'[j] = zone[j]
        /\ zone'[i] = z /\ zone' # <<>>
    BY <2>1, <2>2
  <2>4. /\ MaxDma % Word = MaxDma /\ MaxLow % Word = MaxLow /\ maxPfn % Word = maxPfn
    BY <2>2, Numbers, ModSmall
  <2>5. z = ZoneAt(i, maxPfn) /\ count' = ZoneAt(i, maxPfn).to
    <3>1. CASE Len(zone) = 0
      <4>1. i = DMA /\ count = 0 /\ limit = MaxDma
        BY <2>2, <2>4, <3>1 DEF Laid, DMA
      <4>2. count' = MaxDma
        BY <4>1, <2>1, Numbers
      <4> QED BY <4>1, <4>2, <2>2, ZoneAtIs
    <3>2. CASE Len(zone) = 1
      <4>1. i = NORMAL /\ i # DMA /\ zone # <<>> /\ Len(zone) = DMA
        BY <2>2, <3>2 DEF DMA, NORMAL
      <4>2. count = MaxDma
        BY <4>1, <2>2, ZoneAtIs DEF Laid
      <4>3. limit = MaxLow
        <5>1. MaxDma + (MaxLow - MaxDma) = MaxLow
          BY Numbers
        <5> QED BY <5>1, <4>1, <2>2, <2>4
      <4>4. count' = MaxLow
        BY <4>2, <4>3, <2>1, Numbers
      <4> QED BY <4>1, <4>2, <4>4, <2>2, ZoneAtIs
    <3>3. CASE Len(zone) = 2
      <4>1. i = HIGH /\ i # DMA /\ i # NORMAL /\ zone # <<>> /\ Len(zone) = NORMAL
            /\ Len(zone) # DMA
        <5>1. i = 3 /\ zone # <<>>
          BY <3>3
        <5> HIDE DEF i
        <5> QED BY <3>3, <5>1 DEF DMA, NORMAL, HIGH
      <4>2. count = MaxLow
        BY <4>1, <2>2, ZoneAtIs DEF Laid
      <4>3. limit = maxPfn
        BY <4>1, <2>2, <2>4
      <4>4. count' = Last(maxPfn)
        BY <4>2, <4>3, <2>1, <2>2, Numbers DEF Last
      <4> QED BY <4>1, <4>2, <4>4, <2>2, ZoneAtIs
    <3> QED BY <2>2, <3>1, <3>2, <3>3
  <2> HIDE DEF z, limit
  <2>6. \A j \in Zones : j <= Len(zone) => zone[j] = ZoneAt(j, maxPfn)
    BY <2>2 DEF Laid
  <2>7. ASSUME NEW j \in Zones, j <= Len(zone')  PROVE zone'[j] = ZoneAt(j, maxPfn)
    <3>1. j \in 1 .. Len(zone) \/ j = i
      BY <2>2, <2>3, <2>7 DEF Zones, DMA, HIGH
    <3> QED BY <3>1, <2>2, <2>3, <2>5, <2>6, <2>7
  <2>8. sizes' = Sizes(maxPfn') /\ total' = maxPfn'
    BY <2>1, <2>2 DEF Laid
  <2>9. /\ Len(zone') \in 0 .. HIGH /\ DOMAIN zone' = 1 .. Len(zone')
        /\ i = Len(zone')
    <3>1. PICK l \in 0 .. 2 : l = Len(zone)
      BY <2>2
    <3>2. l + 1 \in 0 .. 3
      OBVIOUS
    <3> QED BY <2>3, <3>1, <3>2 DEF HIGH
  <2> QED BY <2>1, <2>3, <2>5, <2>7, <2>8, <2>9 DEF Laid
<1> QED BY <1>1, <1>2, <1>3, <1>4 DEF IInv

(* No index below 4 has the bit of __GFP_HIGH, so no list has the high zone. *)
LEMMA ListsLow ==
  ASSUME NEW i \in 0 .. 3, NEW n \in DOMAIN ZoneList(i)
  PROVE  ZoneList(i)[n] \in {DMA, NORMAL}
<1>1. ~ HasBit(i, GfpHigh)
  BY DEF HasBit, GfpHigh
<1> DEFINE S == {DMA, NORMAL}
           d == IF HasBit(i, GfpDma) THEN <<DMA>> ELSE <<>>
<1>2. d \in Seq(S) /\ <<>> \in Seq(S) /\ <<NORMAL>> \in Seq(S)
  <2>1. DMA \in S /\ NORMAL \in S
    OBVIOUS
  <2> HIDE DEF S
  <2>2. <<DMA>> \in Seq(S) /\ <<NORMAL>> \in Seq(S) /\ <<>> \in Seq(S)
    BY <2>1
  <2> QED BY <2>2
<1>3. ZoneList(i) = d \o <<>> \o <<NORMAL>>
  BY <1>1 DEF ZoneList
<1> HIDE DEF d, S
<1>4. ZoneList(i) \in Seq(S)
  BY <1>2, <1>3
<1>5. \A k \in DOMAIN ZoneList(i) : ZoneList(i)[k] \in S
  BY <1>4
<1> QED BY <1>5 DEF S

LEMMA BuildZoneListsInv == IInv /\ BuildZoneLists => IInv'
<1> SUFFICES ASSUME IInv, BuildZoneLists PROVE IInv' OBVIOUS
<1>1. Typed' BY DEF IInv, Typed, BuildZoneLists, memory
<1>2. Scanned' BY DEF IInv, Scanned, BuildZoneLists, memory, Separate, Available
<1>3. Paging' BY DEF IInv, Paging, BuildZoneLists, Stored, paging
<1>4. Laid'
  <2>1. \A i \in DOMAIN zonelists' : \A n \in DOMAIN zonelists'[i] :
          zonelists'[i][n] \in {DMA, NORMAL}
    BY ListsLow DEF BuildZoneLists
  <2> QED BY <2>1 DEF IInv, Laid, BuildZoneLists, memory
<1> QED BY <1>1, <1>2, <1>3, <1>4 DEF IInv

LEMMA StutterInv == IInv /\ UNCHANGED vars => IInv'
<1> SUFFICES ASSUME IInv, UNCHANGED vars PROVE IInv' OBVIOUS
<1> USE DEF vars, memory, paging, zones
<1>1. Typed' BY DEF IInv, Typed
<1>2. Scanned' BY DEF IInv, Scanned, Separate, Available
<1>3. Paging' BY DEF IInv, Paging, Stored
<1>4. Laid' BY DEF IInv, Laid
<1> QED BY <1>1, <1>2, <1>3, <1>4 DEF IInv

(* The invariant of boot, from which the properties follow.                  *)
THEOREM BootInductive == Spec => []IInv
<1>1. IInv /\ [Next]_vars => IInv'
  BY BootTablesInv, ScanInv, ScanEndInv, FillTableInv, SetDirInv, ZoneSizesInv,
     ClearZoneInv, BuildZoneListsInv, StutterInv DEF Next, Done
<1> QED BY InitInv, <1>1, PTL DEF Spec

-----------------------------------------------------------------------------
(* Where a page goes whose table holds what was there before: page r of      *)
(* directory entry i.                                                        *)
LEMMA PageIs ==
  ASSUME NEW i \in Nat, NEW r \in 0 .. Entries - 1
  PROVE  /\ (i * Entries + r) \div Entries = i
         /\ (i * Entries + r) % Entries = r
BY DEF Entries

LEMMA FrameThrough ==
  ASSUME NEW i \in Nat, NEW r \in 0 .. Entries - 1, NEW first \in Nat,
         FirstOf(dir[i]) = first
  PROVE  FrameOf(i * Entries + r) = first + r
<1>1. PICK v : v = i * Entries + r
  OBVIOUS
<1>2. v \div Entries = i /\ v % Entries = r
  BY <1>1, PageIs
<1>3. first # Unmapped
  BY DEF Unmapped
<1> QED BY <1>1, <1>2, <1>3 DEF FrameOf

(* A new table that is stored maps its 4 MB from frame 0 on.                 *)
LEMMA NewTable ==
  ASSUME IInv, pc # "boot", NEW k \in 0 .. Turns - 1, k < Stored
  PROVE  FirstOf(dir[KernelDir + k]) = k * Entries
<1>1. PICK t : t = PageStart + k
  OBVIOUS
<1>2. dir[KernelDir + k] = t
  BY <1>1 DEF IInv, Paging
<1>3. k \in Int /\ k >= 0 /\ k < filled /\ filled \in Int /\ Turns \in Nat
  BY Indices DEF IInv, Paging, Stored
<1>4. PageStart \in Nat /\ Pg0 < 0 /\ Pg4 < 0 /\ Pg0 \in Int /\ Pg4 \in Int
  BY DEF PageStart, Pg0, Pg4
<1>5. t \in PageStart .. PageStart + filled - 1 /\ t # Pg0 /\ t # Pg4 /\ t - PageStart = k
  BY <1>1, <1>3, <1>4
<1> QED BY <1>2, <1>5 DEF FirstOf

LEMMA KernelPages ==
  ASSUME IInv, pc # "boot", NEW f \in Nat, f \div Entries < Turns, f \div Entries < Stored
  PROVE  FrameOf(KernelPage(f)) = f
<1> DEFINE k == f \div Entries
           r == f % Entries
<1>1. k \in Nat /\ r \in 0 .. Entries - 1 /\ f = k * Entries + r
  BY DEF Entries
<1>2. k < Turns /\ k < Stored /\ Turns \in Nat
  BY Indices
<1> HIDE DEF k, r
<1>3. k \in 0 .. Turns - 1 /\ k * Entries \in Nat
  BY <1>1, <1>2 DEF Entries
<1>4. FirstOf(dir[KernelDir + k]) = k * Entries
  BY <1>2, <1>3, NewTable
<1>5. PICK i : i = KernelDir + k
  OBVIOUS
<1>6. i \in Nat /\ KernelPage(f) = i * Entries + r
  BY <1>1, <1>5 DEF KernelPage, KernelDir, Entries
<1>7. FrameOf(i * Entries + r) = k * Entries + r
  BY <1>1, <1>3, <1>4, <1>5, <1>6, FrameThrough
<1> QED BY <1>1, <1>6, <1>7

(* Once init_page_table is through, __va is good for all of the 1 GB.        *)
LEMMA AllMapped ==
  ASSUME IInv, pc \in {"sizes", "clear", "done"}, NEW f \in Nat, f < Turns * Entries
  PROVE  FrameOf(KernelPage(f)) = f
<1>1. f \div Entries < Turns
  BY DEF Turns, Entries, KernelDir
<1>2. Stored = Turns /\ pc # "boot"
  BY DEF IInv, Paging, Stored
<1> QED BY <1>1, <1>2, KernelPages

(* The tables that boot.S made stand in for new ones that are not stored.    *)
LEMMA OldTables ==
  ASSUME IInv, pc # "boot"
  PROVE  /\ FirstOf(dir[0]) = 0
         /\ FirstOf(dir[KernelDir]) = 0
         /\ FirstOf(dir[KernelDir + 4]) = PageStart
<1>1. FirstOf(Pg0) = 0 /\ FirstOf(Pg4) = PageStart
  <2>1. /\ Pg0 # Pg4 /\ filled \in Int
        /\ Pg0 \notin PageStart .. PageStart + filled - 1
        /\ Pg4 \notin PageStart .. PageStart + filled - 1
    BY Indices DEF IInv, Paging, Pg0, Pg4
  <2> QED BY <2>1 DEF FirstOf
<1>2. Stored \in Int
  BY Indices DEF IInv, Paging, Stored
<1>3. dir[0] = Pg0 /\ (Stored <= 0 => dir[KernelDir] = Pg0)
      /\ (Stored <= 4 => dir[KernelDir + 4] = Pg4)
  BY DEF IInv, Paging
<1>4. FirstOf(dir[KernelDir]) = 0
  <2>1. CASE Stored <= 0
    BY <2>1, <1>1, <1>3
  <2>2. CASE Stored > 0
    <3>1. PICK k : k = 0
      OBVIOUS
    <3>2. k \in 0 .. Turns - 1 /\ k < Stored /\ KernelDir + k = KernelDir /\ k * Entries = 0
      BY <2>2, <3>1, Indices DEF Entries
    <3> QED BY <3>2, NewTable
  <2> QED BY <1>2, <2>1, <2>2
<1>5. FirstOf(dir[KernelDir + 4]) = PageStart
  <2>1. CASE Stored <= 4
    BY <2>1, <1>1, <1>3
  <2>2. CASE Stored > 4
    <3>1. PICK k : k = 4
      OBVIOUS
    <3>2. k \in 0 .. Turns - 1 /\ k < Stored /\ KernelDir + k = KernelDir + 4
          /\ k * Entries = PageStart
      BY <2>2, <3>1, Indices DEF Entries, PageStart
    <3> QED BY <3>2, NewTable
  <2> QED BY <1>2, <2>1, <2>2
<1> QED BY <1>1, <1>3, <1>4, <1>5

(* All descriptors, 48 bytes for each frame of 64 GB, end below 1 GB.        *)
LEMMA CountIs ==
  ASSUME IInv, pc \in {"clear", "done"}
  PROVE  count \in Nat /\ count <= Physical
<1>1. maxPfn \in Nat /\ maxPfn <= Physical
  BY Numbers DEF IInv, Typed
<1>2. Last(maxPfn) \in Nat /\ Last(maxPfn) <= Physical
  BY <1>1, Numbers DEF Last
<1>3. Len(zone) \in {0, 1, 2, 3} /\ (zone # <<>> => Len(zone) # 0)
  <2>1. PICK l \in 0 .. 3 : l = Len(zone)
    BY DEF IInv, Laid, HIGH
  <2>2. l \in {0, 1, 2, 3}
    OBVIOUS
  <2>3. zone # <<>> => Len(zone) # 0
    BY DEF IInv, Laid
  <2> QED BY <2>1, <2>2, <2>3
<1>4. count = IF zone = <<>> THEN 0 ELSE ZoneAt(Len(zone), maxPfn).to
  BY DEF IInv, Laid
<1>5. /\ ZoneAt(1, maxPfn).to = MaxDma /\ ZoneAt(2, maxPfn).to = MaxLow
      /\ ZoneAt(3, maxPfn).to = Last(maxPfn)
  BY ZoneAtIs DEF DMA, NORMAL, HIGH
<1>6. /\ zone # <<>> /\ Len(zone) = 1 => count = MaxDma
      /\ zone # <<>> /\ Len(zone) = 2 => count = MaxLow
      /\ zone # <<>> /\ Len(zone) = 3 => count = Last(maxPfn)
      /\ zone = <<>> => count = 0
  BY <1>4, <1>5
<1> QED BY <1>2, <1>3, <1>6, Numbers

LEMMA DescFits ==
  ASSUME NEW n \in Nat, n <= Physical
  PROVE  /\ (n * DescBytes) \div PageBytes \in Nat
         /\ DescStart + (n * DescBytes) \div PageBytes < Turns * Entries
<1>1. n * 48 \in Nat /\ n * 48 <= 805306368
  BY SMT DEF Physical
<1>2. PICK b : b = n * 48
  OBVIOUS
<1>3. b \div 4096 \in Nat /\ b \div 4096 <= 196608
  BY <1>1, <1>2, SMT
<1> QED
  BY <1>2, <1>3, SMT DEF DescStart, Turns, Entries, KernelDir, PageStart, DescBytes, PageBytes

-----------------------------------------------------------------------------
(* While init_page_table replaces the tables, the kernel, the screen, the    *)
(* stack, the table being written and then the descriptors stay mapped where *)
(* they are, for every memory map and every kernel of the assumption.        *)
THEOREM BootMapKept == Spec => []MapKept
<1>1. IInv => MapKept
  <2> SUFFICES ASSUME IInv, pc # "boot"
               PROVE  /\ \A f \in {184} \cup 256 .. kernelEnd - 1 :
                           FrameOf(KernelPage(f)) = f /\ FrameOf(f) = f
                      /\ pc = "fill" =>
                           FrameOf(KernelPage(PageStart + filled)) = PageStart + filled
                      /\ \A f \in DescStart .. DescStart + (count * DescBytes) \div PageBytes :
                           pc \in {"clear", "done"} => FrameOf(KernelPage(f)) = f
    BY DEF MapKept
  <2>1. ASSUME NEW f \in {184} \cup 256 .. kernelEnd - 1
        PROVE  FrameOf(KernelPage(f)) = f /\ FrameOf(f) = f
    <3>1. kernelEnd \in 257 .. Entries
      BY BootMemAssumption DEF IInv, Typed
    <3>2. f \in 0 .. Entries - 1
      BY <3>1 DEF Entries
    <3>3. PICK i : i = 0
      OBVIOUS
    <3>4. i \in Nat /\ i * Entries + f = f /\ i + f = f /\ FirstOf(dir[i]) = i
      BY <3>2, <3>3, OldTables DEF Entries
    <3>5. FrameOf(f) = f
      BY <3>2, <3>4, FrameThrough
    <3>6. KernelDir \in Nat /\ KernelPage(f) = KernelDir * Entries + f
      BY Indices DEF KernelPage
    <3>7. FirstOf(dir[KernelDir]) = i
      BY <3>3, OldTables
    <3> QED BY <3>2, <3>4, <3>5, <3>6, <3>7, FrameThrough
  <2>2. ASSUME pc = "fill"
        PROVE  FrameOf(KernelPage(PageStart + filled)) = PageStart + filled
    <3>1. filled \in 0 .. Entries - 1
      BY <2>2 DEF IInv, Paging, Turns, Entries, KernelDir
    <3>2. PICK i : i = KernelDir + 4
      OBVIOUS
    <3>3. i \in Nat /\ KernelPage(PageStart + filled) = i * Entries + filled
      BY <3>1, <3>2 DEF KernelPage, KernelDir, Entries, PageStart
    <3>4. FirstOf(dir[i]) = PageStart /\ PageStart \in Nat
      BY <3>2, OldTables, Indices
    <3> QED BY <3>1, <3>3, <3>4, FrameThrough
  <2>3. ASSUME pc \in {"clear", "done"},
               NEW f \in DescStart .. DescStart + (count * DescBytes) \div PageBytes
        PROVE  FrameOf(KernelPage(f)) = f
    <3>1. count \in Nat /\ count <= Physical
      BY <2>3, CountIs
    <3>2. PICK d : d = (count * DescBytes) \div PageBytes
      OBVIOUS
    <3>3. d \in Nat /\ DescStart + d < Turns * Entries
      BY <3>1, <3>2, DescFits
    <3>4. f \in Nat /\ f < Turns * Entries
      BY <3>2, <3>3 DEF DescStart, PageStart, Turns, Entries, KernelDir
    <3> QED BY <2>3, <3>4, AllMapped
  <2> QED BY <2>1, <2>2, <2>3
<1> QED BY <1>1, BootInductive, PTL

(* What find_pfn_layout has found when it is through.                        *)
LEMMA TopIsFound ==
  ASSUME IInv, pc \notin {"boot", "scan"}
  PROVE  TopFound
<1>1. \A i \in Available : i \in DOMAIN memMap /\ i \in 1 .. Len(memMap)
  BY MapType DEF Available, IInv
<1>2. at > Len(memMap) /\ at \in Nat /\ Len(memMap) \in Nat
  BY MapType DEF IInv, Scanned, Typed
<1>3. \A i \in Available : i < at
  BY <1>1, <1>2
<1>4. maxPfn = 0 \/ \E i \in Available : maxPfn = memMap[i].end
  BY DEF IInv, Scanned
<1>5. Separate => \A i \in Available : memMap[i].first > 0 => memMap[i].end <= maxPfn
  BY <1>3 DEF IInv, Scanned
<1> QED BY <1>4, <1>5 DEF TopFound

(* The three zones, when boot is done.                                       *)
LEMMA ZonesAre ==
  ASSUME IInv, pc = "done"
  PROVE  /\ zone[DMA] = [base |-> 0, spanned |-> MaxDma, to |-> MaxDma]
         /\ zone[NORMAL] = [base |-> MaxDma, spanned |-> MaxLow - MaxDma, to |-> MaxLow]
         /\ zone[HIGH] = [base |-> MaxLow, spanned |-> (maxPfn - MaxLow) % Word,
                          to |-> Last(maxPfn)]
         /\ count = Last(maxPfn) /\ total = maxPfn
<1>1. Len(zone) = HIGH
  BY DEF IInv, Laid
<1>2. \A i \in Zones : zone[i] = ZoneAt(i, maxPfn)
  BY <1>1 DEF IInv, Laid, Zones, DMA, HIGH
<1>3. zone # <<>>
  BY <1>1 DEF HIGH
<1>4. count = ZoneAt(HIGH, maxPfn).to /\ total = maxPfn
  BY <1>1, <1>3 DEF IInv, Laid
<1>5. DMA \in Zones /\ NORMAL \in Zones /\ HIGH \in Zones
  BY DEF Zones, DMA, NORMAL, HIGH
<1> QED BY <1>2, <1>4, <1>5, ZoneAtIs

(* The zones are what module Buddy assumes, and max_pfn is where the memory  *)
(* ends, also where the size of the high zone has wrapped.                   *)
THEOREM ZonesFit == Spec => []ZonesFitBuddy
<1>1. IInv => ZonesFitBuddy
  <2> SUFFICES ASSUME IInv, pc = "done"
               PROVE  /\ TopFound /\ total = maxPfn
                      /\ \A z \in Zones :
                           /\ zone[z].base < maxPfn =>
                                /\ Capped(zone[z].to) = Capped(zone[z].base + zone[z].spanned)
                                /\ zone[z].base + zone[z].spanned <= count
                           /\ z < HIGH => zone[z + 1].base = zone[z].to
                      /\ maxPfn <= zone[HIGH].to
    BY DEF ZonesFitBuddy
  <2>1. TopFound
    BY TopIsFound
  <2>2. maxPfn \in Nat /\ maxPfn < Word
    BY SizesAre DEF IInv
  <2>3. /\ count = Last(maxPfn) /\ Last(maxPfn) \in Nat
        /\ MaxLow <= Last(maxPfn) /\ maxPfn <= Last(maxPfn)
        /\ MaxLow < maxPfn => Last(maxPfn) = maxPfn
    BY <2>2, ZonesAre, Numbers DEF Last
  <2>4. MaxLow < maxPfn => (maxPfn - MaxLow) % Word = maxPfn - MaxLow
    <3>1. PICK a : a = maxPfn - MaxLow
      OBVIOUS
    <3>2. MaxLow < maxPfn => a \in Nat /\ a < Word
      BY <2>2, <3>1, Numbers
    <3> QED BY <3>1, <3>2, Numbers, ModSmall
  <2> DEFINE Fits(z) ==
        zone[z].base < maxPfn =>
          /\ zone[z].to = zone[z].base + zone[z].spanned
          /\ zone[z].base + zone[z].spanned <= count
  <2>5. Fits(DMA) /\ zone[NORMAL].base = zone[DMA].to
    BY <2>3, ZonesAre, Numbers
  <2>6. Fits(NORMAL) /\ zone[HIGH].base = zone[NORMAL].to
    BY <2>3, ZonesAre, Numbers
  <2>7. Fits(HIGH)
    <3>1. /\ zone[HIGH].base = MaxLow /\ zone[HIGH].to = Last(maxPfn)
          /\ zone[HIGH].spanned = (maxPfn - MaxLow) % Word
      BY ZonesAre
    <3>2. MaxLow < maxPfn => MaxLow + (maxPfn - MaxLow) = maxPfn
      BY <2>2, Numbers
    <3> QED BY <2>3, <2>4, <3>1, <3>2
  <2> HIDE DEF Fits
  <2>8. ASSUME NEW z \in Zones
        PROVE  Fits(z) /\ (z < HIGH => zone[z + 1].base = zone[z].to)
    <3>1. /\ z = DMA \/ z = NORMAL \/ z = HIGH
          /\ DMA + 1 = NORMAL /\ NORMAL + 1 = HIGH /\ ~(HIGH < HIGH)
      BY DEF Zones, DMA, NORMAL, HIGH
    <3> QED BY <2>5, <2>6, <2>7, <3>1
  <2>9. \A z \in Zones : zone[z].base < maxPfn =>
          /\ Capped(zone[z].to) = Capped(zone[z].base + zone[z].spanned)
          /\ zone[z].base + zone[z].spanned <= count
    BY <2>8 DEF Fits
  <2>10. total = maxPfn /\ maxPfn <= zone[HIGH].to
    BY <2>3, ZonesAre
  <2> QED BY <2>1, <2>8, <2>9, <2>10
<1> QED BY <1>1, BootInductive, PTL

(* What a frame list can hand out lies below 896 MB, where __va reaches it:  *)
(* no list has the high zone, whatever the memory map.                       *)
THEOREM ZoneFramesAddressable == Spec => []Addressable
<1>1. IInv => Addressable
  <2> SUFFICES ASSUME IInv, pc = "done",
                      NEW i \in DOMAIN zonelists, NEW n \in DOMAIN zonelists[i],
                      NEW z, z = zone[zonelists[i][n]],
                      NEW last, last = Capped(z.base + z.spanned) - 1, z.base <= last,
                      NEW f \in {z.base, last}
               PROVE  f < MaxLow /\ FrameOf(KernelPage(f)) = f
    BY DEF Addressable
  <2>1. zonelists[i][n] \in {DMA, NORMAL}
    BY DEF IInv, Laid
  <2>2. z.base \in Nat /\ z.base + z.spanned \in Nat /\ z.base + z.spanned <= MaxLow
    BY <2>1, ZonesAre, Numbers
  <2>3. \A x, y \in Nat : Min({x, y}) \in Nat /\ Min({x, y}) <= x
    <3>1. ASSUME NEW x \in Nat, NEW y \in Nat
          PROVE  Min({x, y}) \in {x, y} /\ Min({x, y}) <= x
      <4>1. \E m \in {x, y} : \A u \in {x, y} : m <= u
        OBVIOUS
      <4> QED BY <4>1 DEF Min
    <3> QED BY <3>1
  <2>4. PICK e \in Nat : e = z.base + z.spanned
    BY <2>2
  <2>5. maxPfn \in Nat
    BY SizesAre DEF IInv
  <2>6. Capped(e) \in Nat /\ Capped(e) <= e
    BY <2>3, <2>5 DEF Capped
  <2>7. f \in Nat /\ f < MaxLow
    BY <2>2, <2>4, <2>6, Numbers
  <2>8. f < Turns * Entries
    BY <2>7, SMT DEF MaxLow, Turns, Entries, KernelDir
  <2> QED BY <2>7, <2>8, AllMapped
<1> QED BY <1>1, BootInductive, PTL
=============================================================================
