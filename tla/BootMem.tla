------------------------------- MODULE BootMem -------------------------------
(* How boot lays out memory, from the first page tables of boot.S to the     *)
(* zones: mm_page_init with find_pfn_layout, init_page_table,                *)
(* zone_sizes_init, node_alloc_mem_map and init_build_zonelist.  What this   *)
(* leaves is what module Buddy starts from.  Addresses are frame numbers.    *)
EXTENDS Integers, Sequences, FiniteSetsExt

CONSTANTS
  MemMaps,   \* the memory maps a boot loader may pass: sequences of entries
  Kernels,   \* frames of the end of the kernel image, the last one partly used
  Word       \* 2^32: where an unsigned sum or difference wraps

Entries   == 1024                 \* PTRS_PER_PTE and PTRS_PER_PGD
KernelDir == 768                  \* pgd_index(PAGE_OFFSET)
Turns     == Entries - KernelDir  \* the turns of init_page_table
PageStart == 4096                 \* page_start, 16 MB: the new tables
DescStart == PageStart + Turns    \* page_desc_start
DescBytes == 48                   \* sizeof(struct page)
PageBytes == 4096
MaxLow    == 229376               \* PFN_DOWN(MAX_LOW_MEM), 896 MB
MaxDma    == 4096                 \* virt_to_phys(MAX_DMA_ADDRESS) >> PAGE_SHIFT
Physical  == 16777216             \* the frames that 36 address lines reach, 64 GB

(* An entry: the frame of addr + size (the 20 bytes of the entry), that of   *)
(* addr, that of addr + len, and whether its type is MEMORY_AVAILABLE.  The  *)
(* kernel lies in the 4 MB that boot.S maps.                                 *)
ASSUME BootMemAssumption ==
  /\ \A m \in MemMaps :
       /\ m \in Seq([test : Nat, first : Nat, end : Nat, available : BOOLEAN])
       /\ \A i \in DOMAIN m : m[i].available =>
            m[i].first <= m[i].test /\ m[i].first <= m[i].end /\ m[i].end <= Physical
  /\ Kernels \subseteq 257 .. Entries
  /\ Word \in Nat /\ Physical * DescBytes < Word

DMA == 1
NORMAL == 2
HIGH == 3
Zones == DMA .. HIGH
GfpDma == 1       \* __GFP_DMA
GfpHigh == 32     \* __GFP_HIGH
HasBit(i, b) == (i \div b) % 2 = 1

Unmapped == -1    \* no table
Pg0 == -2         \* the two tables of boot.S
Pg4 == -3

VARIABLES
  pc,        \* what boot does next
  memMap, kernelEnd,
  at,        \* the entry find_pfn_layout looks at
  maxPfn,    \* max_pfn
  dir,       \* global_page_dir: the frame of the table of each entry
  filled,    \* the new tables whose entries have been written
  sizes,     \* zones_size
  total,     \* node_spanned_pages
  count,     \* descriptors cleared
  zone,      \* the zones set up: base, spanned_pages, end of the flagged descriptors
  zonelists  \* the zones of each zone list

memory == <<memMap, kernelEnd, at, maxPfn>>
paging == <<dir, filled>>
zones  == <<sizes, total, count, zone, zonelists>>
vars   == <<pc, memory, paging, zones>>

-----------------------------------------------------------------------------
Init ==
  /\ pc = "boot"
  /\ memMap \in MemMaps /\ kernelEnd \in Kernels
  /\ at = 1 /\ maxPfn = 0
  /\ dir = [i \in 0 .. Entries - 1 |-> Unmapped] /\ filled = 0
  /\ sizes = [z \in Zones |-> 0] /\ total = 0 /\ count = 0
  /\ zone = <<>> /\ zonelists = <<>>

(* boot.S: the first 4 MB and the 4 MB from 16 MB on, each mapped twice.     *)
BootTables ==
  /\ pc = "boot" /\ pc' = "scan"
  /\ dir' = [dir EXCEPT ![0] = Pg0, ![KernelDir] = Pg0, ![4] = Pg4, ![KernelDir + 4] = Pg4]
  /\ UNCHANGED <<memory, filled, zones>>

(* Mutant: the size of the entry is taken for the length of the memory.      *)
EndOfTest(e) == e.test
(* The frame that max_pfn becomes.                                           *)
EndOf(e) == e.end

(* A turn of find_pfn_layout.                                                *)
Scan ==
  /\ pc = "scan" /\ at <= Len(memMap)
  /\ at' = at + 1
  /\ maxPfn' = IF memMap[at].available /\ maxPfn < memMap[at].test
               THEN EndOf(memMap[at]) ELSE maxPfn
  /\ UNCHANGED <<pc, memMap, kernelEnd, paging, zones>>

ScanEnd ==
  /\ pc = "scan" /\ at > Len(memMap)
  /\ pc' = "fill"
  /\ UNCHANGED <<memory, paging, zones>>

(* Mutant: the directory is set before the table is written.                 *)
FillTableLate ==
  /\ \/ /\ pc = "fill" /\ pc' = "set" /\ UNCHANGED filled
        /\ dir' = [dir EXCEPT ![KernelDir + filled] = PageStart + filled]
     \/ /\ pc = "set" /\ filled' = filled + 1 /\ UNCHANGED dir
        /\ pc' = IF filled + 1 = Turns THEN "sizes" ELSE "fill"
  /\ UNCHANGED <<memory, zones>>
(* The inner loop of init_page_table writes the table of this turn.          *)
FillTable ==
  /\ pc = "fill" /\ pc' = "set"
  /\ filled' = filled + 1
  /\ UNCHANGED <<memory, dir, zones>>

(* The end of the turn, set_pgd: from here on the table is in use.           *)
SetDir ==
  /\ pc = "set"
  /\ dir' = [dir EXCEPT ![KernelDir + filled - 1] = PageStart + filled - 1]
  /\ pc' = IF filled = Turns THEN "sizes" ELSE "fill"
  /\ UNCHANGED <<memory, filled, zones>>

(* Mutant: the frames of the first zone are counted in the second as well.   *)
SizesTwice(max) == <<MaxDma, MaxLow, (max - MaxLow) % Word>>
(* Without 896 MB the size of the high zone is negative, and wraps.          *)
Sizes(max) ==
  IF MaxLow < MaxDma THEN <<MaxLow, 0, 0>>
  ELSE <<MaxDma, MaxLow - MaxDma, (max - MaxLow) % Word>>

(* zone_sizes_init.                                                          *)
ZoneSizes ==
  /\ pc = "sizes" /\ pc' = "clear"
  /\ sizes' = Sizes(maxPfn)
  /\ total' = (sizes'[DMA] + sizes'[NORMAL] + sizes'[HIGH]) % Word
  /\ UNCHANGED <<memory, paging, count, zone, zonelists>>

(* A turn of node_alloc_mem_map: the descriptors from count up to the limit  *)
(* are cleared and get the number of the zone, none where the limit wrapped. *)
ClearZone ==
  /\ pc = "clear" /\ Len(zone) < HIGH
  /\ LET i     == Len(zone) + 1
         limit == (IF i = DMA THEN sizes[DMA]
                   ELSE IF i = NORMAL THEN sizes[DMA] + sizes[NORMAL] ELSE total) % Word
     IN  /\ count' = IF count < limit THEN limit ELSE count
         /\ zone' = Append(zone, [base |-> count, spanned |-> sizes[i], to |-> count'])
  /\ UNCHANGED <<pc, memory, paging, sizes, total, zonelists>>

(* Mutant: the zone modifier of the high zone is the right bit.              *)
ZoneListHighmem(i) ==
  (IF HasBit(i, GfpDma) THEN <<DMA>> ELSE <<>>) \o
  (IF HasBit(i, 2) THEN <<HIGH>> ELSE <<>>) \o <<NORMAL>>
(* init_build_zonelist tests __GFP_HIGH, which no index below 4 has.         *)
ZoneList(i) ==
  (IF HasBit(i, GfpDma) THEN <<DMA>> ELSE <<>>) \o
  (IF HasBit(i, GfpHigh) THEN <<HIGH>> ELSE <<>>) \o <<NORMAL>>

(* The boot loop that Buddy models, and then the zone lists.                 *)
BuildZoneLists ==
  /\ pc = "clear" /\ Len(zone) = HIGH
  /\ pc' = "done"
  /\ zonelists' = [i \in 0 .. 3 |-> ZoneList(i)]
  /\ UNCHANGED <<memory, paging, sizes, total, count, zone>>

Done == pc = "done" /\ UNCHANGED vars

Next == \/ BootTables \/ Scan \/ ScanEnd \/ FillTable \/ SetDir
        \/ ZoneSizes \/ ClearZone \/ BuildZoneLists \/ Done
Spec == Init /\ [][Next]_vars

-----------------------------------------------------------------------------
(* The frame behind virtual page v, through the directory and its table.     *)
FirstOf(table) ==
  CASE table = Pg0 -> 0 [] table = Pg4 -> PageStart
    [] table \in PageStart .. PageStart + filled - 1 -> (table - PageStart) * Entries
    [] OTHER -> Unmapped
FrameOf(v) ==
  LET first == FirstOf(dir[v \div Entries])
  IN  IF first = Unmapped THEN Unmapped ELSE first + (v % Entries)
KernelPage(f) == KernelDir * Entries + f   \* where __va puts frame f

-----------------------------------------------------------------------------
(* While init_page_table replaces the tables it runs on, one directory entry *)
(* at a time, everything boot uses stays where it was: the kernel and the    *)
(* screen at PAGE_OFFSET, the stack at its physical address, the table being *)
(* written, and then all descriptors.                                        *)
MapKept ==
  pc # "boot" =>
    /\ \A f \in {184} \cup 256 .. kernelEnd - 1 : FrameOf(KernelPage(f)) = f /\ FrameOf(f) = f
    /\ pc = "fill" => FrameOf(KernelPage(PageStart + filled)) = PageStart + filled
    /\ \A f \in DescStart .. DescStart + (count * DescBytes) \div PageBytes :
         pc \in {"clear", "done"} => FrameOf(KernelPage(f)) = f

(* When the available entries are in order, with something between them,     *)
(* max_pfn is the end of the last one; in any order it is the end of one.    *)
Available == {i \in DOMAIN memMap : memMap[i].available}
Separate == \A i, j \in Available : i < j => memMap[i].end < memMap[j].first
TopFound ==
  /\ maxPfn \in {0} \cup {memMap[i].end : i \in Available}
  /\ Separate => \A i \in Available : memMap[i].first > 0 => memMap[i].end <= maxPfn

(* The zones are what Buddy assumes of them, also on a machine whose memory  *)
(* ends below 896 MB: the flags of a frame name the one zone that spans it,  *)
(* the zone's descriptors have been cleared, and the sizes, one of which has *)
(* wrapped, add up to max_pfn, which is where the memory ends.               *)
Capped(n) == Min({n, maxPfn})
ZonesFitBuddy ==
  pc = "done" =>
    /\ TopFound /\ total = maxPfn
    /\ \A z \in Zones :
         /\ zone[z].base < maxPfn =>
              /\ Capped(zone[z].to) = Capped(zone[z].base + zone[z].spanned)
              /\ zone[z].base + zone[z].spanned <= count
         /\ z < HIGH => zone[z + 1].base = zone[z].to
    /\ maxPfn <= zone[HIGH].to

(* A frame that some zone list can hand out has an address: it is mapped     *)
(* where lowmem_page_address says that it is.                                *)
Addressable ==
  pc = "done" =>
    \A i \in DOMAIN zonelists : \A n \in DOMAIN zonelists[i] :
      LET z    == zone[zonelists[i][n]]
          last == Capped(z.base + z.spanned) - 1
      IN  z.base <= last =>
            \A f \in {z.base, last} : f < MaxLow /\ FrameOf(KernelPage(f)) = f
=============================================================================
