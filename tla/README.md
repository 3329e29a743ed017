# A TLA+ verification project for sf-os

sf-os is a small i386 kernel: it boots from multiboot, builds a buddy page
allocator and a slab allocator on top of it, programs a pair of 8259A interrupt
controllers, registers a keyboard and a timer handler, enables interrupts and
idles. It prints on a text screen and keeps a log of what it prints. It runs on
one CPU. What can interleave is therefore the boot code with
interrupt handlers, and handlers with each other; what is hard elsewhere is
sequential: structures that share memory words (an intrusive list link is also
the back pointer of a slab page), counters that are cached, ranges that end in
the middle of a block.

Paths below are relative to `src/`; `mm_init.c` and the like abbreviate
`kernel/kernel/mm_init.c`.

## 1. Inventory

### Boot memory (`boot.S`, `linker.ld`, `page.c`, `mm_init.c`, `kernel/arch/i386/mm.c`, `page_table.h`)
- *State*: the page directory and its tables, `max_pfn`, the sizes of the zones, how
  many descriptors are cleared, the zone lists.
- *Operations*: the first tables of `_start`, `find_pfn_layout`, `init_page_table`,
  `zone_sizes_init`, `node_alloc_mem_map`, `init_build_zonelist`; all of them once.
- *Hard*: the tables are replaced while the processor runs on them; unsigned
  differences that wrap on a small machine; the bounds of the reserved frames.
- *Correct when*: what boot uses stays mapped where it was, the zones are what the page
  allocator assumes, and every frame that it may hand out has an address.

### Page allocator (`page_alloc.c`, `mm_init.c`, `kernel/arch/i386/mm.c`, `i386/mm.h`, `list.h`)
- *State*: `mem_map`, one `struct page` for every frame (flags, `_count`,
  `private`, `lru`); for every zone `free_area[0..MAX_ORDER-1]` with a list and
  `nr_free`; `free_pages`.
- *Operations*: `node_alloc_mem_map` walks every frame and either reserves it or
  frees it with `free_page`; `__free_pages` merges a block with its buddy as long
  as it can; `__alloc_pages` takes the first block of the first list at or above
  the order (`__rmqueue`) and gives the rest back (`expand`).
- *Clients*: the slab allocator and kmalloc. A slab page stores a pointer to its
  first page over `lru.prev`.
- *Hard*: merging across several turns, zones whose end is no multiple of a
  block, words with two meanings, stale `private`, the turn too many of `expand`.
- *Correct when*: free blocks are disjoint, in their zone and contain no page of
  the kernel; no page is lost; lists are rings that agree with their counters;
  blocks handed out do not overlap.

### Slab allocator (`slab.c`, `kernel/slab.h`, `slub.c`)
- *State*: for every cache the slab at the front (`cpu_slab->page`, `freelist`),
  the CPU's list of partial slabs, the node's list; for every slab `inuse`,
  `pobjects`, `frozen`, `free_list`, `next`; behind every object the link to the
  next free one.
- *Operations*: `kmem_cache_alloc`, `new_slab`, `kmem_cache_free`,
  `kmem_freepages`, creation of caches.
- *Hard*: the descriptor of the slab at the front is out of date by design, and is
  trusted again when the slab has left the front.
- *Correct when*: no object is handed out twice, free lists end, a slab is in one
  place.

### kmalloc (`slab.c`)
Size classes over the slab allocator and page blocks over the page allocator;
`kfree` decides from the page. Correct when the class is at least as large as the
request, the index is in the array and what `kfree` gives back is what `kmalloc`
took.

### Interrupts (`i8259.c`, `handle.c`, `manage.c`, `irq.h`, `interrupt.S`, `kernel.c`, `kbddriver.c`)
- *State*: the two controllers (request, service and mask registers),
  `cached_irq_mask`, `irq_desc[]` (status, action chain, lock), `i8259A_lock`, the
  interrupt flag, the stack of interrupted contexts.
- *Operations*: `init_IRQ`, `enable_8259A_irq`, `mask_and_ack_8259A`,
  `end_8259A_irq`, `__do_IRQ`, `handle_IRQ_event`, `setup_irq`.
- *Hard*: a line may fire at any instruction with interrupts on; handlers without
  `SA_INTERRUPT` nest; a spin lock taken by the interrupted code is never released.
- *Correct when*: no context waits for itself, a line is not entered twice, a mask
  is always undone, each interrupt gets the EOIs it needs, an edge that the controllers
  pass on is served.

### Traps and segments (`traps.c`, `interrupt.c`, `interrupt.S`, `boot.S`, `ptrace.h`, `segment.h`)
- *State*: the gates of the IDT, the descriptors of the GDT, the registers, the flags
  and the stack of the context that runs, and of those it has interrupted.
- *Operations*: `setup_ign_idt`, `trap_init` and `init_IRQ` fill the IDT; the stubs,
  `error_code` and `common_interrupt` build a `struct pt_regs`; `restore_all` and
  `ignore_int` take it down again.
- *Hard*: three tables (of the CPU, of the stubs, of `traps.c`) must agree on which
  exception has an error code; trap gates leave interrupts on, so that everything nests
  between any two instructions of a stub; before `trap_init` there is only `ignore_int`.
- *Correct when*: handlers get the frame they expect and whoever was interrupted goes
  on with what it had.

### Timekeeping (`time.c`, `timer.c`, `timer_pit.c`, `kernel/time.h`, `rtc.h`)
- *State*: `jiffies_64`, `xtime`, `wall_to_monotonic`, `jiffies_p` and `count_p`
  of `get_offset_pit`, the CMOS clock.
- *Operations*: `time_init`, the timer handler, `get_jiffies_64`,
  `get_offset_pit`, `mach_get_cmos_time`, `mktime`, `set_normalized_timespec`.
- *Hard*: two reads that are not one (a 64-bit counter, the clock's registers), a
  counter that has wrapped while its interrupt is pending.

### Locks, atomics and bit operations (`sync.h`, `atomic.h`, `bitops.h`, `log2.h`)
The byte spin lock (decremented by everyone who tries, set to 1 by the owner), and
`fls`, `ilog2`; atomic counters and bit operations that nothing calls.

### Terminal and keyboard (`tty.c`, `putchar.c`, `kbddriver.c`)
- *State*: a ring of cells, `terminal_pos_now`, `terminal_pos_base`; the memory of the
  screen.
- *Operations*: `terminal_initialize`; `terminal_putchar`, which appends and then runs
  `flush_ringbuffer_to_buffer`; `kbd_interrupt`, which prints the letter of a key.
- *Hard*: a newline jumps to the end of a row, which may be the end of the ring;
  signed positions are compared with an unsigned width.
- *Correct when*: no old text is left in the ring, the flush ends, each key prints its
  letter. That the text is then seen nobody can say: the flush does not copy it to the
  screen (section 4).

### Kernel log (`printk.c`)
- *State*: `__log_buf_`, `log_start`, `log_end`, `unknown_log_level`.
- *Operations*: `printk`, `emit_log_char`.
- *Hard*: both ends are free running counters; a line may come from several calls.
- *Correct when*: the log is the last characters written, each line starts with a level,
  and `printk` adds one only where there is none.

### Formatted output (`vsnprintf.c`, `printf.c`)
- *State*: the buffer, the position and the end of one call of `vsnprintf`; `printf` has
  it on its stack and hands it to `putchar`, a byte at a time.
- *Hard*: sign, prefix, precision and padding all count down one field; a size of 0
  and an end that wraps.
- *Correct when*: stores stay in the buffer, fields are laid out as asked for, the
  text ends and gets into the terminal's ring whole and in order.

### Strings, threads
Loops over bytes, an empty function.

## 2. Plan

Done, in this order: `Buddy` (abstract) → `BuddyProofs` → `PageAlloc` (lists,
implements `Buddy`) → `PageClients` (a client that frees) → `Irq` → `Slub` → `Tty` →
`LogText` (abstract), `Log` (implements it) → `Format` → `Cmos` → `Kmalloc` →
`BootMem` (establishes what `Buddy` assumes) → `Trap` → `Console` (composes `Format` and
`Tty`) → `Clock` (continues `Cmos`).

The proofs: `BuddyProofs`, `PageAllocProofs` (with the refinement), `IrqProofs`,
`SlubProofs` (also of `Kmalloc`), `LogProofs` (with the refinement; also of `Console` with
`Format` and `Tty`), `ClockProofs` (of `Cmos` and `Clock`), `TrapProofs`, `BootMemProofs`.

Next, most important first:

1. A slab of several pages as a client of `PageAlloc`: `kmem_getpages` stores the back
   pointer of a slab over list links that `expand` may be using. What is known of it is
   that it breaks the lists.
2. The byte spin lock of `sync.h` as a protocol of several CPUs, below the lock that
   `Irq` uses.

Bounds stay at the size of the present runs: every run below ends within two minutes.

## 3. Modules and the code

### Buddy
A block is `<<first page, order>>`. `free` is what the lists hold, `merging` the
block in the hands of `__free_pages` and `allocated` what clients got. `private` is
the field of `struct page`, with `None` for a clear `PG_private`. `Described` is where
the cleared descriptors end: on a machine with less than 896 MB the normal zone spans
frames that do not exist, and their descriptors are cleared too.

| action | code |
|---|---|
| `Reserve`, `FreePage` | one turn of the boot loop, `mm_init.c:138-148` |
| `Merge` | one turn of the `while` of `__free_pages`, `page_alloc.c:156-170` |
| `Settle` | its end, `page_alloc.c:172-176` |
| `Alloc`, `AllocFails` | `__alloc_pages` with `__rmqueue` and `expand` |

`SecondHalves` is `expand` as it is: `while (high >= low)` runs once more than the
split needs, so the second half of the block that is handed out is put on the list
below. For order 0 that is the list before the first, at the words of the zone that
precede `free_area`: `PageAlloc` keeps it as list `-1`, whose counter is
`pages_high`. `NotInZone` is `not_in_zone` as it is, with `>` where the end of the
zone needs `>=`.

### PageAlloc
The same allocator with `next` and `prev` of every node (`lru` of a page, `head` of
a list) and the four stores of `__list_add` in their order, `nr_free` and
`free_pages`. `live` keeps the order in which blocks were handed out. The set of
blocks found by walking the lists is `FreeBlocks`, and
`INSTANCE Buddy WITH free <- FreeBlocks, allocated <- ToSet(live)` is the
refinement mapping. Left out: the per-CPU lists, whose `count`, `low` and `batch` are
never set, so that they never hold a page; the choice of the zone list, which is
always the one zone.

### PageClients
`PageAlloc` with `Release`: `__free_pages` called on a block of a client, as `kfree`
and `kmem_freepages` do. The step in which an allocated block is absorbed is the last
one the module has a meaning for, and the run stops there.

### Irq
`frames` is the stack of contexts; the last one runs, and its `pc` names the point
it is at. `main` executes `Program`, the operations of `init_IRQ`, `keyboard_init`,
`time_init` and `local_irq_enable` in their order. A line is raised by `Edge`; the
controllers give the CPU the line of highest priority (`Deliver`) when its interrupt
flag is set. A request that is withdrawn reads as line 7 or 15 (`SpuriousIrq`).
`PicEnter` and `PicLeave` are `spin_lock_irqsave(&i8259A_lock)` and its unlock; what
is done under the lock is one step, because nothing else runs then. `cached` and
`imr` are separate because the code writes one half of the mask at a time.
`status = "percpu"` stands for `IRQ_PER_CPU`, which `enable_8259A_irq` sets; only a
line that was never enabled takes `desc->lock` in `__do_IRQ`, where it is never
given back. The registers of the controllers are the external part: they are modelled
from how `i8259.c` programs them (edge triggered, fully nested, specific EOI, slave
on pin 2). All pins are masked at first, the one of the slave too (`PIC_CASCADE_IR`), as
`cached_irq_mask` is 0xffff: a line of the slave is `Reachable`, and a spurious interrupt of
the slave possible, only once `enable_8259A_irq` has been called for line 2.

### Slub
One cache. A slab is a number and its objects `1 .. PerSlab` in the order of their
addresses. `link[s][o]` is the word behind object `o`. The way a call takes is one
action: an allocation from the front, the CPU's list, new pages or the node's list;
a free into the front, of the first object of a slab, or of a further one. Where the
code leaves its own memory the model stops and `fate` says how:

- `"bogus"`: an address that is no object is returned. A slab from the node's list
  goes through `list_entry(p, struct page, free_list)` (`slab.c:328`) although its
  `lru` was queued, so that `pg` is not its descriptor.
- `"astray"`: a walk over the CPU's list runs through a null pointer.
- `"starved"`: `__alloc_pages` returned -1, which nobody tests for.
- `"loop"`: an insertion never ends. `ChainsEnd` shows that this happens to no slab that
  an allocation can still reach, but only on a free into one that is out of sight.

Three details of the code matter. `*freelist == NULL` (`slab.c:294`) reads the link
of the first free object, and where there is none the word at address 0 (the first
4 MB stay mapped, so that it is the vector of the BIOS): `word0` says whether it
is zero. `c->page` is set to NULL one line before `c->page->frozen = 0`, so
that the mark of a slab is never cleared. And `inuse` is PerSlab when new_slab made the slab
and is lowered by frees but never raised by later allocations. `pobjects` is unsigned and
wraps at `Word`, below 0 too.

### Kmalloc
`InitKmemCache` and `KmallocInit` create the caches: `Cache` computes what
`kmem_cache_create` and `slub.c` store, with `Object` the distance between objects and
`LinkOffset` the place of the link. `KmallocSmall`, `KmallocPages` and `Kfree` are the
ways of a call. A cache hands out any free object of its slabs, and the page allocator
any free block: `Slub` and `Buddy` say how far they keep that promise. `word` is the
place that `cache_p` and `kmem_size` share, `kmem` the frames with `PG_KMEM`, which
nothing ever clears; `blocks` are what clients hold. `outcome` says where the code leaves its memory: `"beyond"` when the
size class is not in `kmalloc_small`, `"starved"` when `__alloc_pages` returned -1.
A page is `Pow2[PageShift]` bytes, and a pointer a smaller power of two.

### BootMem
Addresses are frame numbers. `dir` is the page directory, and `FrameOf` walks it as the
processor does, through tables that `FillTable` writes and `SetDir` puts in use.
`Scan` is a turn of `find_pfn_layout`, with the test on `addr + size` that the code has.
`ZoneSizes`, `ClearZone` and `BuildZoneLists` are `zone_sizes_init`, the first loop of
`node_alloc_mem_map` and `init_build_zonelist`; its second loop is the boot of `Buddy`,
which takes the reserved frames as given. `Physical` is a bound on memory
maps, the 64 GB that 36 address lines reach; the bytes of the descriptors wrap only beyond
it. The kernel lies in the 4 MB that `boot.S` maps: a larger one would not run.

### Trap
The CPU at the level of words. `stack` holds the words from `esp` up, `regs` the seven
general registers and `ds` and `es`; `contexts` is a history of what was interrupted,
with which the properties compare. `Enter` is a gate of the CPU (external): flags, `cs`
and `eip`, an error code for the vectors of `WithCode`, and interrupts off unless it is a
trap gate. `IrqEntry`, `CommonInterrupt`, `Stub`, `ErrorSave`, `ErrorCall`,
`RetFromException`, `RetFromIntr`, `RestoreAll`, `IgnoreInt` and `Ignored` are pieces of
`interrupt.S` and `boot.S` between which the stack is worth looking at; an interrupt
(where the flag is set) or an NMI may come between any two of them, an exception
anywhere in C. `Handler` and `Return` are a C function as the calling convention has it.
`TrapInit`, `InitIRQ` and `Enable` are the steps of `kernel_main` that change gates and
flag. `fate` is `"astray"` when `iret` has taken an error code for `eip`, and
`"shutdown"` after a double fault, whose task gate names an empty descriptor.

### Tty
`pos`, `base` and `i` are the code's positions. A cell keeps the lap of the ring in
which it was written, which is what tells new text from old.
`Put` and `Newline` are `terminal_putchar`, `Turn` and `Done` its flush, `Initialize` is
`terminal_initialize`. `LessUnsigned` is
the comparison of an `int` with a value that `VGA_WIDTH` makes unsigned. `vga` is the
memory of the screen, and `Store` the one store of the flush,
`*terminal_buffer = terminal_buffer[i]`: it reads video memory, or what lies around it, and
never the ring, and writes the first cell.

### LogText and Log
`Log` is `printk` one character at a time, with `log_start` and `log_end` as counters of
`Word` values and their low bits as index. `LogText` is what this promises, a text that
keeps its last characters; `INSTANCE LogText WITH text <- Text` is the refinement.
`mark` is a history beside the ring: which of its cells are a level of the message, which
a tag that `printk` has added, which other text, and which are unused.

### Format
A format is a sequence of directives that are already taken apart: `AnyDirective` is
what the loop over flags, width and precision makes of one, and a number is its
sign and how many digits it has. `Number` is `number()`, whose three loops that pad count
down one variable; `Store` is the guarded store; `Room` is the size that replaces one
whose end wraps; `Finish` writes the end. Addresses are `0 .. Top`, and the model takes
no output that reaches the last of them.

### Console
`Format` and an instance of `Tty` put together by their callers: `Printf` and `Sprintf`
start a call of `vsnprintf`, whose steps are those of `Format`; `Putchar` is a turn of
`print` with `putchar` and `terminal_putchar`, `Flushing` the flush it waits for,
`Return` the end of the call. `kbd_interrupt` does the same for the letter of a key,
after `local_irq_enable`; before it `main` prints alone, so that calls never interleave.
`Byte` is what `print` reads, beyond the buffer too, where a byte may be anything.
`shown` is a history: what was put out, and into which cell of the ring.

### Cmos
Time passes with every read of a register. The clock (external: `NextSecond`, the update
flag, the registers off the bus during an update) and the CPU move together; `Late`
is time the machine loses. `Rise`, `Fall`, `Read`, `Retry` and `Finish` are the two loops
of `mach_get_cmos_time`, its reads, their repetition when the seconds have changed, and
what `time_init` makes of them with `Mktime` and `Normalized`. The assumption on clocks
is what `rtc.h` says of the chip: the flag rises long enough before the update for all
registers to be read, or (an emulator) there is no update to see. The clock is BCD and
24 hours, its years end in 2037.

### Clock
`Cmos` and what follows it. `Count` is a count of the timer (external): at the end of a
tick it is loaded with `LATCH` and the request bit `due` is set, until `timer_interrupt`
counts the tick in `jiffies_64`. `get_offset_pit` is `Latch` (interrupts off, the count
is latched), `ResetLatch` (a count above `LATCH`), `Compare` (with the last count of this
jiffy) and `Overflow` (`do_timer_overflow` asks the 8259A); the timer goes on between
them. `get_jiffies_64` is `Load`, of whichever word the compiler takes first, and
`LoadRest`; ticks may come between. `Toggle` lets a caller have interrupts on or off. An interrupt waits for less
than a tick: of a longer wait the code says that it "cannot detect lost timer
interrupts" (`i386/timer.h:64`). The counter of the model counts down one by one. The chips
whose counter "does small jumps upwards" (`timer_pit.c:86-88`) are not modelled: on such a
chip a jump sends the call through the same branch as an overflow, and `OffsetForward`
says nothing about it.

## 4. Runs

Ten runs pass. `Buddy` states its type as a property of its run; in the other
modules it is a part of the inductive invariants of section 5, or the properties below fix
the shape of the state.

| run | shows | states |
|---|---|---|
| `MCBuddy` | the allocator at boot and under allocations, three zones | 2 478 |
| `MCPageAlloc` | the lists, and that they implement `Buddy` | 945 |
| `MCIrq` | boot, nested handlers, two shared registrations, a cascade that is opened late, spurious interrupts; and that every edge the controllers pass on is served | 60 185 |
| `MCTrap` | every exception, two lines and the NMI, nested three deep: frames are right and contexts come back | 293 358 |
| `MCSlub` | all sequences of allocations and frees of a cache | 4 063 570 |
| `MCKmalloc` | all sequences of `kmalloc` and `kfree` | 252 168 |
| `MCBootMem` | boot on eight machines with two kernels | 8 386 |
| `MCConsole` | formats of two directives in four buffers, texts in the terminal's ring over two laps of it, all keys | 280 051 |
| `MCLog` | all sequences of messages, with counters that wrap; the log implements `LogText` | 36 418 |
| `MCClock` | the clock read in every phase of a second that ends something, and that boot goes on; then the time within a tick, and the tick counter in halves | 714 422 |

*MCBuddy* has 22 frames in zones of 8, 9 and 7 frames with orders 0 to 3: the first
zone is a whole number of blocks, the second ends in the middle of one, and the third
spans two frames more than there are. So blocks stop growing at the order limit, at the
end of the zone, at the end of memory and at a reserved page. Thirteen layouts of kernel
and page tables are booted, one of which leaves alone the last page of a zone and the
page after it, and the allocations then run until the zone is empty.
`FreeDisjoint`, `ReservedKept`, `NoLeak` and `Coalesced` say what the free lists hold
(`Coalesced`: no two free blocks of a zone that could be merged; across the end of a zone
there are some);
`StaleOrderHarmless` why a `private` that was never cleared is not mistaken for a free
block during boot; `SameOrderDisjoint` what is left of exclusive allocation in spite of
the extra turn of `expand`: blocks of one order are disjoint (blocks of different orders
are not, as a block handed out has its second half on a list).

*MCPageAlloc* has zones of 4 and 8 frames, enough for each list to be empty, hold one
and hold two blocks, and for `__alloc_pages` to fail; eight blocks may be live.

*MCIrq* wires lines 0 and 1 and the slave's 12, each of which fires twice, so that a
second edge can come while the first is served, and one spurious interrupt on each
controller. After the boot program, two drivers share line 12, of which the first opens the
cascade after it has registered, so that edges of line 12 wait for it; and a third is refused
line 0. These drivers are no part of the repository, which has none for the slave.
`EdgesServed` is the liveness property: under weak fairness of `Cpu`, the
step of the CPU, every edge is served, on the slave as soon as the cascade is open. This
fairness says only that a CPU that can
execute an instruction does; devices and spurious interrupts have none.

*MCSlub* has two slabs of four objects: the least with which a slab waits behind the
front and three objects that are allocated anew can be freed between others, which is what
a free list needs to become a ring. The slabs are model values under a symmetry, as
nothing in the code orders them. `cpu_partial = 2` makes the second slab overflow to the
node's list, `min_partial = 0` makes empty slabs be freed; `Word` is scaled to 2^30. The cache stops when it has left
its memory, hence `CHECK_DEADLOCK FALSE`.

*MCTrap* raises every exception but the two that are not raised by code, with and without an
error code, with a stub and without one, in `kernel_main` before, between and after its
two calls, and in handlers; `MaxDepth` (3) contexts may be interrupted at a time: a
handler, a stub within it, and an NMI within that. At the bound nothing more comes in,
and after `fate` nothing runs: hence `CHECK_DEADLOCK FALSE`. The run has no fairness.

*MCConsole* takes every combination of the flags, no width, a width of 5 or an argument
of -5, and a precision of none or 3, in buffers of 0, 1 and 6 bytes and in one whose end
wraps, for `sprintf`; two directives are enough for one to begin where the other was cut
off. `sprintf` is called before anything is printed (it prints nothing). `printf` has the
directives `Printed`, letters, newlines, strings and a number of five places, of which two
make more than its buffer of six bytes. The terminal is a row of two cells and its ring
three rows; `MaxLap` is two: the ring is overwritten once. `FlushEnds` assumes weak
fairness of `Flushing`, a loop that runs on. It excludes `pos = Ring`, where the loop
does not end (see below). The run stops printing at its bound, hence
`CHECK_DEADLOCK FALSE`; likewise *MCKmalloc* after it has left its memory.

*MCLog* has a ring of eight characters under counters of 32 values, so that the
counters wrap four rings later, and messages with and without level, without a line
end, and with one in the middle.

*MCClock* has a fast clock, a slow one that the first loop does not outlast, and an
emulated one whose flag never rises. Reading starts in each phase of the second before
a century, a leap day and the day after it, and on the last second of the 28th and the
last day of every month of six years. `MaxSeconds` (6) is where the clock of the model
stands; no behaviour of the code gets there, so it cuts nothing off. `BootGoesOn`
assumes weak fairness of `Cpu`: the CPU executes its next read. The ticks are followed
after one of these readings (`Followed`), as they depend on none of it: `LATCH` is six
counts, `MaxTicks` four ticks, in the middle of which the low word of `jiffies_64`
carries.

*MCKmalloc* has pages of 16 bytes, links of two, four pages and three live blocks: the
requests go to two size classes, to none, and to blocks of one, two and three pages, of
which the last takes all memory. The descriptors of caches have their real sizes.

*MCBootMem* uses the frame counts of real machines from 64 MB to 6 GB, among them one
with exactly 896 MB and one with a page more; only `Word` is scaled, to 2^30, as TLC's
integers have 32 bits. `ZonesFitBuddy` is the assumption that `Buddy` makes of its zones.

### Where code and comment disagree

| run | comment | code |
|---|---|---|
| `MCPageClients_free` | "buddy not in buddy" ends the merge (`page_alloc.c:162`) | after boot an allocated block passes `page_is_buddy` and is absorbed |
| `MCIrq_spurious_twice` | a spurious interrupt "does not cause problems" (`i8259.c:171`) | the second one on a line spins on the lock the first kept |

### What else the models show

These are in the models as the code has them, and the properties are stated around them.

- *Boot.* The first frame of the page tables is not reserved (`>` for `>=`,
  `mm_init.c:141`), nor is the frame in which the kernel ends (`mm_init.c:111` rounds
  down), of both of which the comment "reversed page: kernel data &kernel code & < 1M" is
  untrue. No property says which frames are reserved: the bounds are computed and tested in
  one step, and a property could only repeat the test. An available entry that begins where the last one ended is skipped
  (`mm.c:31` tests `addr + size`): the part `TopFound` of `ZonesFitBuddy` asks for a gap. `__GFP_HIGH` is no bit of
  the index of a zone list, so that the high zone is in no list: this is what keeps
  `Addressable`. Below 896 MB, descriptors are cleared beyond `max_pfn` and lie in
  frames that are freed later.
- *Interrupts.* Nothing calls `enable_8259A_irq(2)`, so that the cascade stays masked from
  `cached_irq_mask = 0xffff` on (`i8259.c:22`): a driver that registers for a line of the
  slave and does not open it never gets an interrupt.
- *Pages.* `not_in_zone` accepts the page one past the zone: a descriptor after the last
  one that reads as a free block would be absorbed (constant `Junk`; the runs and the
  proofs take a descriptor that does not). `kmem_getpages` stores the back
  pointer of a slab's second page over its list links (`slab.c:126`), although `expand`
  has just put that page on a list: "struct list_head when page is free", "page in slub :
  the next pointer" (`mm.h:131`), and it is both. `PageAlloc` has no such client.
- *Slabs.* The last object of every slab is lost (`slab.c:297`). A slab without objects
  stays at the front (`slab.c:315`). A stale `inuse` sends the search through a null
  pointer (`slab.c:423`); as it is lowered and never raised it wraps below 0 to 32767.
  A slab that reaches the node's list can only come back as `"bogus"`. "slab already in
  cpu slab or node slab" (`slab.c:404`) is untrue of a slab that has left the front with
  its last object: it is on no list, and its `free_list`, which nobody clears, has objects
  that were handed out since. With four objects in a slab, as the class of 512 bytes has:
  allocate three and free the third, the second and the
  first; allocate two, the third and the first; free the first, then the third. The last
  free finds a list that is a ring and never ends. `ChainsEnd` has this as its only
  exception.
- *kmalloc.* A size of 2048 to 4095 reads past `kmalloc_small`. `kfree` of three pages
  gives back three of the four that were taken, and of an object in a page with an old
  `PG_KMEM` none.
- *Traps.* An exception with an error code before `trap_init`, as a page fault in all of
  `setup_arch`, ends with an `iret` to the error code (`boot.S:132`): `NeverAstray` allows
  it there and nowhere else. The handler of a fault changes nothing, so that the instruction
  faults again.
- *Time.* Within a jiffy `get_offset_pit` runs forward; from one jiffy to the next it
  need not, as the first call in a jiffy does not ask whether a tick is due
  (`timer_pit.c:91`, `else`). `get_jiffies_64` reads two words without a lock: while the
  low one carries, 300 seconds after boot, it may be off by 2^32: `JiffiesWhole` allows
  that and nothing else.
- *Output.* The only store of the flush copies cells of video memory, or of what lies
  around it, onto the first cell of the screen (`tty.c:30-32`): nothing that is printed
  is ever shown. A newline may leave the position at `RING_SIZE`, and then the flush never
  ends. `printf` prints as many characters as `vsnprintf` returns, also beyond its
  buffer of 2024 bytes: `TextInRing` says what is put out then.

## 5. Proofs

All theorems hold for every value of the constants that satisfies the assumptions of the
modules, and each safety theorem has the same three parts: the initial states satisfy an
inductive invariant, every step preserves it (one lemma for each action), and it implies
the property. Every inductive invariant was checked by TLC before it was proved.
Together they are every invariant and every action property of the passing runs; the rest is
liveness.

| module | theorems | hypotheses beyond the modules' assumptions |
|---|---|---|
| `BuddyProofs` | `TypeOK`, `FreeDisjoint`, `ReservedKept`, `SameOrderDisjoint`, `StaleOrderHarmless`, `NoLeak`, `Coalesced` | `ZeroedJunk` |
| `PageAllocProofs` | `ListsSound`, `ImplementsBuddy` | `P!ZeroedJunk`, the same of `PageAlloc` |
| `IrqProofs` | `NoReentry`, `EoiPaired`, `NeverNull`, `NoSelfDeadlock` | `SpuriousOnce`, for the last one only |
| `TrapProofs` | `NeverAstray`, `FrameIsPtRegs`, `ContextRestored` | none |
| `SlubProofs` | `FreeNotLive`, `SlabOnce`, `ChainsEnd`; `Exclusive`, `KfreeOwn` of `Kmalloc` | none |
| `BootMemProofs` | `MapKept`, `ZonesFitBuddy`, `Addressable` | none |
| `LogProofs` | `LinesTagged`, `KeepsLast`; `RingInOrder`, `Terminated`, `TextInRing`, `NumberField`, `KeyPrintsItsLetter` of `Console` | none |
| `ClockProofs` | `JiffiesWhole`, `OffsetForward`; `ReadOnBus`, `MonotonicAtZero`, `TimeRight` of `Cmos` | `ShortRun`, for the first two; `rtc \in Date`, for the last |

`SlubProofs` extends both `Slub` and `Kmalloc`, and `LogProofs` both `Log` and `Console`; no lemma
speaks of both parts.

### What is assumed

- *Zones* (`SizeAssumption`, `ZoneAssumption` of `Buddy`): sizes double from order to order,
  zones are disjoint intervals, and each that has a frame ends where descriptors are
  cleared. `ZonesFit` of `BootMemProofs` shows that boot leaves them so.
- *Memory map* (`BootMemAssumption`): an available entry ends where it begins or above, below
  64 GB, and its `addr + 20` is not below its `addr`; the entries may be in any order and of
  any number, and the word is larger than the bytes of all descriptors.
- `ZeroedJunk`: the word after the last descriptor is not the order of a free block. It is
  memory that nobody has written; without it `ReservedKept` fails, as said above.
- *Boot program* (`BootAssumption` of `Irq`): only lines of devices, and the cascade, are
  enabled or given an action, and a line of a device that is enabled has its action before
  `sti` or before it is enabled. The order of the calls in `kernel_main` is like this;
  `init_IRQ` enables lines 0 and 1 before they have an action, with interrupts off.
- `SpuriousOnce`: no line is spurious twice. `MCIrq_spurious_twice` shows that the second
  time spins.
- *Slabs*: fewer than 2^15 objects, as `inuse` has 15 bits and a page 4096 bytes.
- *Log*: the ring is no shorter than four characters and its counters hold more than
  `BufLen + 4` values, a multiple of `BufLen`; the code has 2^32 and a power of two.
- *kmalloc* (`KmallocAssumption`): a page is a power of two and a pointer a smaller one. The sizes of the
  descriptors and of requests may be any numbers.
- *Formatted output* (`FormatAssumption`): a format is a sequence of what `AnyDirective` has, which is everything
  that the code tells apart; the buffer is not at address 0, and no output reaches the last
  address.
- *Terminal* (`ConsoleAssumption`): the ring is of whole rows and larger than the screen, as `tty.c` has it.
- *CMOS clock*: the lead of its update flag leaves time for all reads and for what the
  machine loses, as `rtc.h` says of the chip; and the loops are long enough for it. When the
  reading ends the date is one of `Date`: its years end with 2037, as the seconds since 1970
  outgrow a `long` in the next.
- `ShortRun`: the run is shorter than 2^32 ticks, at 1000 Hz 49 days. After
  that two jiffies have the same number in `jiffies_p`.

### The arguments

*Buddy.* None of the properties is inductive alone. A `Merge` removes `<<buddy, k>>` from
`free` only if the buddy is there; that it is follows from `private[buddy] = k` by
`StaleOrderHarmless`: either the buddy is on its list, or it lies in one block with the
page being freed, which is impossible as blocks are disjoint (`MergeFindsBuddy`). That the
buddy is in the same zone although `not_in_zone` accepts one page more follows from the
order of the boot loop: the block being freed holds the newest page, the page one past its
zone comes later and its `private` is still clear (`Progress`). With these, `IInv` is
preserved by every action. `AllocStep` uses that the second halves of a split are disjoint
(`HalfFacts`), and that the block is taken from the least order in use, so that no block
already handed out is of the order of a free one that contains it; that there is a least
order is ordinary induction over the orders, which the lemma `Least` has. `NoLeak` adds that
every block starts at a multiple of its size; `Coalesced` adds `Marked` and `NoBuddies`,
that during boot every free block is marked with its order, so that a merge cannot
overlook it.

*PageAlloc.* The invariant is that of `Buddy` under the refinement mapping and `FreeLists`:
for every list there is a sequence of nodes through which `next` and `prev` lead both ways,
from the head to the head, and the blocks of `FreeBlocks` are what it passes; no page is on
two lists. Lemmas say what the stores of `__list_add` and `__list_del` make of one ring, and
that the other rings keep their words (`FamilyStores`). `Counts` ties `nr_free` to the rings,
and `SpareEntry` keeps apart the list -1, which has a node of a block that was handed out and
whose words nobody else reads. `expand` is followed turn by turn. With this, every step of
the lists is a step of `Buddy` on `FreeBlocks` or a stutter.

*Irq.* `Stack` says that only the context on top can be where interrupts are off, and
`Served` and `Masks` that a context between its acknowledgement and its end keeps its line
masked, in `cached` as in the controllers: so a line that comes is a line of which nobody
below is being served (`NoReentry`). `InService` says that only the context on top owes an
EOI, and to which controllers. `Registered` follows the boot program: what has been set up
has an action, and what is unmasked before that cannot come before `sti`. `Once` is about
the lock that `__do_IRQ` keeps: it is the lock of a spurious line that has come already.

*Trap.* `Chain` goes down the stack of contexts: at every place of every stub and handler
(`Good`) it says which words lie where on the stack, down to those that the CPU pushed for
the context below, which is itself at a place where the same holds of the one below it, and
at the bottom is `kernel_main` with an empty stack. Every instruction pushes and pops words
above those (`Above`), so that a step of the context on top never disturbs the others;
`TablesAgree` is what the tables of the CPU, the stubs and `traps.c` have to agree on. An error
code under a frame that nobody takes down is possible as long as the gates are those of
`setup_ign_idt`, and then `kernel_main` has not taken its first step: where control is lost.

*BootMem.* `Scanned` says what `max_pfn` is after each entry: where the entries are in order
and apart, the maximum so far is 0 or lies below the next one, so that the test on
`addr + size` passes. `Paging` says how far the directory is replaced, and with the old
tables of `boot.S` and the new ones (`OldTables`, `NewTable`) every address has the same frame
before and after its entry is set. `Laid` lays the zones end to end; modulo the word the three
sizes add up to `max_pfn`, whether or not the last has wrapped (`ModAdd`).

*Slub.* `Sound` says that the free lists of the slab at the front and of every slab that waits
end and have no object that a client holds, that a waiting slab counts no fewer objects in use
than there are, and that a slab is in one place. A slab out of sight is the difficult one, as its descriptor is stale: all
that holds is that it is frozen and, as long as nothing was freed into it, counts all its
objects, and this is enough, because a free that puts it back in sight overwrites the rest
or leaves the cache `"bogus"`, `"astray"` or in the `"loop"`.

*Kmalloc.* `CachesMade` says that the class for `2^c` bytes has its link behind the object and
its objects twice that far apart, once it is made, and that nothing is in use before the last
class is. `ObjectKept` and `PagesKept` tie a block in use to its pages: an object lies in a page
with `PG_slab` whose word is the pointer to its cache, a block of pages starts at one with
`PG_KMEM` whose word is its number of pages, and these are neither free nor of a slab. So the
two readings of the word never mix for a block that somebody holds, whatever old `PG_KMEM`
says of others. `Apart` says that two blocks have different pages or are objects with
different numbers; that their bytes are then disjoint is arithmetic of powers of two.

*Log.* The text that the ring holds is what is between the two counters modulo `Word`
(`Held`). A turn of `printk` first appends one or four characters and then drops what no
longer fits; that a text with its marks has the tags it should (`Lines`) survives the first
(`LinesAppend`) because of `Due`, which ties the last characters of the text to those that
are still to come, and the second (`LinesTrim`) because a text that has lost its beginning
has no first line of which anything is said. Which text has not is told by the history:
while there is an unused cell, nothing was overwritten (`Unused`).

*Console.* `ScreenKept` is inductive because the index of the flush is never the end of the
ring: where a newline leaves the position there, the flush does not end, and nothing more is
written. Of the screen it says that its other cells are as `terminal_initialize` has left
them, since the flush stores into the first only. `BufferKept`
compares the memory with `All(format)`, what the directives met so far make without a limit:
while `vsnprintf` runs, the part of it that the size has room for is stored, and at the end a
NUL behind it. `ShownKept` follows `print` over this memory: each byte put out is the byte
that it reads, and `Leaves` says where the cursor is after it. `NumberIs` is what each of the
three loops of `number()` has left of the field, from which `NumberField` follows for all flags.

*Clock.* `V` is the count as if the timer went on below zero instead of being loaded
again: it only falls within a jiffy. `Latched` and `Known` bound with it what `get_offset_pit`
has latched and what it remembers; `Forward` is then a fact about each single step. `Loading`
says which value `get_jiffies_64` has a half of. For `Cmos`, `InTime` counts the time left
before the registers go off the bus against the reads that are left. `TimeRight` needs how
many seconds have ended since the seconds were read (`Ended`): `n` of them take `n` times the
reads of a second, which is more than have been made unless `n` is below 60, and the seconds have
moved by `n` modulo 60. So if they read the same again, none has ended, and the registers in between are of
one date. What `mktime` makes of it is the calendar's count of days because both have the same
closed form (`YearStartIs`, `MonthStartIs`, `MktimeIs`).

*Induction over data.* The library's induction theorems take an operator as a parameter, which
the provers here cannot instantiate. Where a recursive function has to be known for every
argument (powers of two, the days before a year, the text of a format), the proofs
take the least argument at which it would be wrong: the lemma `Least` finds it, from the
library's theorem that strict inclusion is well-founded on finite sets.

### Only model-checked

Liveness: `EdgesServed`, `FlushEnds` and `BootGoesOn` rest on fairness, and so on ENABLED,
of which the prover knows nothing. They hold in the instances of the runs.

## 6. Not modelled

String functions and threads keep no state that a property would be about.
`disable_8259A_irq`, `monotonic_clock`, the atomic counters and the bit
operations are called by nothing, and nothing is promised of them. The per-CPU lists of
pages are never filled. Of a slab, the pages of the caches for descriptors are left out;
of traps, what `do_trap` stores through `current` (a word at the bottom of the stack that
nothing sets) and the `siginfo` that nobody reads; of the terminal, colours; of formatted
output, the reading of the format string and the digits of a number;
of time, the delay loops. The byte of a spin lock is a lock: on one CPU nobody races for
it.
