------------------------------- MODULE Clock -------------------------------
(* What follows time_init: the ticks of the timer, which timer_interrupt     *)
(* counts, and get_offset_pit, which reads how much of a tick has passed and *)
(* may find that the next one is due but not counted yet; get_jiffies_64,    *)
(* which loads the two words of the counter one after the other.             *)
EXTENDS Cmos

CONSTANTS
  LATCH,     \* what the counter of the timer is loaded with
  TICK_SIZE, \* microseconds of a tick
  Word,      \* what an unsigned long counts to
  Early,     \* INITIAL_JIFFIES is Word - Early
  Lap,       \* jiffies from one value of last to the next
  MaxTicks,  \* bound: ticks that are counted
  Followed   \* bound: dates of time_init after which the ticks are followed

ASSUME ClockAssumption ==
  /\ LATCH \in Nat \ {0, 1} /\ TICK_SIZE \in Nat \ {0} /\ Word \in Nat /\ Early \in 1 .. Word
  /\ Lap \in Nat /\ MaxTicks \in Nat /\ Followed \subseteq Date

VARIABLES
  jiffies_64, last,
  counter,   \* of channel 0 of the timer
  due,       \* bit 0 of the interrupt request register
  iflag, flags,  \* of the CPU, and what spin_lock_irqsave has saved
  at,        \* "boot", "idle", or where in one of the two functions
  count, count_p, jiffies_p,
  offset,    \* history: what get_offset_pit has returned last, in which jiffy
  half,      \* the word that get_jiffies_64 has loaded
  since      \* history: jiffies_64 at that time

pit      == <<counter, due>>
saved    == <<count_p, jiffies_p>>
load     == <<half, since>>
ticks    == <<jiffies_64, last, pit, iflag, flags, at, count, saved, offset, load>>
allVars  == <<vars, ticks>>

None  == [jiffy |-> -1, value |-> 0]
Reset == [jiffy |-> -2, value |-> 0]   \* no value: the counter is loaded anew

-----------------------------------------------------------------------------
Reload == counter = 1
(* One count.  Bound: an interrupt waits for less than a tick.               *)
Count ==
  /\ at # "boot" /\ ~(due /\ Reload)
  /\ counter' = IF Reload THEN LATCH ELSE counter - 1
  /\ due' = (due \/ Reload)
  /\ UNCHANGED <<vars, jiffies_64, last, iflag, flags, at, count, saved, offset, load>>

(* Mutant of timer_interrupt: the carry into the high word is lost.          *)
TickLow ==
  /\ iflag /\ due /\ jiffies_64 < Word - Early + MaxTicks
  /\ due' = FALSE
  /\ jiffies_64' = (jiffies_64 \div Word) * Word + ((jiffies_64 + 1) % Word)
  /\ last' = IF jiffies_64' - last >= Lap THEN jiffies_64' ELSE last
  /\ UNCHANGED <<vars, counter, iflag, flags, at, count, saved, offset, load>>
(* timer_interrupt, whose mark_offset does nothing, and do_timer.            *)
timer_interrupt ==
  /\ iflag /\ due /\ jiffies_64 < Word - Early + MaxTicks
  /\ due' = FALSE
  /\ jiffies_64' = jiffies_64 + 1
  /\ last' = IF jiffies_64' - last >= Lap THEN jiffies_64' ELSE last
  /\ UNCHANGED <<vars, counter, iflag, flags, at, count, saved, offset, load>>

(* kernel_main, long after setup_pit_timer.                                  *)
local_irq_enable ==
  /\ at = "boot" /\ pc = "done" /\ rtc \in Followed
  /\ at' = "idle" /\ iflag' = TRUE
  /\ counter' \in 1 .. LATCH /\ due' = TRUE
  /\ UNCHANGED <<vars, jiffies_64, last, flags, count, saved, offset, load>>

(* A caller turns interrupts off or on.                                      *)
Toggle ==
  /\ at = "idle" /\ iflag' = ~iflag
  /\ UNCHANGED <<vars, jiffies_64, last, pit, flags, at, count, saved, offset, load>>

-----------------------------------------------------------------------------
(* get_offset_pit.                                                           *)
Latch ==
  /\ at = "idle" /\ at' = "latched"
  /\ flags' = iflag /\ iflag' = FALSE
  /\ count' = counter
  /\ UNCHANGED <<vars, jiffies_64, last, pit, saved, offset, load>>

(* A chip whose counter is off gets it loaded anew.                          *)
ResetLatch ==
  /\ at = "latched" /\ at' = "reset"
  /\ counter' = LATCH
  /\ count' = LATCH - 1
  /\ offset' = Reset
  /\ UNCHANGED <<vars, jiffies_64, last, due, iflag, flags, saved, load>>

(* Division of C, which is towards zero.                                     *)
Quotient(a, b) == IF a < 0 THEN -((-a) \div b) ELSE a \div b
Micros(c) == Quotient((LATCH - 1 - c) * TICK_SIZE + LATCH \div 2, LATCH)

Leave(c) ==
  /\ offset' = IF offset = Reset THEN None ELSE [jiffy |-> jiffies_64, value |-> Micros(c)]
  /\ iflag' = flags /\ at' = "idle" /\ count' = 0

Jiffies == jiffies_64 % Word
Compare ==
  /\ at \in {"latched", "reset"}
  /\ IF Jiffies = jiffies_p /\ count > count_p
     THEN at' = "overflow" /\ UNCHANGED <<iflag, count, saved, offset>>
     ELSE jiffies_p' = Jiffies /\ count_p' = count /\ Leave(count)
  /\ UNCHANGED <<vars, jiffies_64, last, pit, flags, load>>

(* Mutant: count_p gets the count as it was read.                            *)
OverflowRaw ==
  /\ at = "overflow"
  /\ LET c == IF due THEN count - LATCH ELSE count IN count_p' = count /\ Leave(c)
  /\ UNCHANGED <<vars, jiffies_64, last, pit, flags, jiffies_p, load>>
(* do_timer_overflow asks the 8259A whether a tick is due.                   *)
Overflow ==
  /\ at = "overflow"
  /\ LET c == IF due THEN count - LATCH ELSE count IN count_p' = c /\ Leave(c)
  /\ UNCHANGED <<vars, jiffies_64, last, pit, flags, jiffies_p, load>>

-----------------------------------------------------------------------------
(* get_jiffies_64: the compiler may load either word first.                  *)
Load(first) ==
  /\ at = "idle" /\ at' = first
  /\ half' = IF first = "low" THEN jiffies_64 % Word ELSE jiffies_64 \div Word
  /\ since' = jiffies_64
  /\ UNCHANGED <<vars, jiffies_64, last, pit, iflag, flags, count, saved, offset>>

(* What it returns if it loads the other word now.                           *)
Returned == IF at = "low" THEN (jiffies_64 \div Word) * Word + half
            ELSE half * Word + (jiffies_64 % Word)
LoadRest ==
  /\ at \in {"low", "high"} /\ at' = "idle"
  /\ half' = 0 /\ since' = 0
  /\ UNCHANGED <<vars, jiffies_64, last, pit, iflag, flags, count, saved, offset>>

-----------------------------------------------------------------------------
ClockInit ==
  /\ Init
  /\ jiffies_64 = Word - Early /\ last = 0
  /\ counter = LATCH /\ due = FALSE
  /\ iflag = FALSE /\ flags = FALSE /\ at = "boot"
  /\ count = 0 /\ count_p = 0 /\ jiffies_p = 0
  /\ offset = None
  /\ half = 0 /\ since = 0

(* time_init; select_timer ends with init_pit, which sets count_p.           *)
Boot ==
  /\ at = "boot" /\ Next
  /\ count_p' = IF pc' = "done" THEN LATCH ELSE 0
  /\ UNCHANGED <<jiffies_64, last, pit, iflag, flags, at, count, jiffies_p, offset, load>>
ClockNext == \/ Boot \/ local_irq_enable \/ Count \/ timer_interrupt \/ Toggle
             \/ Latch \/ ResetLatch \/ Compare \/ Overflow
             \/ Load("low") \/ Load("high") \/ LoadRest
(* The CPU executes the next read; nobody has to ask for the time.           *)
ClockSpec == ClockInit /\ [][ClockNext]_allVars /\ WF_vars(Boot /\ Cpu)

-----------------------------------------------------------------------------
(* Within a jiffy the time that get_offset_pit gives never runs backwards:   *)
(* not when the counter wraps while interrupts are off, nor when it wraps    *)
(* between the latch and the look at the 8259A, however often it is called.  *)
(* (Of a counter that had to be loaded anew the value is not looked at.)     *)
OffsetForward ==
  [][offset.jiffy = offset'.jiffy => offset'.value >= offset.value]_allVars

(* The value of get_jiffies_64 is one the counter had during the call.  Only *)
(* if its low word has carried between the loads, as it does 300 seconds     *)
(* after boot, the value is off, by as much as a word counts to.             *)
JiffiesWhole ==
  at \in {"low", "high"} =>
    \/ Returned \in since .. jiffies_64
    \/ /\ since \div Word < jiffies_64 \div Word
       /\ Returned \in {since + Word, jiffies_64 - Word}
=============================================================================
