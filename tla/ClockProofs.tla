---------------------------- MODULE ClockProofs -----------------------------
(* The clock: boot reads its registers only where they are on the bus, what  *)
(* it makes of them is the time of day, the monotonic time starts at zero,   *)
(* the time within a jiffy never runs backwards, and the 64-bit counter is   *)
(* off by a carry at most.  For every clock chip, every rate of the timer    *)
(* and every width of a word.                                                *)
EXTENDS Clock, FiniteSetTheorems, TLAPS

-----------------------------------------------------------------------------
(* Division.                                                                 *)
LEMMA DivIs ==
  ASSUME NEW a \in Int, NEW n \in Nat \ {0}
  PROVE  /\ a \div n \in Int /\ (a % n) \in 0 .. n - 1
         /\ a = (a \div n) * n + (a % n)
OBVIOUS

LEMMA DivMonotonic ==
  ASSUME NEW a \in Int, NEW b \in Int, NEW n \in Nat \ {0}, a <= b
  PROVE  a \div n <= b \div n
<1> DEFINE p == a \div n  q == b \div n  r == a % n  s == b % n
<1>1. /\ p \in Int /\ q \in Int /\ r \in 0 .. n - 1 /\ s \in 0 .. n - 1
      /\ a = p * n + r /\ b = q * n + s
  BY DivIs
<1> HIDE DEF p, q, r, s
<1>2. (p - q) * n <= s - r /\ s - r < n /\ p - q \in Int
  BY <1>1
<1>3. p - q >= 1 => (p - q) * n >= n
  BY <1>2
<1>4. p <= q
  BY <1>1, <1>2, <1>3
<1> QED
  BY <1>4 DEF p, q

LEMMA QuotientMonotonic ==
  ASSUME NEW a \in Int, NEW b \in Int, NEW n \in Nat \ {0}, a <= b
  PROVE  Quotient(a, n) \in Int /\ Quotient(a, n) <= Quotient(b, n)
<1>1. /\ a \div n \in Int /\ b \div n \in Int /\ (-a) \div n \in Int /\ (-b) \div n \in Int
  BY DivIs
<1>2. a >= 0 => a \div n <= b \div n
  BY DivMonotonic
<1>3. b < 0 => (-b) \div n <= (-a) \div n
  <2>1. -b <= -a
    OBVIOUS
  <2> QED
    BY <2>1, DivMonotonic
<1>4. a < 0 => 0 \div n <= (-a) \div n
  BY DivMonotonic
<1>5. b >= 0 => 0 \div n <= b \div n
  BY DivMonotonic
<1>6. 0 \div n = 0
  OBVIOUS
<1> QED
  BY <1>1, <1>2, <1>3, <1>4, <1>5, <1>6 DEF Quotient

(* Fewer counts left are more microseconds gone.                             *)
LEMMA MicrosMonotonic ==
  ASSUME NEW c \in Int, NEW d \in Int, c <= d
  PROVE  Micros(c) \in Int /\ Micros(d) \in Int /\ Micros(c) >= Micros(d)
<1>1. LATCH \in Nat \ {0} /\ TICK_SIZE \in Nat
  BY ClockAssumption
<1> DEFINE a == (LATCH - 1 - c) * TICK_SIZE + LATCH \div 2
           b == (LATCH - 1 - d) * TICK_SIZE + LATCH \div 2
<1>2. a \in Int /\ b \in Int
  BY <1>1
<1>3. b <= a
  <2>1. (d - c) * TICK_SIZE >= 0
    BY <1>1
  <2>2. LATCH \div 2 \in Int
    BY <1>1
  <2> QED
    BY <1>1, <2>1, <2>2
<1>4. Micros(c) = Quotient(a, LATCH) /\ Micros(d) = Quotient(b, LATCH)
  BY DEF Micros
<1> HIDE DEF a, b
<1> QED
  BY <1>1, <1>2, <1>3, <1>4, QuotientMonotonic

-----------------------------------------------------------------------------
(* Within a jiffy the time of get_offset_pit does not run backwards.  With   *)
(* the tick that is due but not counted yet, the counter has come down to V. *)
V == IF due THEN counter - LATCH ELSE counter

InCall == {"latched", "reset", "overflow"}

Numbers ==
  /\ jiffies_64 \in Word - Early .. Word - Early + MaxTicks
  /\ counter \in 1 .. LATCH
  /\ count \in 0 .. LATCH /\ count_p \in Int /\ jiffies_p \in Int
Bits ==
  /\ due \in BOOLEAN /\ iflag \in BOOLEAN /\ flags \in BOOLEAN
  /\ at \in {"boot", "idle", "low", "high"} \cup InCall
  /\ offset \in [jiffy : Int, value : Int]
TicksOK == Numbers /\ Bits

(* Before kernel_main enables interrupts.                                    *)
Booting ==
  at = "boot" =>
    /\ ~iflag /\ ~due /\ counter = LATCH /\ jiffies_p = 0
    /\ offset = None
    /\ pc = "done" => count_p = LATCH

(* jiffies_p is what a jiffy since boot has left there, or nothing yet.      *)
Remembers ==
  at # "boot" =>
    \/ \E j \in Word - Early .. jiffies_64 : jiffies_p = j % Word
    \/ count_p = LATCH

(* The offset belongs to a jiffy of the past or to this one; to this one     *)
(* with the count that is kept, from which the counter has gone on.          *)
Current == offset.jiffy = jiffies_64
Known ==
  /\ offset \in {None, Reset} \/ offset.jiffy \in 0 .. jiffies_64
  /\ Current => /\ jiffies_p = Jiffies
                /\ offset.value = Micros(count_p)
                /\ V <= count_p

(* A count that is kept for this jiffy is one that the counter has passed,   *)
(* or the one that a counter leaves which has been loaded anew.              *)
Passed ==
  at # "boot" /\ offset # Reset /\ jiffies_p = Jiffies =>
    V <= count_p \/ count_p >= LATCH - 1 \/ (count_p = -1 /\ due)

(* The count that get_offset_pit has latched: of a tick that was due, or of  *)
(* one that was not, which is not beyond the count that is kept.             *)
WasDue == due /\ V <= count - LATCH /\ (Current => count - LATCH <= count_p)
Latched ==
  /\ at \in InCall => ~iflag
  /\ offset = Reset => at \in {"reset", "overflow"}
  /\ at = "latched" => count \in 1 .. LATCH
  /\ at = "latched" => WasDue \/
       /\ V <= count
       /\ Current => count <= count_p
       /\ jiffies_p = Jiffies => count <= count_p \/ count = LATCH
  /\ at = "reset" => offset = Reset /\ count = LATCH - 1
  /\ at = "overflow" =>
       /\ jiffies_p = Jiffies /\ count > count_p
       /\ IF offset = Reset THEN count = LATCH - 1
          ELSE WasDue \/ (count = LATCH /\ ~Current)

TickInv == TicksOK /\ Booting /\ Remembers /\ Known /\ Passed /\ Latched

Forward == offset.jiffy = offset'.jiffy => offset'.value >= offset.value

(* The ticks that are counted do not go once around the low word: no jiffy   *)
(* of the run is taken for another one.                                      *)
ShortRun == MaxTicks < Word

LEMMA Sizes ==
  /\ LATCH \in Nat \ {0, 1} /\ TICK_SIZE \in Nat \ {0} /\ Word \in Nat \ {0}
  /\ Early \in 1 .. Word /\ MaxTicks \in Nat /\ Word - Early \in Nat
BY ClockAssumption

LEMMA JiffyOther ==
  ASSUME ShortRun, NEW j \in Int, NEW k \in Int, j < k,
         Word - Early <= j, k <= Word - Early + MaxTicks
  PROVE  j % Word # k % Word
<1> USE Sizes
<1>1. /\ j \div Word \in Int /\ k \div Word \in Int
      /\ j = (j \div Word) * Word + (j % Word)
      /\ k = (k \div Word) * Word + (k % Word)
      /\ j % Word \in 0 .. Word - 1
  BY DivIs
<1> DEFINE p == j \div Word  q == k \div Word  r == j % Word  s == k % Word
<1> SUFFICES ASSUME r = s  PROVE FALSE
  OBVIOUS
<1>2. p \in Int /\ q \in Int /\ r \in Int /\ j = p * Word + r /\ k = q * Word + r
  BY <1>1
<1> HIDE DEF p, q, r, s
<1>3. (q - p) * Word = k - j /\ q - p \in Int
  BY <1>2
<1>4. k - j < Word
  BY DEF ShortRun
<1>5. q - p >= 1 => (q - p) * Word >= Word
  BY <1>3
<1>6. q - p <= 0 => (q - p) * Word <= 0
  BY <1>3
<1> QED
  BY <1>3, <1>4, <1>5, <1>6

LEMMA JiffiesType ==
  ASSUME TicksOK  PROVE Jiffies \in Int /\ Jiffies = jiffies_64 % Word
BY Sizes DEF TicksOK, Numbers, Bits, Jiffies

LEMMA TickStart ==
  ASSUME ClockInit  PROVE TickInv
<1> USE Sizes
<1>1. TicksOK
  <2>1. Numbers
    BY DEF ClockInit, Numbers
  <2>2. None \in [jiffy : Int, value : Int]
    BY DEF None
  <2>3. Bits
    BY <2>2 DEF ClockInit, Bits
  <2> QED
    BY <2>1, <2>3 DEF TicksOK
<1>2. pc # "done"
  BY DEF ClockInit, Init
<1>3. ~Current
  BY DEF ClockInit, Current, None
<1> QED
  BY <1>1, <1>2, <1>3
     DEF ClockInit, TickInv, Booting, Remembers, Known, Passed, Latched, InCall, None, Reset

(* What no tick changes: the time, interrupts, the counter, a call.          *)
LEMMA TickStays ==
  ASSUME TickInv, UNCHANGED <<jiffies_64, counter, due, iflag, flags, count, count_p, jiffies_p, offset>>,
         at' = at \/ (at = "idle" /\ at' \in {"low", "high"}) \/ (at \in {"low", "high"} /\ at' = "idle"),
         at = "boot" => pc' = pc
  PROVE  TickInv' /\ Forward
<1>1. Jiffies' = Jiffies /\ V' = V /\ Current' = Current
  BY DEF Jiffies, V, Current
<1>2. WasDue' = WasDue
  BY <1>1 DEF WasDue
<1>3. TicksOK' /\ Booting' /\ Remembers'
  BY DEF TickInv, TicksOK, Numbers, Bits, Booting, Remembers, InCall
<1>4. Known' /\ Passed'
  BY <1>1 DEF TickInv, Known, Passed, Micros, Quotient
<1>5. Latched'
  BY <1>1, <1>2 DEF TickInv, Latched, InCall
<1>6. Forward
  BY DEF Forward, TickInv, TicksOK, Bits
<1> QED
  BY <1>3, <1>4, <1>5, <1>6 DEF TickInv

LEMMA BootStep ==
  ASSUME TickInv, Boot  PROVE TickInv' /\ Forward
<1> USE Sizes
<1>1. /\ at = "boot" /\ at' = "boot"
      /\ UNCHANGED <<jiffies_64, counter, due, iflag, flags, count, jiffies_p, offset>>
      /\ count_p' = IF pc' = "done" THEN LATCH ELSE 0
  BY DEF Boot, pit
<1>2. offset = None
  BY <1>1 DEF TickInv, Booting
<1>3. ~Current /\ ~Current'
  BY <1>1, <1>2 DEF TickInv, TicksOK, Numbers, Bits, Current, None
<1>4. TicksOK' /\ Booting' /\ Remembers' /\ Passed' /\ Latched'
  BY <1>1, <1>2 DEF TickInv, TicksOK, Numbers, Bits, Booting, Remembers, Passed, Latched, InCall
<1>5. Known'
  BY <1>1, <1>2, <1>3 DEF Known
<1>6. Forward
  BY <1>1 DEF Forward, TickInv, TicksOK, Bits
<1> QED
  BY <1>4, <1>5, <1>6 DEF TickInv

LEMMA EnableStep ==
  ASSUME TickInv, local_irq_enable  PROVE TickInv' /\ Forward
<1> USE Sizes
<1>1. /\ at = "boot" /\ at' = "idle" /\ pc = "done"
      /\ UNCHANGED <<jiffies_64, flags, count, count_p, jiffies_p, offset>>
      /\ iflag' = TRUE /\ due' = TRUE /\ counter' \in 1 .. LATCH
  BY DEF local_irq_enable, saved
<1>2. offset = None /\ count_p = LATCH
  BY <1>1 DEF TickInv, Booting
<1>3. ~Current /\ ~Current'
  BY <1>1, <1>2 DEF TickInv, TicksOK, Numbers, Bits, Current, None
<1>4. TicksOK' /\ Booting' /\ Remembers' /\ Passed' /\ Latched'
  BY <1>1, <1>2 DEF TickInv, TicksOK, Numbers, Bits, Booting, Remembers, Passed, Latched, InCall
<1>5. Known'
  BY <1>1, <1>2, <1>3 DEF Known
<1>6. Forward
  BY <1>1 DEF Forward, TickInv, TicksOK, Bits
<1> QED
  BY <1>4, <1>5, <1>6 DEF TickInv

LEMMA CountStep ==
  ASSUME TickInv, Count  PROVE TickInv' /\ Forward
<1> USE Sizes
<1>1. /\ at # "boot" /\ at' = at /\ ~(due /\ counter = 1)
      /\ UNCHANGED <<jiffies_64, iflag, flags, count, count_p, jiffies_p, offset>>
      /\ counter' = IF counter = 1 THEN LATCH ELSE counter - 1
      /\ due' = (due \/ counter = 1)
  BY DEF Count, Reload, saved
<1>2. TicksOK
  BY DEF TickInv
<1>3. TicksOK'
  <2>1. Numbers'
    BY <1>1, <1>2 DEF TicksOK, Numbers
  <2>2. Bits'
    BY <1>1, <1>2 DEF TicksOK, Bits
  <2> QED
    BY <2>1, <2>2 DEF TicksOK
<1>4. V' = V - 1 /\ V \in Int /\ (due => due')
  <2>1. counter \in Int /\ LATCH \in Int
    BY <1>2 DEF TicksOK, Numbers
  <2>2. CASE due
    <3>1. due' /\ counter' = counter - 1
      BY <1>1, <2>2
    <3> QED
      BY <2>1, <2>2, <3>1 DEF V
  <2>3. CASE ~due /\ counter = 1
    <3>1. due' /\ counter' = LATCH
      BY <1>1, <2>3
    <3> QED
      BY <2>1, <2>3, <3>1 DEF V
  <2>4. CASE ~due /\ counter # 1
    <3>1. ~due' /\ counter' = counter - 1
      BY <1>1, <2>4
    <3> QED
      BY <2>1, <2>4, <3>1 DEF V
  <2> QED
    BY <2>2, <2>3, <2>4
<1>5. Jiffies' = Jiffies /\ Current' = Current /\ count \in Int /\ count_p \in Int
  BY <1>1, <1>2 DEF Jiffies, Current, TicksOK, Numbers, Bits
<1>6. Booting' /\ Remembers'
  BY <1>1 DEF TickInv, Booting, Remembers
<1>7. Known' /\ Passed'
  BY <1>1, <1>4, <1>5 DEF TickInv, Known, Passed, Micros, Quotient
<1>8. WasDue => WasDue'
  BY <1>1, <1>4, <1>5 DEF WasDue
<1>9. Latched'
  BY <1>1, <1>4, <1>5, <1>8 DEF TickInv, Latched, InCall
<1>10. Forward
  BY <1>1, <1>2 DEF Forward, TicksOK, Bits
<1> QED
  BY <1>3, <1>6, <1>7, <1>9, <1>10 DEF TickInv

LEMMA TimerStep ==
  ASSUME ShortRun, TickInv, timer_interrupt  PROVE TickInv' /\ Forward
<1> USE Sizes
<1>1. /\ iflag /\ due /\ due' = FALSE /\ jiffies_64 < Word - Early + MaxTicks
      /\ jiffies_64' = jiffies_64 + 1
      /\ UNCHANGED <<counter, iflag, flags, at, count, count_p, jiffies_p, offset>>
  BY DEF timer_interrupt, saved
<1>2. TicksOK /\ at # "boot" /\ at \notin InCall
  BY <1>1 DEF TickInv, Booting, Latched
<1>3. TicksOK'
  <2>1. Numbers'
    BY <1>1, <1>2 DEF TicksOK, Numbers
  <2>2. Bits'
    BY <1>1, <1>2 DEF TicksOK, Bits
  <2> QED
    BY <2>1, <2>2 DEF TicksOK
<1>4. Remembers'
  <2>1. \A j \in Word - Early .. jiffies_64 : j \in Word - Early .. jiffies_64'
    BY <1>1, <1>2 DEF TicksOK, Numbers
  <2> QED
    BY <1>1, <1>2, <2>1 DEF TickInv, Remembers
<1>5. Known'
  BY <1>1, <1>2 DEF TickInv, Known, Current, TicksOK, Numbers, Bits, None, Reset
<1>6. Passed'
  <2>1. CASE \E j \in Word - Early .. jiffies_64 : jiffies_p = j % Word
    <3>1. PICK j \in Word - Early .. jiffies_64 : jiffies_p = j % Word
      BY <2>1
    <3>2. j % Word # jiffies_64' % Word
      <4>1. /\ j \in Int /\ jiffies_64' \in Int /\ j < jiffies_64'
            /\ Word - Early <= j /\ jiffies_64' <= Word - Early + MaxTicks
        BY <1>1, <1>2 DEF TicksOK, Numbers, Bits
      <4> QED
        BY <4>1, JiffyOther
    <3> QED
      BY <1>1, <3>1, <3>2 DEF Passed, Jiffies
  <2>2. CASE count_p = LATCH
    BY <1>1, <2>2 DEF Passed
  <2> QED
    BY <1>2, <2>1, <2>2 DEF TickInv, Remembers
<1>7. Booting' /\ Latched'
  <2>1. offset # Reset
    BY <1>2 DEF TickInv, Latched, InCall
  <2> QED
    BY <1>1, <1>2, <2>1 DEF Booting, Latched, InCall
<1>8. Forward
  BY <1>1, <1>2 DEF Forward, TicksOK, Bits
<1> QED
  BY <1>3, <1>4, <1>5, <1>6, <1>7, <1>8 DEF TickInv

LEMMA ToggleStep ==
  ASSUME TickInv, Toggle  PROVE TickInv' /\ Forward
<1>1. /\ at = "idle" /\ at' = "idle" /\ iflag' = ~iflag
      /\ UNCHANGED <<jiffies_64, counter, due, flags, count, count_p, jiffies_p, offset>>
  BY DEF Toggle, pit, saved
<1>2. Jiffies' = Jiffies /\ V' = V /\ Current' = Current
  BY <1>1 DEF Jiffies, V, Current
<1>3. TicksOK' /\ Booting' /\ Remembers'
  BY <1>1 DEF TickInv, TicksOK, Numbers, Bits, Booting, Remembers
<1>4. Known' /\ Passed'
  BY <1>1, <1>2 DEF TickInv, Known, Passed, Micros, Quotient
<1>5. Latched'
  <2>1. offset # Reset
    BY <1>1 DEF TickInv, Latched
  <2> QED
    BY <1>1, <2>1 DEF Latched, InCall
<1>6. Forward
  BY <1>1 DEF Forward, TickInv, TicksOK, Bits
<1> QED
  BY <1>3, <1>4, <1>5, <1>6 DEF TickInv

LEMMA LatchStep ==
  ASSUME TickInv, Latch  PROVE TickInv' /\ Forward
<1> USE Sizes
<1>1. /\ at = "idle" /\ at' = "latched" /\ flags' = iflag /\ iflag' = FALSE
      /\ count' = counter
      /\ UNCHANGED <<jiffies_64, counter, due, count_p, jiffies_p, offset>>
  BY DEF Latch, pit, saved
<1>2. Jiffies' = Jiffies /\ V' = V /\ Current' = Current
  BY <1>1 DEF Jiffies, V, Current
<1>3. TicksOK' /\ Booting' /\ Remembers'
  <2>1. Numbers'
    BY <1>1 DEF TickInv, TicksOK, Numbers
  <2>2. Bits'
    BY <1>1 DEF TickInv, TicksOK, Bits, InCall
  <2>3. Booting' /\ Remembers'
    BY <1>1 DEF TickInv, Booting, Remembers
  <2> QED
    BY <2>1, <2>2, <2>3 DEF TicksOK
<1>4. Known' /\ Passed'
  BY <1>1, <1>2 DEF TickInv, Known, Passed, Micros, Quotient
<1>5. Latched'
  <2>1. /\ counter \in 1 .. LATCH /\ LATCH \in Int /\ count_p \in Int
        /\ count' = counter /\ count_p' = count_p
    BY <1>1 DEF TickInv, TicksOK, Numbers
  <2>2. CASE due
    <3>1. V = count' - LATCH
      BY <2>1, <2>2 DEF V
    <3>2. WasDue'
      BY <1>1, <1>2, <2>1, <2>2, <3>1 DEF TickInv, Known, WasDue
    <3>3. offset # Reset
      BY <1>1 DEF TickInv, Latched
    <3> QED
      BY <1>1, <2>1, <3>2, <3>3 DEF Latched, InCall
  <2>3. CASE ~due
    <3>1. V = count'
      BY <2>1, <2>3 DEF V
    <3>2. Current' => count' <= count_p'
      BY <1>1, <1>2, <2>1, <3>1 DEF TickInv, Known
    <3>3. offset # Reset => (jiffies_p' = Jiffies' => count' <= count_p' \/ count' = LATCH)
      BY <1>1, <1>2, <2>1, <2>3, <3>1 DEF TickInv, Passed
    <3>4. offset # Reset
      BY <1>1 DEF TickInv, Latched
    <3> QED
      BY <1>1, <1>2, <2>1, <3>1, <3>2, <3>3, <3>4 DEF Latched, InCall
  <2> QED
    BY <2>2, <2>3
<1>6. Forward
  BY <1>1 DEF Forward, TickInv, TicksOK, Bits
<1> QED
  BY <1>3, <1>4, <1>5, <1>6 DEF TickInv

LEMMA ResetStep ==
  ASSUME TickInv, ResetLatch  PROVE TickInv' /\ Forward
<1> USE Sizes
<1>1. /\ at = "latched" /\ at' = "reset" /\ counter' = LATCH /\ count' = LATCH - 1
      /\ offset' = Reset
      /\ UNCHANGED <<jiffies_64, due, iflag, flags, count_p, jiffies_p>>
  BY DEF ResetLatch, saved
<1>2. TicksOK
  BY DEF TickInv
<1>3. TicksOK'
  <2>1. Numbers'
    BY <1>1, <1>2 DEF TicksOK, Numbers
  <2>2. Reset \in [jiffy : Int, value : Int]
    BY DEF Reset
  <2>3. Bits'
    BY <1>1, <1>2, <2>2 DEF TicksOK, Bits, InCall
  <2> QED
    BY <2>1, <2>3 DEF TicksOK
<1>4. ~Current'
  BY <1>1, <1>2 DEF TicksOK, Numbers, Current, Reset
<1>5. Booting' /\ Remembers' /\ Known' /\ Passed'
  BY <1>1, <1>4 DEF TickInv, Booting, Remembers, Known, Passed
<1>6. Latched'
  BY <1>1 DEF TickInv, Latched, InCall
<1>7. Forward
  <2>1. offset \in {None, Reset} \/ offset.jiffy >= 0
    BY DEF TickInv, Known
  <2> QED
    BY <1>1, <2>1 DEF Forward, None, Reset
<1> QED
  BY <1>3, <1>5, <1>6, <1>7 DEF TickInv

(* get_offset_pit returns the time of the count c.                           *)
LEMMA LeaveStep ==
  ASSUME TickInv, NEW c \in Int, at \in InCall, Leave(c), count_p' = c, jiffies_p' = Jiffies,
         UNCHANGED <<jiffies_64, counter, due, flags>>,
         offset # Reset => V <= c,
         offset = Reset => c >= LATCH - 1 \/ (c = -1 /\ due),
         Current => c <= count_p
  PROVE  TickInv' /\ Forward
<1> USE Sizes
<1>1. /\ offset' = IF offset = Reset THEN None ELSE [jiffy |-> jiffies_64, value |-> Micros(c)]
      /\ iflag' = flags /\ at' = "idle" /\ count' = 0
  BY DEF Leave
<1>2. TicksOK /\ jiffies_64 \in Nat /\ at # "boot"
  BY DEF TickInv, TicksOK, Numbers, InCall
<1>3. Micros(c) \in Int
  BY MicrosMonotonic
<1>4. Jiffies' = Jiffies /\ V' = V /\ Jiffies \in Int
  BY <1>2, JiffiesType DEF Jiffies, V
<1>5. TicksOK'
  <2>1. Numbers'
    BY <1>1, <1>2, <1>4 DEF TicksOK, Numbers
  <2>2. offset' \in [jiffy : Int, value : Int]
    BY <1>1, <1>2, <1>3 DEF None
  <2>3. Bits'
    BY <1>1, <1>2, <2>2 DEF TicksOK, Bits
  <2> QED
    BY <2>1, <2>3 DEF TicksOK
<1>6. Booting' /\ Remembers'
  <2>1. jiffies_64 \in Word - Early .. jiffies_64 /\ Jiffies = jiffies_64 % Word
    BY <1>2, JiffiesType DEF TicksOK, Numbers
  <2> QED
    BY <1>1, <2>1 DEF Booting, Remembers
<1>7. CASE offset = Reset
  <2>1. offset' = None /\ ~Current' /\ None # Reset
    BY <1>1, <1>2, <1>7 DEF Current, None, Reset
  <2>2. Known' /\ Passed' /\ Latched'
    BY <1>1, <1>4, <1>7, <2>1 DEF Known, Passed, Latched, InCall
  <2>3. Forward
    BY <1>7, <2>1 DEF Forward, None, Reset
  <2> QED
    BY <1>5, <1>6, <2>2, <2>3 DEF TickInv
<1>8. CASE offset # Reset
  <2>1. offset'.jiffy = jiffies_64 /\ offset'.value = Micros(c) /\ offset' # Reset /\ Current'
    BY <1>1, <1>2, <1>8 DEF Current, Reset
  <2>2. Known' /\ Passed' /\ Latched'
    <3>1. Micros(c)' = Micros(c)
      BY DEF Micros, Quotient
    <3>2. Known'
      BY <1>1, <1>2, <1>4, <1>8, <2>1 DEF Known, Micros, Quotient
    <3> QED
      BY <1>1, <1>4, <1>8, <2>1, <3>2 DEF Passed, Latched, InCall
  <2>3. Forward
    <3> SUFFICES ASSUME offset.jiffy = offset'.jiffy  PROVE offset'.value >= offset.value
      BY DEF Forward
    <3>1. Current
      BY <2>1 DEF Current
    <3>2. offset.value = Micros(count_p) /\ c <= count_p /\ count_p \in Int
      BY <1>2, <3>1 DEF TickInv, Known, TicksOK, Numbers
    <3> QED
      BY <2>1, <3>2, MicrosMonotonic
  <2> QED
    BY <1>5, <1>6, <2>2, <2>3 DEF TickInv
<1> QED
  BY <1>7, <1>8

LEMMA CompareStep ==
  ASSUME TickInv, Compare  PROVE TickInv' /\ Forward
<1> USE Sizes
<1>1. /\ at \in {"latched", "reset"}
      /\ UNCHANGED <<jiffies_64, counter, due, flags>>
  BY DEF Compare, pit
<1>2. TicksOK /\ count \in Int /\ count_p \in Int /\ LATCH \in Int
  BY DEF TickInv, TicksOK, Numbers
<1>3. CASE Jiffies = jiffies_p /\ count > count_p
  <2>1. at' = "overflow" /\ UNCHANGED <<iflag, count, count_p, jiffies_p, offset>>
    BY <1>3 DEF Compare, saved
  <2>2. Jiffies' = Jiffies /\ V' = V /\ Current' = Current
    BY <1>1, <2>1 DEF Jiffies, V, Current
  <2>3. TicksOK'
    <3>1. Numbers'
      BY <1>1, <2>1 DEF TickInv, TicksOK, Numbers
    <3>2. Bits'
      BY <1>1, <2>1 DEF TickInv, TicksOK, Bits, InCall
    <3> QED
      BY <3>1, <3>2 DEF TicksOK
  <2>4. Booting' /\ Remembers'
    BY <1>1, <2>1 DEF TickInv, Booting, Remembers
  <2>5. Known' /\ Passed'
    BY <1>1, <2>1, <2>2 DEF TickInv, Known, Passed, Micros, Quotient
  <2>6. WasDue' = WasDue
    BY <1>1, <2>1, <2>2 DEF WasDue
  <2>7. IF offset = Reset THEN count = LATCH - 1 ELSE WasDue \/ (count = LATCH /\ ~Current)
    BY <1>1, <1>2, <1>3 DEF TickInv, Latched
  <2>8. Latched'
    BY <1>1, <1>3, <2>1, <2>2, <2>6, <2>7 DEF TickInv, Latched, InCall
  <2>9. Forward
    BY <2>1 DEF Forward, TickInv, TicksOK, Bits
  <2> QED
    BY <2>3, <2>4, <2>5, <2>8, <2>9 DEF TickInv
<1>4. CASE ~(Jiffies = jiffies_p /\ count > count_p)
  <2>1. jiffies_p' = Jiffies /\ count_p' = count /\ Leave(count)
    BY <1>4 DEF Compare
  <2>2. offset # Reset => V <= count
    <3> SUFFICES ASSUME offset # Reset  PROVE V <= count
      OBVIOUS
    <3>1. at = "latched"
      BY <1>1 DEF TickInv, Latched
    <3>2. V \in Int
      BY <1>2 DEF V, TicksOK, Numbers, Bits
    <3> QED
      BY <1>2, <3>1, <3>2 DEF TickInv, Latched, WasDue
  <2>3. offset = Reset => count >= LATCH - 1
    BY <1>1, <1>2 DEF TickInv, Latched
  <2>4. Current => count <= count_p
    <3> SUFFICES ASSUME Current  PROVE count <= count_p
      OBVIOUS
    <3>1. jiffies_p = Jiffies
      BY DEF TickInv, Known
    <3> QED
      BY <1>2, <1>4, <3>1
  <2> QED
    BY <1>1, <1>2, <2>1, <2>2, <2>3, <2>4, LeaveStep DEF InCall
<1> QED
  BY <1>3, <1>4

LEMMA OverflowStep ==
  ASSUME TickInv, Overflow  PROVE TickInv' /\ Forward
<1> USE Sizes
<1>1. /\ at = "overflow"
      /\ UNCHANGED <<jiffies_64, counter, due, flags, jiffies_p>>
  BY DEF Overflow, pit
<1>2. /\ count \in Int /\ count_p \in Int /\ LATCH \in Int /\ counter \in 1 .. LATCH
      /\ due \in BOOLEAN
  BY DEF TickInv, TicksOK, Numbers, Bits
<1>3. /\ jiffies_p = Jiffies /\ count > count_p
      /\ IF offset = Reset THEN count = LATCH - 1
         ELSE WasDue \/ (count = LATCH /\ ~Current)
  BY <1>1 DEF TickInv, Latched
<1>4. PICK c \in Int : /\ c = IF due THEN count - LATCH ELSE count
                       /\ count_p' = c /\ Leave(c)
  BY <1>2 DEF Overflow
<1>5. V \in Int /\ V <= LATCH /\ (due => V <= 0)
  BY <1>2 DEF V
<1>6. CASE offset # Reset /\ WasDue
  <2>1. due /\ c = count - LATCH /\ V <= c /\ (Current => c <= count_p)
    BY <1>4, <1>6 DEF WasDue
  <2>2. offset # Reset => V <= c
    BY <2>1
  <2> QED
    BY <1>1, <1>3, <1>4, <1>6, <2>1, <2>2, LeaveStep DEF InCall
<1>7. CASE offset # Reset /\ count = LATCH /\ ~Current
  <2>1. V <= c
    BY <1>2, <1>4, <1>5, <1>7
  <2> QED
    BY <1>1, <1>3, <1>4, <1>7, <2>1, LeaveStep DEF InCall
<1>8. CASE count = LATCH - 1 /\ offset = Reset
  <2>1. c >= LATCH - 1 \/ (c = -1 /\ due)
    BY <1>2, <1>4, <1>8
  <2>2. ~Current
    BY <1>8 DEF TickInv, TicksOK, Numbers, Current, Reset
  <2> QED
    BY <1>1, <1>3, <1>4, <1>8, <2>1, <2>2, LeaveStep DEF InCall
<1> QED
  BY <1>3, <1>6, <1>7, <1>8

-----------------------------------------------------------------------------
(* A call of get_jiffies_64 that has loaded a word of the counter as it was. *)
Loading ==
  at \in {"low", "high"} =>
    /\ since \in Word - Early .. jiffies_64
    /\ half = IF at = "low" THEN since % Word ELSE since \div Word

ClockInv == TickInv /\ Loading

LEMMA ClockStep ==
  ASSUME ShortRun, ClockInv, [ClockNext]_allVars
  PROVE  ClockInv' /\ Forward
<1> USE Sizes
<1>1. TickInv /\ Loading /\ TicksOK
  BY DEF ClockInv, TickInv
<1>2. CASE Boot
  <2>1. at' = "boot"
    BY <1>2 DEF Boot
  <2> QED
    BY <1>1, <1>2, <2>1, BootStep DEF ClockInv, Loading
<1>3. CASE local_irq_enable
  <2>1. at' = "idle"
    BY <1>3 DEF local_irq_enable
  <2> QED
    BY <1>1, <1>3, <2>1, EnableStep DEF ClockInv, Loading
<1>4. CASE Count
  <2>1. UNCHANGED <<at, jiffies_64, since, half>>
    BY <1>4 DEF Count, load
  <2> QED
    BY <1>1, <1>4, <2>1, CountStep DEF ClockInv, Loading
<1>5. CASE timer_interrupt
  <2>1. UNCHANGED <<at, since, half>> /\ jiffies_64' = jiffies_64 + 1 /\ jiffies_64 \in Int
    BY <1>1, <1>5 DEF timer_interrupt, load, TicksOK, Numbers
  <2>2. since \in Word - Early .. jiffies_64 => since \in Word - Early .. jiffies_64'
    BY <2>1
  <2>3. Loading'
    BY <1>1, <2>1, <2>2 DEF Loading
  <2> QED
    BY <1>1, <1>5, <2>3, TimerStep DEF ClockInv
<1>6. CASE Toggle
  <2>1. at' = "idle"
    BY <1>6 DEF Toggle
  <2> QED
    BY <1>1, <1>6, <2>1, ToggleStep DEF ClockInv, Loading
<1>7. CASE Latch
  <2>1. at' = "latched"
    BY <1>7 DEF Latch
  <2> QED
    BY <1>1, <1>7, <2>1, LatchStep DEF ClockInv, Loading
<1>8. CASE ResetLatch
  <2>1. at' = "reset"
    BY <1>8 DEF ResetLatch
  <2> QED
    BY <1>1, <1>8, <2>1, ResetStep DEF ClockInv, Loading
<1>9. CASE Compare
  <2>1. at' \in {"overflow", "idle"}
    BY <1>9 DEF Compare, Leave
  <2> QED
    BY <1>1, <1>9, <2>1, CompareStep DEF ClockInv, Loading
<1>10. CASE Overflow
  <2>1. at' = "idle"
    BY <1>10 DEF Overflow, Leave
  <2> QED
    BY <1>1, <1>10, <2>1, OverflowStep DEF ClockInv, Loading
<1>11. ASSUME NEW first \in {"low", "high"}, Load(first)
       PROVE  ClockInv' /\ Forward
  <2>1. /\ at = "idle" /\ at' = first /\ since' = jiffies_64 /\ jiffies_64' = jiffies_64
        /\ half' = IF first = "low" THEN jiffies_64 % Word ELSE jiffies_64 \div Word
        /\ UNCHANGED <<jiffies_64, counter, due, iflag, flags, count, count_p, jiffies_p, offset>>
    BY <1>11 DEF Load, pit, saved
  <2>2. Loading'
    BY <1>1, <2>1 DEF Loading, TicksOK, Numbers
  <2> QED
    BY <1>1, <2>1, <2>2, TickStays DEF ClockInv
<1>12. CASE LoadRest
  <2>1. /\ at \in {"low", "high"} /\ at' = "idle"
        /\ UNCHANGED <<jiffies_64, counter, due, iflag, flags, count, count_p, jiffies_p, offset>>
    BY <1>12 DEF LoadRest, pit, saved
  <2>2. Loading'
    BY <2>1 DEF Loading
  <2> QED
    BY <1>1, <2>1, <2>2, TickStays DEF ClockInv
<1>13. CASE UNCHANGED allVars
  <2>1. /\ UNCHANGED <<jiffies_64, counter, due, iflag, flags, count, count_p, jiffies_p, offset>>
        /\ UNCHANGED <<at, pc, since, half>>
    BY <1>13 DEF allVars, ticks, vars, pit, saved, load
  <2>2. Loading'
    BY <1>1, <2>1 DEF Loading
  <2> QED
    BY <1>1, <2>1, <2>2, TickStays DEF ClockInv
<1> QED
  BY <1>2, <1>3, <1>4, <1>5, <1>6, <1>7, <1>8, <1>9, <1>10, <1>11, <1>12, <1>13
     DEF ClockNext

(* Before the end of the run the low word carries at most once.              *)
LEMMA LoadedWhole ==
  ASSUME ShortRun, ClockInv  PROVE JiffiesWhole
<1> USE Sizes
<1> SUFFICES ASSUME at \in {"low", "high"}
             PROVE  \/ Returned \in since .. jiffies_64
                    \/ /\ since \div Word < jiffies_64 \div Word
                       /\ Returned \in {since + Word, jiffies_64 - Word}
  BY DEF JiffiesWhole
<1>1. /\ since \in Word - Early .. jiffies_64
      /\ jiffies_64 \in Word - Early .. Word - Early + MaxTicks
      /\ half = IF at = "low" THEN since % Word ELSE since \div Word
  BY DEF ClockInv, Loading, TickInv, TicksOK, Numbers
<1> DEFINE j == jiffies_64  s == since
           p == s \div Word  q == j \div Word  a == s % Word  b == j % Word
<1>2. /\ p \in Int /\ q \in Int /\ a \in 0 .. Word - 1 /\ b \in 0 .. Word - 1
      /\ s = p * Word + a /\ j = q * Word + b
  BY <1>1, DivIs
<1>3. Returned = IF at = "low" THEN q * Word + a ELSE p * Word + b
  BY <1>1 DEF Returned
<1>4. s \in Int /\ j \in Int /\ s <= j /\ j - s < Word
  BY <1>1 DEF ShortRun
<1>5. p <= q
  BY <1>4, DivMonotonic
<1> SUFFICES \/ Returned \in s .. j
             \/ p < q /\ Returned \in {s + Word, j - Word}
  OBVIOUS
<1> HIDE DEF j, s, p, q, a, b
<1>6. q <= p + 1
  <2>1. (q - p) * Word = (j - s) + (a - b) /\ (j - s) + (a - b) < 2 * Word /\ q - p \in Int
    BY <1>2, <1>4
  <2>2. q - p >= 2 => (q - p) * Word >= 2 * Word
    BY <2>1
  <2> QED
    BY <1>2, <2>1, <2>2
<1>7. CASE q = p
  BY <1>2, <1>3, <1>4, <1>7
<1>8. CASE q = p + 1
  <2>1. q * Word = p * Word + Word
    BY <1>2, <1>8
  <2> QED
    BY <1>2, <1>3, <1>4, <1>8, <2>1
<1> QED
  BY <1>2, <1>5, <1>6, <1>7, <1>8

(* What is known of the ticks and of what get_offset_pit remembers holds in  *)
(* every state, and each step keeps the offset from running backwards.       *)
THEOREM ClockInductive ==
  ASSUME ShortRun
  PROVE  ClockSpec => []ClockInv /\ [][Forward]_allVars
<1>1. ClockInit => ClockInv
  BY TickStart DEF ClockInv, Loading, ClockInit
<1>2. ClockInv /\ [ClockNext]_allVars => ClockInv' /\ Forward
  BY ClockStep
<1> QED
  BY <1>1, <1>2, PTL DEF ClockSpec

(* The value of get_jiffies_64 is one that the counter had during the call,  *)
(* or off by one carry of the low word between the two loads.                *)
THEOREM JiffiesOffByACarry ==
  ASSUME ShortRun
  PROVE  ClockSpec => []JiffiesWhole
<1>1. ClockInv => JiffiesWhole
  BY LoadedWhole
<1> QED
  BY <1>1, ClockInductive, PTL

(* Within a jiffy the time that get_offset_pit gives never runs backwards:   *)
(* however it is called, whenever the timer reloads, with interrupts on or   *)
(* off, the correction of do_timer_overflow puts every count where it        *)
(* belongs.                                                                  *)
THEOREM TimeRunsForward ==
  ASSUME ShortRun
  PROVE  ClockSpec => OffsetForward
<1>1. Forward => (offset.jiffy = offset'.jiffy => offset'.value >= offset.value)
  BY DEF Forward
<1> QED
  BY <1>1, ClockInductive, PTL DEF OffsetForward

-----------------------------------------------------------------------------
(* Boot and the registers of the clock.                                      *)
Reading == [sec |-> 7, min |-> 6, hour |-> 5, day |-> 4, mon |-> 3, year |-> 2, again |-> 1]
Rises == chip.second - chip.lead - chip.update
Off   == chip.second - chip.update

DateType == [sec : Int, min : Int, hour : Int, day : Int, mon : Int, year : Int]

CmosOK ==
  /\ chip \in Chip
  /\ rtc \in DateType
  /\ phase \in 0 .. chip.second - 1
  /\ late \in 0 .. chip.late
  /\ pc \in {"rise", "fall", "done"} \cup DOMAIN Reading
  /\ i \in Nat
  /\ reg \in [{"sec", "min", "hour", "day", "mon", "year"} -> Int]
(* At its bound the clock of the model stands where a second begins.         *)
Stands == seconds = MaxSeconds => phase = 0
(* The second loop waits from the rise of the flag on, or, once it has       *)
(* fallen, for no longer than the time that is lost.                         *)
Falling ==
  pc = "fall" => IF UpdateFlag THEN i <= phase - Rises ELSE i > 0 => phase <= late
(* There is time for the reads that are left and for all that may be lost,   *)
(* and the seconds are those of the first read.                              *)
InTime ==
  pc \in DOMAIN Reading /\ chip.update > 0 =>
    /\ phase + Reading[pc] + (chip.late - late) <= Off
    /\ pc # "sec" => reg.sec = Bcd(rtc.sec)

CmosInv == CmosOK /\ Stands /\ Falling /\ InTime /\ MonotonicAtZero

LEMMA ModNext ==
  ASSUME NEW n \in Nat \ {0}, NEW p \in 0 .. n - 1
  PROVE  (p + 1) % n = IF p + 1 = n THEN 0 ELSE p + 1
<1>1. CASE p + 1 = n
  <2>1. n % n = 0
    OBVIOUS
  <2> QED
    BY <1>1, <2>1
<1>2. CASE p + 1 # n
  <2>1. p + 1 \in 0 .. n - 1
    BY <1>2
  <2> DEFINE m == p + 1
  <2>2. \A k \in 0 .. n - 1 : k % n = k
    OBVIOUS
  <2> QED
    BY <1>2, <2>1, <2>2
<1> QED
  BY <1>1, <1>2

LEMMA ChipIs ==
  ASSUME CmosOK
  PROVE  /\ chip.second \in Nat \ {0} /\ chip.lead \in Nat /\ chip.update \in Nat
         /\ chip.late \in Nat /\ Limit \in Nat
         /\ chip.lead + chip.update + chip.late < chip.second
         /\ chip.lead + chip.update + chip.late < Limit
         /\ chip.update = 0 \/ 7 + chip.late <= chip.lead
         /\ phase \in Nat /\ phase < chip.second /\ late \in Nat /\ late <= chip.late /\ i \in Nat
<1>1. chip \in ChipType /\ chip \in Chip
  BY CmosAssumption DEF CmosOK
<1>2. Reads = 7
  BY DEF Reads, Fields
<1>3. /\ chip.lead + chip.update + chip.late < chip.second
      /\ chip.lead + chip.update + chip.late < Limit
      /\ chip.update = 0 \/ 7 + chip.late <= chip.lead
  BY <1>1, <1>2, CmosAssumption
<1>4. Limit \in Nat
  BY CmosAssumption
<1>5. chip.second \in Nat \ {0} /\ chip.lead \in Nat /\ chip.update \in Nat /\ chip.late \in Nat
  BY <1>1 DEF ChipType
<1>6. phase \in Nat /\ phase < chip.second /\ late \in Nat /\ late <= chip.late /\ i \in Nat
  BY <1>5 DEF CmosOK
<1> QED
  BY <1>3, <1>4, <1>5, <1>6

LEMMA FieldKept ==
  ASSUME NEW d \in DateType, NEW v \in Int
  PROVE  /\ [d EXCEPT !.sec = v] \in DateType /\ [d EXCEPT !.min = v] \in DateType
         /\ [d EXCEPT !.hour = v] \in DateType /\ [d EXCEPT !.day = v] \in DateType
         /\ [d EXCEPT !.mon = v] \in DateType /\ [d EXCEPT !.year = v] \in DateType
BY DEF DateType

LEMMA NextSecondType ==
  ASSUME NEW d \in DateType
  PROVE  NextSecond(d) \in DateType
<1> DEFINE midnight == [d EXCEPT !.sec = 0, !.min = 0, !.hour = 0]
<1>0. 0 \in Int /\ 1 \in Int
  OBVIOUS
<1>1. \A e \in DateType :
        e.sec + 1 \in Int /\ e.min + 1 \in Int /\ e.hour + 1 \in Int
        /\ e.day + 1 \in Int /\ e.mon + 1 \in Int /\ e.year + 1 \in Int
  BY DEF DateType
<1>2. [d EXCEPT !.sec = @ + 1] \in DateType
  BY <1>1, FieldKept
<1>3. [d EXCEPT !.sec = 0, !.min = @ + 1] \in DateType
  BY <1>0, <1>1, FieldKept
<1>4. [d EXCEPT !.sec = 0, !.min = 0, !.hour = @ + 1] \in DateType
  BY <1>0, <1>1, FieldKept
<1>5. midnight \in DateType
  BY <1>0, FieldKept
<1> HIDE DEF midnight
<1>6. [midnight EXCEPT !.day = @ + 1] \in DateType
  BY <1>1, <1>5, FieldKept
<1>7. [midnight EXCEPT !.day = 1, !.mon = @ + 1] \in DateType
  BY <1>0, <1>1, <1>5, FieldKept
<1>8. [midnight EXCEPT !.day = 1, !.mon = 1, !.year = @ + 1] \in DateType
  BY <1>0, <1>1, <1>5, FieldKept
<1>9. \/ NextSecond(d) = [d EXCEPT !.sec = @ + 1]
      \/ NextSecond(d) = [d EXCEPT !.sec = 0, !.min = @ + 1]
      \/ NextSecond(d) = [d EXCEPT !.sec = 0, !.min = 0, !.hour = @ + 1]
      \/ NextSecond(d) = [midnight EXCEPT !.day = @ + 1]
      \/ NextSecond(d) = [midnight EXCEPT !.day = 1, !.mon = @ + 1]
      \/ NextSecond(d) = [midnight EXCEPT !.day = 1, !.mon = 1, !.year = @ + 1]
  BY Zenon DEF NextSecond, midnight
<1> QED
  BY <1>2, <1>3, <1>4, <1>6, <1>7, <1>8, <1>9

(* A read's time: the clock stands, a second goes on, or it ends.            *)
LEMMA ElapseIs ==
  ASSUME CmosOK, Stands, Elapse
  PROVE  /\ chip' = chip /\ phase' \in 0 .. chip.second - 1 /\ rtc' \in DateType
         /\ Stands'
         /\ \/ phase' = phase + 1 /\ rtc' = rtc
            \/ phase' = 0 /\ phase = 0 /\ rtc' = rtc
            \/ phase' = 0 /\ phase = chip.second - 1
<1>1. /\ chip.second \in Nat \ {0} /\ phase \in 0 .. chip.second - 1 /\ rtc \in DateType
      /\ chip' = chip
  BY ChipIs DEF CmosOK, DateType, Elapse
<1>2. CASE seconds = MaxSeconds
  <2>1. phase = 0 /\ UNCHANGED <<rtc, phase, seconds>>
    BY <1>2 DEF Elapse, Stands
  <2> QED
    BY <1>1, <2>1 DEF Stands
<1>3. CASE seconds # MaxSeconds
  <2>1. /\ phase' = (phase + 1) % chip.second
        /\ rtc' = IF phase' = 0 THEN NextSecond(rtc) ELSE rtc
        /\ seconds' = IF phase' = 0 THEN seconds + 1 ELSE seconds
    BY <1>3 DEF Elapse
  <2>2. phase' = IF phase + 1 = chip.second THEN 0 ELSE phase + 1
    BY <1>1, <2>1, ModNext
  <2>3. rtc' \in DateType
    BY <1>1, <2>1, NextSecondType
  <2>4. Stands'
    BY <1>1, <1>3, <2>1, <2>2 DEF Stands
  <2> QED
    BY <1>1, <2>1, <2>2, <2>3, <2>4
<1> QED
  BY <1>2, <1>3

LEMMA FlagIs ==
  ASSUME CmosOK
  PROVE  /\ UpdateFlag <=> phase >= Rises
         /\ Rises \in Nat \ {0} /\ Off \in Nat \ {0} /\ Off >= Rises
         /\ OffBus <=> phase >= Off
<1> DEFINE s == chip.second  l == chip.lead  u == chip.update
<1>1. /\ s \in Nat /\ l \in Nat /\ u \in Nat /\ phase \in Nat
      /\ l + u < s
  BY ChipIs
<1>2. /\ Rises = s - l - u /\ Off = s - u
      /\ UpdateFlag <=> phase >= s - l - u
      /\ OffBus <=> phase >= s - u
  BY DEF UpdateFlag, OffBus, Rises, Off
<1> HIDE DEF s, l, u
<1> QED
  BY <1>1, <1>2
(* What the chip is made of does not change.                                 *)
LEMMA FlagNext ==
  ASSUME CmosOK, chip' = chip
  PROVE  /\ Rises' = Rises /\ Off' = Off
         /\ UpdateFlag' <=> phase' >= Rises
BY DEF UpdateFlag, Rises, Off

LEMMA RestOf ==
  ASSUME NEW a \in Int, NEW b \in Int, a >= b
  PROVE  0 <= a - b
OBVIOUS

(* Whoever reads leaves the date and the clock as ElapseIs says; the lemmas  *)
(* below say what the CPU adds to it.                                        *)
LEMMA RiseStep ==
  ASSUME CmosInv, Rise
  PROVE  CmosInv'
<1>1. CmosOK /\ Stands /\ Elapse
  BY DEF CmosInv, Rise, WaitFor
<1>2. /\ pc = "rise" /\ pc' \in {"rise", "fall"} /\ i' \in Nat
      /\ pc' = "fall" => i' = 0
      /\ late' = late /\ reg' = reg
  BY <1>1 DEF Rise, WaitFor, CmosOK
<1>3. /\ chip' = chip /\ phase' \in 0 .. chip.second - 1 /\ rtc' \in DateType /\ Stands'
  BY <1>1, ElapseIs
<1>4. CmosOK'
  BY <1>1, <1>2, <1>3 DEF CmosOK
<1>5. Falling'
  <2>1. CASE pc' = "fall"
    <3>1. UpdateFlag' => i' <= phase' - Rises'
      <4>1. Rises' = Rises /\ Rises \in Nat /\ chip.second \in Nat
            /\ (UpdateFlag' <=> phase' >= Rises)
        BY <1>1, <1>3, FlagIs, FlagNext, ChipIs
      <4>2. phase' \in Int /\ i' = 0 /\ (UpdateFlag' => phase' >= Rises)
        BY <1>2, <1>3, <2>1, <4>1
      <4>3. Rises \in Int
        BY <4>1
      <4>4. phase' >= Rises => 0 <= phase' - Rises
        BY <4>2, <4>3, RestOf
      <4> QED
        BY <4>1, <4>2, <4>4
    <3> QED
      BY <1>2, <2>1, <3>1 DEF Falling
  <2> QED
    BY <2>1 DEF Falling
<1>6. InTime' /\ MonotonicAtZero'
  BY <1>2 DEF InTime, Reading, MonotonicAtZero
<1> QED
  BY <1>3, <1>4, <1>5, <1>6 DEF CmosInv
LEMMA FallStep ==
  ASSUME CmosInv, Fall
  PROVE  CmosInv'
<1>1. CmosOK /\ Stands /\ Falling /\ Elapse /\ pc = "fall"
  BY DEF CmosInv, Fall, WaitFor
<1>2. /\ chip.second \in Nat \ {0} /\ chip.lead \in Nat /\ chip.update \in Nat /\ chip.late \in Nat
      /\ Limit \in Nat
      /\ chip.lead + chip.update + chip.late < chip.second
      /\ chip.lead + chip.update + chip.late < Limit
      /\ chip.update = 0 \/ 7 + chip.late <= chip.lead
      /\ phase \in Nat /\ phase < chip.second /\ late \in Nat /\ late <= chip.late /\ i \in Nat
  BY <1>1, ChipIs
<1>3. /\ chip' = chip /\ phase' \in 0 .. chip.second - 1 /\ rtc' \in DateType /\ Stands'
      /\ \/ phase' = phase + 1 /\ rtc' = rtc
         \/ phase' = 0 /\ phase = 0 /\ rtc' = rtc
         \/ phase' = 0 /\ phase = chip.second - 1
  BY <1>1, ElapseIs
<1>4. /\ (UpdateFlag <=> phase >= Rises) /\ (UpdateFlag' <=> phase' >= Rises)
      /\ Rises' = Rises /\ Off' = Off /\ Rises \in Nat \ {0} /\ Off \in Nat
      /\ Rises = chip.second - chip.lead - chip.update
      /\ Off = chip.second - chip.update
  BY <1>1, <1>3, FlagIs, FlagNext DEF Rises, Off
<1>5. /\ late' = late /\ reg' = reg
      /\ \/ ~UpdateFlag /\ pc' = "sec" /\ i' = 0
         \/ i + 1 = Limit
         \/ UpdateFlag /\ pc' = "fall" /\ i' = i + 1
  BY <1>1 DEF Fall, WaitFor
<1>6. CASE UpdateFlag
  <2>1. i <= phase - Rises
    BY <1>1, <1>6 DEF Falling
  <2>2. i + 1 # Limit
    BY <1>2, <1>4, <2>1
  <2>3. pc' = "fall" /\ i' = i + 1
    BY <1>5, <1>6, <2>2
  <2>4. UpdateFlag' => i' <= phase' - Rises'
    BY <1>2, <1>3, <1>4, <1>6, <2>1, <2>3
  <2>5. ~UpdateFlag' => phase' <= late'
    BY <1>2, <1>3, <1>4, <1>5, <1>6
  <2>6. CmosOK'
    BY <1>1, <1>2, <1>3, <1>5, <2>3 DEF CmosOK
  <2> QED
    BY <1>3, <2>3, <2>4, <2>5, <2>6 DEF CmosInv, Falling, InTime, Reading, MonotonicAtZero
<1>7. CASE ~UpdateFlag
  <2>1. pc' = "sec" /\ i' = 0
    BY <1>1, <1>7 DEF Fall, WaitFor
  <2>2. chip.update > 0 => phase' + 7 + (chip.late - late) <= Off
    BY <1>2, <1>3, <1>4, <1>7
  <2>3. InTime'
    <3>1. Reading["sec"] = 7
      BY DEF Reading
    <3> QED
      BY <1>3, <1>4, <1>5, <2>1, <2>2, <3>1 DEF InTime
  <2>4. CmosOK'
    <3>1. "sec" \in DOMAIN Reading
      BY DEF Reading
    <3> QED
      BY <1>1, <1>2, <1>3, <1>5, <2>1, <3>1 DEF CmosOK
  <2> QED
    BY <1>3, <2>1, <2>3, <2>4 DEF CmosInv, Falling, MonotonicAtZero
<1> QED
  BY <1>6, <1>7
(* A read, with k reads left: the ones that remain and all that may still    *)
(* be lost fit before the registers go off the bus, so nothing is read off   *)
(* the bus, and the second does not end.                                     *)
LEMMA OnBus ==
  ASSUME CmosInv, pc \in DOMAIN Reading
  PROVE  /\ ~OffBus
         /\ chip.update > 0 /\ Elapse =>
              rtc' = rtc /\ phase' <= phase + 1 /\ Off' = Off /\ chip' = chip
<1>1. CmosOK /\ Stands /\ InTime
  BY DEF CmosInv
<1>2. /\ chip.second \in Nat \ {0} /\ chip.lead \in Nat /\ chip.update \in Nat /\ chip.late \in Nat
      /\ phase \in Nat /\ phase < chip.second /\ late \in Nat /\ late <= chip.late
  BY <1>1, ChipIs
<1>3. Reading[pc] \in Nat /\ Reading[pc] >= 1
  BY DEF Reading
<1>4. (OffBus <=> phase >= Off) /\ Off = chip.second - chip.update
  BY <1>1, FlagIs DEF Off
<1>5. chip.update > 0 => phase + Reading[pc] + (chip.late - late) <= Off
  BY <1>1 DEF InTime
<1>6. ~OffBus
  BY <1>2, <1>3, <1>4, <1>5
<1>7. chip.update > 0 /\ Elapse =>
        rtc' = rtc /\ phase' <= phase + 1 /\ Off' = Off /\ chip' = chip
  <2> SUFFICES ASSUME chip.update > 0, Elapse
               PROVE  rtc' = rtc /\ phase' <= phase + 1 /\ Off' = Off /\ chip' = chip
    OBVIOUS
  <2>1. /\ chip' = chip
        /\ \/ phase' = phase + 1 /\ rtc' = rtc
           \/ phase' = 0 /\ phase = 0 /\ rtc' = rtc
           \/ phase' = 0 /\ phase = chip.second - 1
    BY <1>1, ElapseIs
  <2>2. phase < chip.second - 1
    BY <1>2, <1>3, <1>4, <1>5
  <2>3. rtc' = rtc /\ phase' <= phase + 1
    BY <1>2, <2>1, <2>2
  <2> QED
    BY <1>1, <2>1, <2>3, FlagNext
<1> QED
  BY <1>6, <1>7
LEMMA ReadStep ==
  ASSUME CmosInv, Read
  PROVE  CmosInv'
<1>1. PICK k \in DOMAIN Fields :
        /\ pc = Fields[k]
        /\ \E v \in Bus(pc) : reg' = [reg EXCEPT ![pc] = v]
        /\ pc' = IF k < Len(Fields) THEN Fields[k + 1] ELSE "again"
        /\ Elapse
        /\ UNCHANGED <<late, i, xtime, wallToMonotonic>>
  BY Zenon DEF Read
<1>2. PICK v \in Bus(pc) : reg' = [reg EXCEPT ![pc] = v]
  BY <1>1, Zenon
<1>3. CmosOK /\ Stands /\ InTime
  BY DEF CmosInv
<1>4. /\ k \in 1 .. 6 /\ Len(Fields) = 6
      /\ Fields[1] = "sec" /\ Fields[2] = "min" /\ Fields[3] = "hour"
      /\ Fields[4] = "day" /\ Fields[5] = "mon" /\ Fields[6] = "year"
  BY DEF Fields
<1>5. /\ pc \in {"sec", "min", "hour", "day", "mon", "year"}
      /\ pc' \in DOMAIN Reading /\ pc' # "sec" /\ pc' # "fall" /\ pc' # "done"
      /\ pc \in DOMAIN Reading /\ Reading[pc] = Reading[pc'] + 1
      /\ Reading[pc'] \in Nat
  <2>1. k = 1 \/ k = 2 \/ k = 3 \/ k = 4 \/ k = 5 \/ k = 6
    BY <1>4
  <2> QED
    BY <1>1, <1>4, <2>1 DEF Reading
<1>6. ~OffBus /\ v \in Int
  <2>1. ~OffBus
    BY <1>5, OnBus
  <2>2. v = Bcd(IF pc = "year" THEN rtc.year % 100 ELSE rtc[pc])
    BY <1>2, <2>1 DEF Bus
  <2>3. rtc.year \in Int /\ rtc[pc] \in Int
    BY <1>3, <1>5 DEF CmosOK, DateType
  <2>4. \A n \in Int : Bcd(n) \in Int
    BY DEF Bcd
  <2>5. rtc.year % 100 \in Int
    BY <2>3
  <2> QED
    BY <2>1, <2>2, <2>3, <2>4, <2>5
<1>7. pc = "sec" => v = Bcd(rtc.sec)
  BY <1>2, <1>6 DEF Bus
<1>8. /\ chip' = chip /\ phase' \in 0 .. chip.second - 1 /\ rtc' \in DateType /\ Stands'
  BY <1>1, <1>3, ElapseIs
<1>9. CmosOK'
  <2>1. reg' \in [{"sec", "min", "hour", "day", "mon", "year"} -> Int]
    BY <1>2, <1>3, <1>5, <1>6 DEF CmosOK
  <2> QED
    BY <1>1, <1>3, <1>5, <1>8, <2>1 DEF CmosOK
<1>10. InTime'
  <2> SUFFICES ASSUME chip.update > 0
               PROVE  /\ phase' + Reading[pc'] + (chip'.late - late') <= Off'
                      /\ reg'.sec = Bcd(rtc'.sec)
    BY <1>5, <1>8 DEF InTime
  <2>1. rtc' = rtc /\ phase' <= phase + 1 /\ Off' = Off /\ chip' = chip /\ late' = late
    BY <1>1, <1>5, OnBus
  <2>2. phase + Reading[pc] + (chip.late - late) <= Off
    BY <1>3, <1>5 DEF InTime
  <2>3. reg'.sec = Bcd(rtc.sec)
    <3>1. CASE pc = "sec"
      <4>1. reg'.sec = v
        BY <1>2, <1>3, <3>1 DEF CmosOK
      <4> QED
        BY <1>7, <3>1, <4>1
    <3>2. CASE pc # "sec"
      <4>1. reg'.sec = reg.sec
        BY <1>2, <1>3, <3>2 DEF CmosOK
      <4> QED
        BY <1>3, <1>5, <3>2, <4>1 DEF InTime
    <3> QED
      BY <3>1, <3>2
  <2>4. /\ phase \in Nat /\ chip.late \in Nat /\ late \in Nat /\ Off \in Nat /\ phase' \in Int
    <3>1. phase \in Nat /\ chip.late \in Nat /\ late \in Nat /\ Off \in Nat
      BY <1>3, ChipIs, FlagIs
    <3>2. phase' \in Int
      BY <1>8
    <3> QED
      BY <3>1, <3>2
  <2>5. phase' + Reading[pc'] + (chip.late - late) <= Off
    BY <1>5, <2>1, <2>2, <2>4
  <2> QED
    BY <2>1, <2>3, <2>5
<1> QED
  BY <1>5, <1>8, <1>9, <1>10 DEF CmosInv, Falling, MonotonicAtZero

(* With a clock that goes off the bus the seconds never change during the    *)
(* reads, so the loop that compares them is never taken back.                *)
LEMMA RetryStep ==
  ASSUME CmosInv, Retry
  PROVE  CmosInv'
<1>1. /\ CmosOK /\ Stands /\ InTime /\ Elapse /\ pc = "again" /\ pc' = "sec"
      /\ "again" \in DOMAIN Reading /\ "sec" \in DOMAIN Reading
      /\ late' = late /\ reg' = reg /\ i' = i
  BY DEF CmosInv, Retry, Reading
<1>2. PICK v \in Bus("sec") : v # reg.sec
  BY DEF Retry
<1>3. v = Bcd(rtc.sec)
  BY <1>1, <1>2, OnBus DEF Bus
<1>4. chip.update \in Nat /\ ~(chip.update > 0)
  BY <1>1, <1>2, <1>3, ChipIs DEF InTime
<1>5. /\ chip' = chip /\ phase' \in 0 .. chip.second - 1 /\ rtc' \in DateType /\ Stands'
  BY <1>1, ElapseIs
<1>6. CmosOK'
  BY <1>1, <1>5 DEF CmosOK
<1> QED
  BY <1>1, <1>4, <1>5, <1>6 DEF CmosInv, Falling, InTime, MonotonicAtZero
LEMMA CmosTimeType ==
  ASSUME reg \in [{"sec", "min", "hour", "day", "mon", "year"} -> Int]
  PROVE  CmosTime \in Int
<1> DEFINE v == [f \in DOMAIN reg |-> BcdToBin(reg[f])]
<1>1. \A n \in Int : BcdToBin(n) \in Int
  BY DEF BcdToBin
<1>2. /\ v.sec \in Int /\ v.min \in Int /\ v.hour \in Int
      /\ v.day \in Int /\ v.mon \in Int /\ v.year \in Int
  BY <1>1
<1>3. CmosTime = Mktime(Century(v.year), v.mon, v.day, v.hour, v.min, v.sec)
  BY DEF CmosTime
<1>4. Century(v.year) \in Int
  BY <1>2 DEF Century
<1>5. ASSUME NEW y \in Int, NEW m \in Int, NEW d \in Int, NEW h \in Int, NEW mi \in Int, NEW s \in Int
      PROVE  Mktime(y, m, d, h, mi, s) \in Int
  <2> DEFINE mm == IF m - 2 <= 0 THEN m + 10 ELSE m - 2
             yy == IF m - 2 <= 0 THEN y - 1 ELSE y
             days == (yy \div 4 - yy \div 100 + yy \div 400 + (367 * mm) \div 12 + d)
                       + yy * 365 - 719499
  <2>1. mm \in Int /\ yy \in Int
    OBVIOUS
  <2>2. Mktime(y, m, d, h, mi, s) = ((days * 24 + h) * 60 + mi) * 60 + s
    BY DEF Mktime
  <2> HIDE DEF mm, yy
  <2>3. days \in Int
    <3>1. yy \div 4 \in Int /\ yy \div 100 \in Int /\ yy \div 400 \in Int /\ (367 * mm) \div 12 \in Int
      BY <2>1
    <3> QED
      BY <2>1, <3>1
  <2> HIDE DEF days
  <2> QED
    BY <2>2, <2>3
<1> HIDE DEF v
<1> QED
  BY <1>2, <1>3, <1>4, <1>5

(* What is added to xtime to get the monotonic time is its negative, with    *)
(* its nanoseconds between zero and a second.                                *)
LEMMA TakenBack ==
  ASSUME NEW s \in Int, NEW t \in 0 .. Hz - 1
  PROVE  /\ (s + Normalized(-s, -t).sec) * Hz + t + Normalized(-s, -t).tick = 0
         /\ Normalized(-s, -t).tick \in 0 .. Hz - 1
<1>1. Hz \in Nat \ {0}
  BY CmosAssumption
<1>2. CASE t = 0
  <2>1. Normalized(-s, -t) = [sec |-> -s + 0 - 0, tick |-> -t - (0 - 0) * Hz]
    BY <1>1, <1>2 DEF Normalized
  <2>2. Normalized(-s, -t).sec = -s /\ Normalized(-s, -t).tick = 0
    BY <1>1, <1>2, <2>1
  <2> QED
    BY <1>1, <1>2, <2>2
<1>3. CASE t # 0
  <2>1. (Hz - 1 + t) \div Hz = 1
    BY <1>1, <1>3, DivIs
  <2>2. Normalized(-s, -t) = [sec |-> -s + 0 - 1, tick |-> -t - (0 - 1) * Hz]
    <3>1. Hz - 1 - (-t) = Hz - 1 + t /\ ~(-t > Hz) /\ -t < 0
      BY <1>1, <1>3
    <3> QED
      BY <2>1, <3>1 DEF Normalized
  <2>3. Normalized(-s, -t).sec = -s - 1 /\ Normalized(-s, -t).tick = Hz - t
    BY <1>1, <2>2
  <2>4. (s + (-s - 1)) * Hz + t + (Hz - t) = 0
    <3>1. s + (-s - 1) = -1 /\ (-1) * Hz = -Hz
      BY <1>1
    <3> QED
      BY <1>1, <3>1
  <2> QED
    BY <1>1, <1>3, <2>3, <2>4
<1> QED
  BY <1>2, <1>3

LEMMA FinishStep ==
  ASSUME CmosInv, Finish
  PROVE  CmosInv'
<1>1. /\ CmosOK /\ Stands /\ pc' = "done"
      /\ xtime' = [sec |-> CmosTime, tick |-> InitialTick]
      /\ wallToMonotonic' = Normalized(-xtime'.sec, -xtime'.tick)
      /\ UNCHANGED <<chip, rtc, phase, seconds, late, i, reg>>
  BY DEF CmosInv, Finish
<1>2. xtime'.sec = CmosTime /\ xtime'.tick = InitialTick
  BY <1>1
<1>3. CmosTime \in Int
  BY <1>1, CmosTimeType DEF CmosOK
<1>4. InitialTick \in 0 .. Hz - 1
  <2>1. Hz \in Nat \ {0}
    BY CmosAssumption
  <2>2. \A x \in Int : x % Hz \in 0 .. Hz - 1
    BY <2>1
  <2>3. 2^30 \in Int
    OBVIOUS
  <2>4. (2^30 % Hz) * 4 \in Int
    BY <2>1, <2>2, <2>3
  <2> QED
    BY <2>2, <2>4 DEF InitialTick
<1>5. MonotonicAtZero'
  <2> DEFINE s == CmosTime  t == InitialTick
  <2>1. wallToMonotonic' = Normalized(-s, -t) /\ xtime'.sec = s /\ xtime'.tick = t
    BY <1>1, <1>2
  <2>2. s \in Int /\ t \in 0 .. Hz - 1
    BY <1>3, <1>4
  <2> HIDE DEF s, t
  <2> QED
    BY <2>1, <2>2, TakenBack DEF MonotonicAtZero
<1>6. CmosOK' /\ Stands'
  BY <1>1 DEF CmosOK, Stands
<1> QED
  BY <1>1, <1>5, <1>6 DEF CmosInv, Falling, InTime, Reading
LEMMA LateStep ==
  ASSUME CmosInv, Late
  PROVE  CmosInv'
<1>1. /\ CmosOK /\ Stands /\ Falling /\ InTime /\ Elapse /\ pc # "done"
      /\ late < chip.late /\ late' = late + 1
      /\ pc' = pc /\ i' = i /\ reg' = reg
  BY DEF CmosInv, Late, cpu
<1>2. /\ chip.second \in Nat \ {0} /\ chip.lead \in Nat /\ chip.update \in Nat /\ chip.late \in Nat
      /\ chip.lead + chip.update + chip.late < chip.second
      /\ phase \in Nat /\ phase < chip.second /\ late \in Nat /\ late <= chip.late /\ i \in Nat
  BY <1>1, ChipIs
<1>3. /\ chip' = chip /\ phase' \in 0 .. chip.second - 1 /\ rtc' \in DateType /\ Stands'
      /\ \/ phase' = phase + 1
         \/ phase' = 0 /\ phase = 0
         \/ phase' = 0 /\ phase = chip.second - 1
  BY <1>1, ElapseIs
<1>4. /\ (UpdateFlag <=> phase >= Rises) /\ (UpdateFlag' <=> phase' >= Rises)
      /\ Rises' = Rises /\ Off' = Off /\ Rises \in Nat \ {0} /\ Off \in Nat
      /\ Rises = chip.second - chip.lead - chip.update
      /\ Off = chip.second - chip.update
  BY <1>1, <1>3, FlagIs, FlagNext DEF Rises, Off
<1>5. CmosOK'
  <2>1. late' \in 0 .. chip.late
    BY <1>1, <1>2
  <2> QED
    BY <1>1, <1>3, <2>1 DEF CmosOK
<1>6. Falling'
  <2> SUFFICES ASSUME pc = "fall"
               PROVE  IF UpdateFlag' THEN i <= phase' - Rises ELSE i > 0 => phase' <= late'
    BY <1>1, <1>4 DEF Falling
  <2>1. CASE UpdateFlag
    <3>1. i <= phase - Rises
      BY <1>1, <2>1 DEF Falling
    <3>2. UpdateFlag' => i <= phase' - Rises
      BY <1>2, <1>3, <1>4, <2>1, <3>1
    <3>3. ~UpdateFlag' => phase' <= late'
      BY <1>1, <1>2, <1>3, <1>4, <2>1
    <3> QED
      BY <3>2, <3>3
  <2>2. CASE ~UpdateFlag
    <3>1. i > 0 => phase <= late
      BY <1>1, <2>2 DEF Falling
    <3>2. i > 0 => phase' <= late' /\ late' < Rises
      BY <1>1, <1>2, <1>3, <1>4, <3>1
    <3>3. UpdateFlag' => i <= phase' - Rises
      BY <1>1, <1>2, <1>3, <1>4, <3>2
    <3> QED
      BY <3>2, <3>3
  <2> QED
    BY <2>1, <2>2
<1>7. InTime'
  <2> SUFFICES ASSUME pc \in DOMAIN Reading, chip.update > 0
               PROVE  /\ phase' + Reading[pc] + (chip.late - late') <= Off'
                      /\ pc # "sec" => reg.sec = Bcd(rtc'.sec)
    BY <1>1, <1>3 DEF InTime
  <2>1. rtc' = rtc /\ phase' <= phase + 1 /\ Off' = Off
    BY <1>1, OnBus
  <2>2. /\ phase + Reading[pc] + (chip.late - late) <= Off
        /\ pc # "sec" => reg.sec = Bcd(rtc.sec)
    BY <1>1 DEF InTime
  <2>3. Reading[pc] \in Nat
    BY DEF Reading
  <2>4. phase' \in Int
    BY <1>3
  <2>5. phase' + Reading[pc] + (chip.late - late') <= Off
    BY <1>1, <1>2, <1>4, <2>1, <2>2, <2>3, <2>4
  <2> QED
    BY <2>1, <2>2, <2>5
<1> QED
  BY <1>1, <1>3, <1>5, <1>6, <1>7 DEF CmosInv, MonotonicAtZero

LEMMA CmosStart ==
  ASSUME Init
  PROVE  CmosInv
<1>1. /\ chip \in Chip /\ late = 0 /\ seconds = 0 /\ pc = "rise" /\ i = 0
      /\ reg = [f \in {Fields[k] : k \in DOMAIN Fields} |-> 0]
  BY DEF Init
<1>2. PICK s \in Start : rtc = s[1] /\ phase = s[2] % chip.second
  BY DEF Init
<1>3. /\ Chip \subseteq ChipType /\ Start \subseteq Date \X Nat /\ MaxSeconds # 0
  BY CmosAssumption
<1>4. chip.second \in Nat \ {0} /\ chip.late \in Nat
  BY <1>1, <1>3 DEF ChipType
<1>5. rtc \in DateType
  <2>1. rtc \in Date
    BY <1>2, <1>3
  <2>2. /\ 0 .. 59 \subseteq Int /\ 0 .. 23 \subseteq Int /\ 1 .. 31 \subseteq Int
        /\ 1 .. 12 \subseteq Int /\ 1970 .. 2037 \subseteq Int
    OBVIOUS
  <2> QED
    BY <2>1, <2>2 DEF Date, DateType
<1>6. phase \in 0 .. chip.second - 1
  <2>1. s[2] \in Int
    BY <1>2, <1>3
  <2> QED
    BY <1>2, <1>4, <2>1, DivIs
<1>7. reg \in [{"sec", "min", "hour", "day", "mon", "year"} -> Int]
  <2>1. {Fields[k] : k \in DOMAIN Fields} = {"sec", "min", "hour", "day", "mon", "year"}
    <3>1. DOMAIN Fields = {1, 2, 3, 4, 5, 6}
      BY DEF Fields
    <3>2. /\ Fields[1] = "sec" /\ Fields[2] = "min" /\ Fields[3] = "hour"
          /\ Fields[4] = "day" /\ Fields[5] = "mon" /\ Fields[6] = "year"
      BY DEF Fields
    <3> QED
      BY <3>1, <3>2
  <2> QED
    BY <1>1, <2>1
<1>8. CmosOK
  BY <1>1, <1>4, <1>5, <1>6, <1>7 DEF CmosOK
<1> QED
  BY <1>1, <1>3, <1>8 DEF CmosInv, Stands, Falling, InTime, Reading, MonotonicAtZero

LEMMA CmosStep ==
  ASSUME CmosInv, [ClockNext]_allVars
  PROVE  CmosInv'
<1>1. CASE Boot
  <2>1. Next
    BY <1>1 DEF Boot
  <2>2. CASE Rise
    BY <2>2, RiseStep
  <2>3. CASE Fall
    BY <2>3, FallStep
  <2>4. CASE Read
    BY <2>4, ReadStep
  <2>5. CASE Retry
    BY <2>5, RetryStep
  <2>6. CASE Finish
    BY <2>6, FinishStep
  <2>7. CASE Late
    BY <2>7, LateStep
  <2>8. CASE UNCHANGED vars
    BY <2>8 DEF vars, CmosInv, CmosOK, Stands, Falling, InTime, MonotonicAtZero,
         UpdateFlag, Rises, Off
  <2> QED
    BY <2>1, <2>2, <2>3, <2>4, <2>5, <2>6, <2>7, <2>8 DEF Next, Cpu, Done
<1>2. CASE UNCHANGED vars
  BY <1>2 DEF vars, CmosInv, CmosOK, Stands, Falling, InTime, MonotonicAtZero,
       UpdateFlag, Rises, Off
<1>3. Boot \/ UNCHANGED vars
  BY DEF ClockNext, allVars, local_irq_enable, Count, timer_interrupt, Toggle, Latch,
       ResetLatch, Compare, Overflow, Load, LoadRest
<1> QED
  BY <1>1, <1>2, <1>3

(* What is known of the reading of the CMOS clock holds in every state, also *)
(* while the ticks go on after it.                                           *)
THEOREM CmosInductive == ClockSpec => []CmosInv
<1>1. ClockInit => CmosInv
  BY CmosStart DEF ClockInit
<1>2. CmosInv /\ [ClockNext]_allVars => CmosInv'
  BY CmosStep
<1> QED
  BY <1>1, <1>2, PTL DEF ClockSpec

(* The registers are never read while the clock writes them, on whatever     *)
(* turn the loop before gave up and wherever the machine loses time: after   *)
(* the flag has fallen, all of them and the seconds once more are on the bus *)
(* when they are read.                                                       *)
THEOREM RegistersOnBus == ClockSpec => []ReadOnBus
<1>1. CmosInv => ReadOnBus
  <2> SUFFICES ASSUME CmosInv, pc \notin {"rise", "fall", "done"}
               PROVE  ~OffBus
    BY DEF ReadOnBus
  <2>1. pc \in DOMAIN Reading
    BY DEF CmosInv, CmosOK
  <2> QED
    BY <2>1, OnBus
<1> QED
  BY <1>1, CmosInductive, PTL

(* The monotonic time starts at zero: what is added to xtime is its negative *)
(* brought to nanoseconds between zero and a second, whatever the registers  *)
(* said and whatever the frequency is.                                       *)
THEOREM MonotonicFromZero == ClockSpec => []MonotonicAtZero
<1>1. CmosInv => MonotonicAtZero
  BY DEF CmosInv
<1> QED
  BY <1>1, CmosInductive, PTL

-----------------------------------------------------------------------------
(* A set of numbers has a least one: two functions that obey the same        *)
(* recursion would differ for the first time somewhere.                      *)
LEMMA Least ==
  ASSUME NEW T \in SUBSET Nat, NEW t \in T
  PROVE  \E x \in T : \A y \in T : x <= y
<1> DEFINE R == StrictSubsetOrdering(Nat)
           F == {0 .. x : x \in T}
<1>1. IsWellFoundedOn(R, FiniteSubsetsOf(Nat))
  BY FS_StrictSubsetOrderingWellFounded
<1>2. F \subseteq FiniteSubsetsOf(Nat) /\ F # {}
  <2>1. \A x \in T : IsFiniteSet(0 .. x) /\ 0 .. x \in SUBSET Nat
    BY FS_Interval
  <2>2. QED
    BY <2>1 DEF FiniteSubsetsOf
<1>3. \E f \in F : \A g \in F : <<g, f>> \notin R
  <2> HIDE DEF R, F
  <2>1. QED
    BY <1>1, <1>2, WFMin
<1>4. PICK x \in T : \A y \in T : <<0 .. y, 0 .. x>> \notin R
  BY <1>3
<1>5. ASSUME NEW y \in T, y < x
      PROVE  FALSE
  <2>1. 0 .. y \in SUBSET Nat /\ 0 .. x \in SUBSET Nat /\ 0 .. y \subseteq 0 .. x
    BY <1>5
  <2>2. x \in 0 .. x /\ x \notin 0 .. y
    BY <1>5
  <2>3. <<0 .. y, 0 .. x>> \in R
    BY <2>1, <2>2 DEF StrictSubsetOrdering
  <2>4. QED
    BY <1>4, <2>3
<1>6. QED
  BY <1>4, <1>5

(* The days from 1970 to a year and from its first to that of a month, as    *)
(* numbers; the calendar adds them up, mktime computes them from a year that *)
(* begins in March.                                                          *)
YearDays(y) ==
  365 * (y - 1970) + ((y - 1) \div 4 - 492) - ((y - 1) \div 100 - 19) + ((y - 1) \div 400 - 4)
LeapDay(y) == IF Leap(y) THEN 1 ELSE 0
Before == <<0, 31, 59, 90, 120, 151, 181, 212, 243, 273, 304, 334>>
MonthsDays(y, m) == Before[m] + (IF m > 2 THEN LeapDay(y) ELSE 0)

LEMMA YearMore ==
  ASSUME NEW y \in 1970 .. 2040
  PROVE  YearDays(y) \in Int /\ YearDays(y + 1) = YearDays(y) + 365 + LeapDay(y)
<1>1. PICK a \in Int, b \in Int, c \in Int, e \in Int, f \in Int, g \in Int :
        /\ a = (y - 1) \div 4 /\ b = y \div 4 /\ c = (y - 1) \div 100 /\ e = y \div 100
        /\ f = (y - 1) \div 400 /\ g = y \div 400
  OBVIOUS
<1>2. b = a + IF (y % 4) = 0 THEN 1 ELSE 0
  BY <1>1
<1>3. e = c + IF (y % 100) = 0 THEN 1 ELSE 0
  BY <1>1
<1>4. g = f + IF (y % 400) = 0 THEN 1 ELSE 0
  BY <1>1
<1>5. LeapDay(y) = (b - a) - (e - c) + (g - f)
  <2>1. ((y % 100) = 0 => (y % 4) = 0) /\ ((y % 400) = 0 => (y % 100) = 0)
    OBVIOUS
  <2>2. QED
    BY <1>1, <1>2, <1>3, <1>4, <2>1 DEF LeapDay, Leap
<1>6. YearDays(y) = 365 * (y - 1970) + (a - 492) - (c - 19) + (f - 4)
  BY <1>1 DEF YearDays
<1>7. YearDays(y + 1) = 365 * (y + 1 - 1970) + (b - 492) - (e - 19) + (g - 4)
  <2>1. y + 1 - 1 = y
    OBVIOUS
  <2>2. QED
    BY <1>1, <2>1 DEF YearDays
<1>8. LeapDay(y) \in Int
  BY DEF LeapDay
<1>9. QED
  BY <1>1, <1>5, <1>6, <1>7, <1>8

LEMMA YearStartIs ==
  ASSUME NEW y \in 1970 .. 2038
  PROVE  YearStart[y] = YearDays(y)
<1> DEFINE Eq(g) == g = [x \in 1970 .. 2038 |->
                           IF x = 1970 THEN 0 ELSE g[x - 1] + (IF Leap(x - 1) THEN 366 ELSE 365)]
           G == CHOOSE g : Eq(g)
           f == [x \in 1970 .. 2038 |-> YearDays(x)]
<1>1. YearDays(1970) = 0
  BY DEF YearDays
<1>2. \A x \in 1971 .. 2038 : YearDays(x) = YearDays(x - 1) + (IF Leap(x - 1) THEN 366 ELSE 365)
  <2>1. SUFFICES ASSUME NEW x \in 1971 .. 2038
                 PROVE  YearDays(x) = YearDays(x - 1) + (IF Leap(x - 1) THEN 366 ELSE 365)
    OBVIOUS
  <2>2. PICK z \in 1970 .. 2040 : z = x - 1 /\ x = z + 1
    OBVIOUS
  <2>3. YearDays(z) \in Int /\ YearDays(z + 1) = YearDays(z) + 365 + LeapDay(z)
    BY YearMore
  <2>4. QED
    BY <2>2, <2>3 DEF LeapDay
<1>3. Eq(f)
  <2>1. \A x \in 1970 .. 2038 : x # 1970 => x \in 1971 .. 2038 /\ x - 1 \in 1970 .. 2038
    OBVIOUS
  <2>2. \A x \in 1970 .. 2038 :
          YearDays(x) = IF x = 1970 THEN 0 ELSE f[x - 1] + (IF Leap(x - 1) THEN 366 ELSE 365)
    BY <1>1, <1>2, <2>1
  <2>3. QED
    BY <2>2
<1>4. Eq(G)
  <2> HIDE DEF Eq
  <2>1. QED
    BY <1>3
<1>5. YearStart = G
  BY DEF YearStart
<1> HIDE DEF G
<1>6. PICK g : g = G
  OBVIOUS
<1>7. \A x \in 1970 .. 2038 :
        g[x] = IF x = 1970 THEN 0 ELSE g[x - 1] + (IF Leap(x - 1) THEN 366 ELSE 365)
  BY <1>4, <1>6
<1> DEFINE T == {x \in Nat : x \in 1970 .. 2038 /\ g[x] # YearDays(x)}
<1>8. SUFFICES ASSUME y \in T PROVE FALSE
  BY <1>5, <1>6
<1>9. T \in SUBSET Nat
  OBVIOUS
<1>10. PICK x \in T : \A z \in T : x <= z
  <2> HIDE DEF T
  <2>1. QED
    BY <1>8, <1>9, Least
<1>11. x \in 1970 .. 2038 /\ g[x] # YearDays(x)
  OBVIOUS
<1>12. CASE x = 1970
  BY <1>1, <1>7, <1>11, <1>12
<1>13. CASE x # 1970
  <2>1. x \in 1971 .. 2038 /\ x - 1 \in 1970 .. 2038 /\ x - 1 \in Nat /\ ~ x <= x - 1
    BY <1>11, <1>13
  <2>2. g[x - 1] = YearDays(x - 1)
    BY <1>10, <2>1
  <2>3. g[x] = g[x - 1] + (IF Leap(x - 1) THEN 366 ELSE 365)
    BY <1>7, <1>11, <1>13
  <2>4. QED
    BY <1>2, <1>11, <2>1, <2>2, <2>3
<1>14. QED
  BY <1>12, <1>13

LEMMA MonthStartIs ==
  ASSUME NEW y, NEW m \in 1 .. 12
  PROVE  MonthStart(y)[m] = MonthsDays(y, m)
<1> DEFINE Eq(g) == g = [x \in 1 .. 12 |-> IF x = 1 THEN 0 ELSE g[x - 1] + MonthDays(y, x - 1)]
           G == CHOOSE g : Eq(g)
           f == [x \in 1 .. 12 |-> MonthsDays(y, x)]
<1>1. MonthsDays(y, 1) = 0
  BY DEF MonthsDays, Before
<1>2. LeapDay(y) \in Int
  BY DEF LeapDay
<1>3. \A x \in 2 .. 12 : MonthsDays(y, x) = MonthsDays(y, x - 1) + MonthDays(y, x - 1)
  <2>1. SUFFICES ASSUME NEW x \in 2 .. 12
                 PROVE  MonthsDays(y, x) = MonthsDays(y, x - 1) + MonthDays(y, x - 1)
    OBVIOUS
  <2>2. MonthDays(y, 2) = 28 + LeapDay(y)
    BY DEF MonthDays, LeapDay
  <2>3. CASE x = 3
    BY <1>2, <2>2, <2>3 DEF MonthsDays, Before
  <2>4. CASE x # 3
    <3>1. x \in {2, 4, 5, 6, 7, 8, 9, 10, 11, 12}
      BY <2>4
    <3>2. QED
      BY <1>2, <3>1 DEF MonthsDays, MonthDays, Before
  <2>5. QED
    BY <2>3, <2>4
<1>4. Eq(f)
  <2>1. \A x \in 1 .. 12 : x # 1 => x \in 2 .. 12 /\ x - 1 \in 1 .. 12
    OBVIOUS
  <2>2. \A x \in 1 .. 12 :
          MonthsDays(y, x) = IF x = 1 THEN 0 ELSE f[x - 1] + MonthDays(y, x - 1)
    BY <1>1, <1>3, <2>1
  <2>3. QED
    BY <2>2
<1>5. Eq(G)
  <2> HIDE DEF Eq
  <2>1. QED
    BY <1>4
<1>6. MonthStart(y) = G
  BY DEF MonthStart
<1> HIDE DEF G
<1>7. PICK g : g = G
  OBVIOUS
<1>8. \A x \in 1 .. 12 : g[x] = IF x = 1 THEN 0 ELSE g[x - 1] + MonthDays(y, x - 1)
  BY <1>5, <1>7
<1> DEFINE T == {x \in Nat : x \in 1 .. 12 /\ g[x] # MonthsDays(y, x)}
<1>9. SUFFICES ASSUME m \in T PROVE FALSE
  BY <1>6, <1>7
<1>10. T \in SUBSET Nat
  OBVIOUS
<1>11. PICK x \in T : \A z \in T : x <= z
  <2> HIDE DEF T
  <2>1. QED
    BY <1>9, <1>10, Least
<1>12. x \in 1 .. 12 /\ g[x] # MonthsDays(y, x)
  OBVIOUS
<1>13. CASE x = 1
  BY <1>1, <1>8, <1>12, <1>13
<1>14. CASE x # 1
  <2>1. x \in 2 .. 12 /\ x - 1 \in 1 .. 12 /\ x - 1 \in Nat /\ ~ x <= x - 1
    BY <1>12, <1>14
  <2>2. g[x - 1] = MonthsDays(y, x - 1)
    BY <1>11, <2>1
  <2>3. g[x] = g[x - 1] + MonthDays(y, x - 1)
    BY <1>8, <1>12, <1>14
  <2>4. QED
    BY <1>3, <1>12, <2>1, <2>2, <2>3
<1>15. QED
  BY <1>13, <1>14

(* mktime is right about every day of a month.                               *)
Years == 1970 .. 2037
Counted(y, m, d, h, mi, s) ==
  Mktime(y, m, d, h, mi, s)
    = (((YearDays(y) + MonthsDays(y, m) + d - 1) * 24 + h) * 60 + mi) * 60 + s

LEMMA MktimeIs ==
  ASSUME NEW y \in Years, NEW m \in 1 .. 12, NEW d \in Int, NEW h \in Int, NEW mi \in Int,
         NEW s \in Int
  PROVE  Counted(y, m, d, h, mi, s)
<1> USE DEF Years
<1> DEFINE mm == IF m - 2 <= 0 THEN m + 10 ELSE m - 2
           yy == IF m - 2 <= 0 THEN y - 1 ELSE y
           days == (yy \div 4 - yy \div 100 + yy \div 400 + (367 * mm) \div 12 + d)
                     + yy * 365 - 719499
<1>1. Mktime(y, m, d, h, mi, s) = ((days * 24 + h) * 60 + mi) * 60 + s
  BY DEF Mktime
<1>2. PICK u \in Int : u = YearDays(y) /\ YearDays(y + 1) = u + 365 + LeapDay(y)
  BY YearMore
<1>3. /\ u = 365 * (y - 1970) + ((y - 1) \div 4 - 492) - ((y - 1) \div 100 - 19)
               + ((y - 1) \div 400 - 4)
      /\ u + 365 + LeapDay(y)
           = 365 * (y + 1 - 1970) + (y \div 4 - 492) - (y \div 100 - 19) + (y \div 400 - 4)
  <2>1. y + 1 - 1 = y
    OBVIOUS
  <2>2. QED
    BY <1>2, <2>1 DEF YearDays
<1>4. LeapDay(y) \in Int
  BY DEF LeapDay
<1>5. days = u + MonthsDays(y, m) + d - 1
  <2>1. CASE m \in {1, 2}
    <3>1. PICK a \in Int : a = (y - 1) \div 4 - (y - 1) \div 100 + (y - 1) \div 400
      OBVIOUS
    <3>2. u = 365 * (y - 1970) + a - 477
      BY <1>3, <3>1
    <3>3. PICK b \in Int : b = (367 * mm) \div 12
      BY <2>1
    <3>4. yy = y - 1 /\ b = (IF m = 1 THEN 336 ELSE 367) /\ MonthsDays(y, m) = IF m = 1 THEN 0 ELSE 31
      BY <2>1, <3>3 DEF MonthsDays, Before
    <3>5. days = a + b + d + (y - 1) * 365 - 719499
      BY <3>1, <3>3, <3>4
    <3> HIDE DEF days
    <3>6. QED
      BY <2>1, <3>2, <3>4, <3>5
  <2>2. CASE m \in 3 .. 12
    <3>1. PICK a \in Int : a = y \div 4 - y \div 100 + y \div 400
      OBVIOUS
    <3>2. u + 365 + LeapDay(y) = 365 * (y - 1969) + a - 477
      BY <1>3, <1>4, <3>1
    <3>3. PICK b \in Int : b = (367 * (m - 2)) \div 12
      BY <2>2
    <3>4. yy = y /\ mm = m - 2 /\ b = Before[m] - 29
      <4>1. m \in {3, 4, 5, 6, 7, 8, 9, 10, 11, 12}
        BY <2>2
      <4>2. QED
        BY <3>3, <4>1 DEF Before
    <3>5. Before[m] \in Int /\ MonthsDays(y, m) = Before[m] + LeapDay(y)
      <4>1. m \in {3, 4, 5, 6, 7, 8, 9, 10, 11, 12}
        BY <2>2
      <4>2. QED
        BY <4>1 DEF MonthsDays, Before
    <3>6. days = a + b + d + y * 365 - 719499
      BY <3>1, <3>3, <3>4
    <3> HIDE DEF days
    <3>7. QED
      BY <1>4, <3>2, <3>4, <3>5, <3>6
  <2>3. QED
    BY <2>1, <2>2
<1> HIDE DEF days
<1>6. QED
  BY <1>1, <1>2, <1>5 DEF Counted

LEMMA BcdIs ==
  ASSUME NEW n \in 0 .. 99
  PROVE  Bcd(n) \in Int /\ BcdToBin(Bcd(n)) = n
<1>1. PICK q \in Int, r \in Int : q = n \div 10 /\ r = (n % 10)
  OBVIOUS
<1>2. q \in 0 .. 9 /\ r \in 0 .. 9 /\ n = 10 * q + r
  BY <1>1
<1>3. PICK v \in Int : v = q * 16 + r
  OBVIOUS
<1>4. v \div 16 = q /\ (v % 16) = r
  BY <1>2, <1>3
<1>5. Bcd(n) = v
  BY <1>1, <1>3 DEF Bcd
<1>6. QED
  BY <1>2, <1>3, <1>4, <1>5 DEF BcdToBin

LEMMA CenturyIs ==
  ASSUME NEW y \in 1970 .. 2037
  PROVE  (y % 100) \in 0 .. 99 /\ Century(y % 100) = y
<1>1. PICK r \in Int : r = (y % 100)
  OBVIOUS
<1>2. r = IF y < 2000 THEN y - 1900 ELSE y - 2000
  BY <1>1
<1>3. Century(r) = y
  BY <1>2 DEF Century
<1>4. QED
  BY <1>1, <1>2, <1>3

-----------------------------------------------------------------------------
(* What is known of the registers that have been read.                       *)
Value(f) == IF f = "year" THEN rtc.year % 100 ELSE rtc[f]
InMinute == rtc.sec \in 0 .. 59
(* n seconds have ended since the seconds were read, at phase p and second s,*)
(* and none has if they read the same now: there were too few reads for      *)
(* sixty.                                                                    *)
Ended(n, p, s) ==
  /\ n \in Nat /\ p \in 0 .. chip.second - 1 /\ s \in 0 .. 59
  /\ n * chip.second + phase <= p + (7 - Reading[pc]) + late
  /\ reg.sec = Bcd(s) /\ rtc.sec = (s + n) % 60
  /\ n = 0 => \A f \in DOMAIN reg : Reading[f] > Reading[pc] => reg[f] = Bcd(Value(f))
ReadSoFar == pc \in DOMAIN Reading /\ pc # "sec" => \E n, p, s \in Nat : Ended(n, p, s)
Told == pc = "done" /\ rtc \in Date => xtime.sec = Epoch(rtc)
TimeInv == InMinute /\ ReadSoFar /\ Told

LEMMA TimeIs ==
  ASSUME rtc \in Date, DOMAIN reg = {"sec", "min", "hour", "day", "mon", "year"},
         \A f \in DOMAIN reg : reg[f] = Bcd(Value(f))
  PROVE  CmosTime = Epoch(rtc)
<1> DEFINE v == [f \in DOMAIN reg |-> BcdToBin(reg[f])]
<1>1. /\ rtc.sec \in 0 .. 59 /\ rtc.min \in 0 .. 59 /\ rtc.hour \in 0 .. 23
      /\ rtc.day \in 1 .. 31 /\ rtc.mon \in 1 .. 12 /\ rtc.year \in 1970 .. 2037
  BY DEF Date
<1>2. CmosTime = Mktime(Century(v.year), v.mon, v.day, v.hour, v.min, v.sec)
  BY DEF CmosTime
<1>3. \A f \in {"sec", "min", "hour", "day", "mon", "year"} : v[f] = BcdToBin(Bcd(Value(f)))
  OBVIOUS
<1>4. \A n \in 0 .. 99 : BcdToBin(Bcd(n)) = n
  BY BcdIs
<1> HIDE DEF v
<1>5. v.sec = rtc.sec /\ v.min = rtc.min /\ v.hour = rtc.hour
  BY <1>1, <1>3, <1>4 DEF Value
<1>6. v.day = rtc.day /\ v.mon = rtc.mon
  BY <1>1, <1>3, <1>4 DEF Value
<1>7. (rtc.year % 100) \in 0 .. 99 /\ Century(rtc.year % 100) = rtc.year
  BY <1>1, CenturyIs
<1>8. Century(v.year) = rtc.year
  <2>1. v["year"] = BcdToBin(Bcd(rtc.year % 100))
    BY <1>3 DEF Value
  <2>2. v["year"] = rtc.year % 100
    BY <1>4, <1>7, <2>1
  <2>3. QED
    BY <1>7, <2>2
<1>9. PICK y, m, d, h, mi, s :
        /\ y = rtc.year /\ m = rtc.mon /\ d = rtc.day /\ h = rtc.hour /\ mi = rtc.min /\ s = rtc.sec
  OBVIOUS
<1>15. y \in Years /\ m \in 1 .. 12 /\ d \in Int /\ h \in Int /\ mi \in Int /\ s \in Int
  BY <1>1, <1>9 DEF Years
<1>10. CmosTime = Mktime(y, m, d, h, mi, s)
  BY <1>2, <1>5, <1>6, <1>8, <1>9
<1>11. Mktime(y, m, d, h, mi, s)
         = (((YearDays(y) + MonthsDays(y, m) + d - 1) * 24 + h) * 60 + mi) * 60 + s
  <2>1. Counted(y, m, d, h, mi, s)
    BY <1>15, MktimeIs
  <2>2. QED
    BY <2>1 DEF Counted
<1>12. YearStart[y] = YearDays(y) /\ MonthStart(y)[m] = MonthsDays(y, m)
  <2>1. y \in 1970 .. 2038
    BY <1>15 DEF Years
  <2>2. QED
    BY <1>15, <2>1, YearStartIs, MonthStartIs
<1>13. Epoch(rtc) = (((YearStart[y] + MonthStart(y)[m] + d - 1) * 24 + h) * 60 + mi) * 60 + s
  BY <1>9 DEF Epoch
<1>14. QED
  BY <1>10, <1>11, <1>12, <1>13

LEMMA NextMinute ==
  ASSUME NEW d \in DateType, d.sec \in 0 .. 59
  PROVE  NextSecond(d).sec = (d.sec + 1) % 60
<1>1. d.sec < 59 => NextSecond(d).sec = d.sec + 1
  BY DEF NextSecond, DateType
<1>2. ~ d.sec < 59 => NextSecond(d).sec = 0
  BY DEF NextSecond, DateType
<1>3. PICK s \in 0 .. 59 : s = d.sec
  OBVIOUS
<1>4. (s + 1) % 60 = IF s < 59 THEN s + 1 ELSE 0
  OBVIOUS
<1>5. QED
  BY <1>1, <1>2, <1>3, <1>4

(* A read's time, counted.                                                   *)
LEMMA ElapseCounts ==
  ASSUME CmosOK, Stands, InMinute, Elapse
  PROVE  /\ chip' = chip /\ phase' \in Nat /\ InMinute'
         /\ \/ rtc' = rtc /\ phase' <= phase + 1
            \/ rtc'.sec = (rtc.sec + 1) % 60 /\ phase' = 0 /\ phase + 1 = chip.second
<1>1. /\ chip.second \in Nat \ {0} /\ phase \in 0 .. chip.second - 1 /\ rtc \in DateType
      /\ chip' = chip
  BY ChipIs DEF CmosOK, DateType, Elapse
<1>2. CASE seconds = MaxSeconds
  <2>1. phase = 0 /\ UNCHANGED <<rtc, phase, seconds>>
    BY <1>2 DEF Elapse, Stands
  <2>2. QED
    BY <1>1, <2>1 DEF InMinute
<1>3. CASE seconds # MaxSeconds
  <2>1. /\ phase' = (phase + 1) % chip.second
        /\ rtc' = IF phase' = 0 THEN NextSecond(rtc) ELSE rtc
    BY <1>3 DEF Elapse
  <2>2. phase' = IF phase + 1 = chip.second THEN 0 ELSE phase + 1
    BY <1>1, <2>1, ModNext
  <2>3. CASE phase + 1 = chip.second
    <3>1. rtc'.sec = (rtc.sec + 1) % 60
      BY <1>1, <2>1, <2>2, <2>3, NextMinute DEF InMinute
    <3>2. rtc'.sec \in 0 .. 59
      BY <3>1 DEF InMinute
    <3>3. QED
      BY <1>1, <2>2, <2>3, <3>1, <3>2 DEF InMinute
  <2>4. CASE phase + 1 # chip.second
    <3>1. rtc' = rtc /\ phase' = phase + 1
      BY <1>1, <2>1, <2>2, <2>4
    <3>2. QED
      BY <1>1, <3>1 DEF InMinute
  <2>5. QED
    BY <2>3, <2>4
<1>4. QED
  BY <1>2, <1>3

LEMMA Later ==
  ASSUME CmosOK, Stands, InMinute, Elapse, NEW n \in Nat, NEW p \in Nat, NEW s \in 0 .. 59,
         NEW t \in Nat, n * chip.second + phase <= p + t, rtc.sec = (s + n) % 60
  PROVE  \E k \in Nat : /\ k * chip.second + phase' <= p + t + 1 /\ rtc'.sec = (s + k) % 60
                        /\ (k = n /\ rtc' = rtc) \/ k = n + 1
<1>1. PICK q, h, x, y : q = chip.second /\ h = phase /\ x = phase' /\ y = rtc.sec
  OBVIOUS
<1>2. q \in Nat \ {0} /\ h \in Nat /\ x \in Nat /\ y \in 0 .. 59
  BY <1>1, ChipIs, ElapseCounts DEF InMinute
<1>3. \/ rtc' = rtc /\ x <= h + 1
      \/ rtc'.sec = (y + 1) % 60 /\ x = 0 /\ h + 1 = q
  BY <1>1, ElapseCounts
<1>4. CASE rtc' = rtc /\ x <= h + 1
  <2>1. PICK z \in Nat : z = n * q
    BY <1>2
  <2>2. z + h <= p + t
    BY <1>1, <2>1
  <2>3. z + x <= p + t + 1
    BY <1>2, <1>4, <2>2
  <2>4. n * chip.second + phase' <= p + t + 1
    BY <1>1, <2>1, <2>3
  <2>5. QED
    BY <1>4, <2>4
<1>5. CASE rtc'.sec = (y + 1) % 60 /\ x = 0 /\ h + 1 = q
  <2>1. PICK z \in Nat, w \in Nat : z = n * q /\ w = (n + 1) * q
    BY <1>2
  <2>2. w = z + q
    BY <1>2, <2>1
  <2>3. z + h <= p + t
    BY <1>1, <2>1
  <2>4. w + x <= p + t + 1
    BY <1>2, <1>5, <2>2, <2>3
  <2>5. rtc'.sec = (s + (n + 1)) % 60
    <3>1. PICK a \in Nat : a = s + n
      OBVIOUS
    <3>2. y = (a % 60)
      BY <1>1, <3>1
    <3>3. ((a % 60) + 1) % 60 = (a + 1) % 60
      OBVIOUS
    <3>4. a + 1 = s + (n + 1)
      BY <3>1
    <3>5. QED
      BY <1>5, <3>2, <3>3, <3>4
  <2>6. (n + 1) * chip.second + phase' <= p + t + 1
    BY <1>1, <2>1, <2>4
  <2>7. QED
    BY <2>5, <2>6
<1>6. QED
  BY <1>3, <1>4, <1>5

LEMMA ReadTime ==
  ASSUME CmosInv, TimeInv, Read
  PROVE  TimeInv'
<1>1. PICK k \in DOMAIN Fields :
        /\ pc = Fields[k]
        /\ \E v \in Bus(pc) : reg' = [reg EXCEPT ![pc] = v]
        /\ pc' = IF k < Len(Fields) THEN Fields[k + 1] ELSE "again"
        /\ Elapse
        /\ UNCHANGED <<late, i, xtime, wallToMonotonic>>
  BY Zenon DEF Read
<1>2. PICK v \in Bus(pc) : reg' = [reg EXCEPT ![pc] = v]
  BY <1>1, Zenon
<1>3. CmosOK /\ Stands /\ InMinute /\ ReadSoFar
  BY DEF CmosInv, TimeInv
<1>4. /\ k \in 1 .. 6 /\ Len(Fields) = 6
      /\ Fields[1] = "sec" /\ Fields[2] = "min" /\ Fields[3] = "hour"
      /\ Fields[4] = "day" /\ Fields[5] = "mon" /\ Fields[6] = "year"
  BY DEF Fields
<1>5. /\ pc \in {"sec", "min", "hour", "day", "mon", "year"}
      /\ pc' \in DOMAIN Reading /\ pc' # "sec" /\ pc' # "done"
      /\ pc \in DOMAIN Reading /\ Reading[pc] = Reading[pc'] + 1
      /\ Reading[pc'] \in Nat /\ Reading[pc] <= 7
      /\ \A f \in {"sec", "min", "hour", "day", "mon", "year"} :
           Reading[f] > Reading[pc'] => f = pc \/ Reading[f] > Reading[pc]
  <2>1. k = 1 \/ k = 2 \/ k = 3 \/ k = 4 \/ k = 5 \/ k = 6
    BY <1>4
  <2>2. QED
    BY <1>1, <1>4, <2>1 DEF Reading
<1>6. v = Bcd(Value(pc))
  <2>1. ~OffBus
    BY <1>5, OnBus
  <2>2. QED
    BY <1>2, <2>1 DEF Bus, Value
<1>7. chip' = chip /\ phase' \in Nat /\ InMinute' /\ late' = late /\ late \in Nat /\ phase \in Nat
      /\ chip.second \in Nat \ {0} /\ phase < chip.second
  BY <1>1, <1>3, ElapseCounts, ChipIs
<1>8. DOMAIN reg = {"sec", "min", "hour", "day", "mon", "year"} /\ DOMAIN reg' = DOMAIN reg
      /\ \A f \in DOMAIN reg : reg'[f] = IF f = pc THEN v ELSE reg[f]
  BY <1>2, <1>3 DEF CmosOK
<1>9. \E n, p, s \in Nat : Ended(n, p, s)'
  <2>1. CASE pc = "sec"
    <3>1. PICK n \in Nat, p \in Nat, s \in 0 .. 59, t \in Nat : n = 0 /\ p = phase /\ s = rtc.sec /\ t = 0
      BY <1>3, <1>7 DEF InMinute
    <3>2. n * chip.second + phase <= p + t /\ rtc.sec = (s + n) % 60
      BY <1>7, <3>1
    <3>3. PICK m \in Nat : /\ m * chip.second + phase' <= p + t + 1 /\ rtc'.sec = (s + m) % 60
                           /\ (m = n /\ rtc' = rtc) \/ m = n + 1
      BY <1>1, <1>3, <3>2, Later
    <3>4. reg'.sec = Bcd(s)
      BY <1>6, <1>8, <2>1, <3>1 DEF Value
    <3>5. m = 0 => \A f \in DOMAIN reg' : Reading[f] > Reading[pc'] => reg'[f] = Bcd(Value(f)')
      <4>1. SUFFICES ASSUME m = 0, NEW f \in DOMAIN reg', Reading[f] > Reading[pc']
                     PROVE  reg'[f] = Bcd(Value(f)')
        OBVIOUS
      <4>2. f = "sec"
        BY <1>1, <1>4, <1>5, <1>8, <2>1, <4>1 DEF Reading
      <4>3. rtc' = rtc
        BY <3>1, <3>3, <4>1
      <4>4. QED
        BY <1>6, <1>8, <2>1, <4>2, <4>3 DEF Value
    <3>6. m * chip'.second + phase' <= p + (7 - Reading[pc']) + late'
      <4>1. PICK z \in Nat, x \in Nat, l \in Nat : z = m * chip.second /\ x = phase' /\ l = late
        BY <1>7
      <4>2. z + x <= p + 1
        BY <3>1, <3>3, <4>1
      <4>3. 7 - Reading[pc'] = 1
        BY <1>5, <2>1 DEF Reading
      <4>4. z + x <= p + 1 + l
        BY <4>1, <4>2
      <4>5. QED
        BY <1>7, <4>1, <4>3, <4>4
    <3>7. p \in 0 .. chip'.second - 1
      BY <1>7, <3>1
    <3>8. Ended(m, p, s)'
      BY <1>7, <3>3, <3>4, <3>5, <3>6, <3>7 DEF Ended, Reading, Bcd
    <3>9. s \in Nat
      OBVIOUS
    <3>10. QED
      BY <3>8, <3>9
  <2>2. CASE pc # "sec"
    <3>1. PICK n \in Nat, p \in Nat, s \in Nat : Ended(n, p, s)
      BY <1>3, <1>5, <2>2 DEF ReadSoFar
    <3>2. /\ s \in 0 .. 59 /\ p \in 0 .. chip.second - 1 /\ reg.sec = Bcd(s)
          /\ n * chip.second + phase <= p + (7 - Reading[pc]) + late /\ rtc.sec = (s + n) % 60
          /\ n = 0 => \A f \in DOMAIN reg : Reading[f] > Reading[pc] => reg[f] = Bcd(Value(f))
      BY <3>1 DEF Ended
    <3>3. PICK t \in Nat : t = (7 - Reading[pc]) + late
      <4>1. Reading[pc] \in Nat
        BY <1>5
      <4>2. QED
        BY <1>5, <1>7, <4>1
    <3>4. n * chip.second + phase <= p + t
      BY <1>5, <1>7, <3>2, <3>3
    <3>5. PICK m \in Nat : /\ m * chip.second + phase' <= p + t + 1 /\ rtc'.sec = (s + m) % 60
                           /\ (m = n /\ rtc' = rtc) \/ m = n + 1
      BY <1>1, <1>3, <3>2, <3>4, Later
    <3>6. reg'.sec = Bcd(s)
      BY <1>8, <2>2, <3>2
    <3>7. m = 0 => \A f \in DOMAIN reg' : Reading[f] > Reading[pc'] => reg'[f] = Bcd(Value(f)')
      <4>1. SUFFICES ASSUME m = 0, NEW f \in DOMAIN reg', Reading[f] > Reading[pc']
                     PROVE  reg'[f] = Bcd(Value(f)')
        OBVIOUS
      <4>2. n = 0 /\ rtc' = rtc
        BY <3>5, <4>1
      <4>3. Value(f)' = Value(f)
        BY <4>2 DEF Value
      <4>4. CASE f = pc
        <5>1. Value(f)' = Value(pc)
          BY <4>3, <4>4
        <5>2. QED
          BY <1>6, <1>8, <4>4, <5>1
      <4>5. CASE f # pc
        <5>1. Reading[f] > Reading[pc] /\ f \in DOMAIN reg
          BY <1>5, <1>8, <4>1, <4>5
        <5>2. reg[f] = Bcd(Value(f))
          BY <3>2, <4>2, <5>1
        <5>3. QED
          BY <1>8, <4>3, <4>5, <5>1, <5>2
      <4>6. QED
        BY <4>4, <4>5
    <3>8. m * chip'.second + phase' <= p + (7 - Reading[pc']) + late'
      <4>0. PICK z, x, l, r : z = m * chip.second /\ x = phase' /\ l = late /\ r = Reading[pc']
        OBVIOUS
      <4>1. /\ z = m * chip.second /\ x = phase' /\ l = late /\ r = Reading[pc']
            /\ z \in Nat /\ x \in Nat /\ l \in Nat /\ r \in Nat
        <5>1. m * chip.second \in Nat
          BY <1>7
        <5>2. QED
          BY <1>5, <1>7, <4>0, <5>1
      <4>2. z + x <= p + t + 1 /\ t = 7 - (r + 1) + l
        BY <1>5, <3>3, <3>5, <4>1
      <4>3. z + x <= p + (7 - r) + l
        BY <4>1, <4>2
      <4>4. QED
        BY <1>7, <4>1, <4>3
    <3>9. p \in 0 .. chip'.second - 1
      BY <1>7, <3>2
    <3>10. Ended(m, p, s)'
      BY <1>7, <3>2, <3>5, <3>6, <3>7, <3>8, <3>9 DEF Ended, Reading, Bcd
    <3>11. QED
      BY <3>10
  <2>3. QED
    BY <2>1, <2>2
<1>10. QED
  BY <1>5, <1>7, <1>9 DEF TimeInv, ReadSoFar, Told, Reading

LEMMA LateTime ==
  ASSUME CmosInv, TimeInv, Late
  PROVE  TimeInv'
<1>1. /\ CmosOK /\ Stands /\ Elapse /\ pc # "done" /\ late' = late + 1
      /\ pc' = pc /\ reg' = reg /\ xtime' = xtime
  BY DEF CmosInv, Late, cpu
<1>2. InMinute /\ ReadSoFar
  BY DEF TimeInv
<1>3. chip' = chip /\ phase' \in Nat /\ InMinute' /\ late \in Nat /\ phase \in Nat
      /\ chip.second \in Nat \ {0}
  BY <1>1, <1>2, ElapseCounts, ChipIs
<1>4. SUFFICES ASSUME pc \in DOMAIN Reading, pc # "sec" PROVE \E n, p, s \in Nat : Ended(n, p, s)'
  BY <1>1, <1>3 DEF TimeInv, ReadSoFar, Told, Reading
<1>5. PICK n \in Nat, p \in Nat, s \in Nat : Ended(n, p, s)
  BY <1>2, <1>4 DEF ReadSoFar
<1>6. /\ s \in 0 .. 59 /\ p \in 0 .. chip.second - 1 /\ reg.sec = Bcd(s)
      /\ n * chip.second + phase <= p + (7 - Reading[pc]) + late /\ rtc.sec = (s + n) % 60
      /\ n = 0 => \A f \in DOMAIN reg : Reading[f] > Reading[pc] => reg[f] = Bcd(Value(f))
  BY <1>5 DEF Ended
<1>7. PICK t \in Nat : t = (7 - Reading[pc]) + late
  <2>1. Reading[pc] \in Nat /\ Reading[pc] <= 7
    BY <1>4 DEF Reading
  <2>2. QED
    BY <1>3, <2>1
<1>8. Reading[pc] \in Nat
  BY <1>4 DEF Reading
<1>9. n * chip.second + phase <= p + t
  BY <1>3, <1>6, <1>7, <1>8
<1>10. PICK m \in Nat : /\ m * chip.second + phase' <= p + t + 1 /\ rtc'.sec = (s + m) % 60
                        /\ (m = n /\ rtc' = rtc) \/ m = n + 1
  BY <1>1, <1>2, <1>6, <1>9, Later
<1>11. m = 0 => \A f \in DOMAIN reg' : Reading[f] > Reading[pc'] => reg'[f] = Bcd(Value(f)')
  <2>1. SUFFICES ASSUME m = 0, NEW f \in DOMAIN reg, Reading[f] > Reading[pc]
                 PROVE  reg[f] = Bcd(Value(f)')
    BY <1>1
  <2>2. n = 0 /\ rtc' = rtc
    BY <1>10, <2>1
  <2>3. Value(f)' = Value(f)
    BY <2>2 DEF Value
  <2>4. QED
    BY <1>6, <2>1, <2>2, <2>3
<1>12. m * chip'.second + phase' <= p + (7 - Reading[pc']) + late'
  <2>1. PICK z, x, l, r : z = m * chip.second /\ x = phase' /\ l = late /\ r = Reading[pc]
    OBVIOUS
  <2>2. z \in Nat /\ x \in Nat /\ l \in Nat /\ r \in Nat
    <3>1. m * chip.second \in Nat
      BY <1>3
    <3>2. QED
      BY <1>3, <1>8, <2>1, <3>1
  <2>3. z + x <= p + t + 1 /\ t = (7 - r) + l
    BY <1>7, <1>10, <2>1
  <2>4. z + x <= p + (7 - r) + (l + 1)
    BY <2>2, <2>3
  <2>5. QED
    BY <1>1, <1>3, <2>1, <2>4
<1>13. Ended(m, p, s)'
  BY <1>1, <1>3, <1>6, <1>10, <1>11, <1>12 DEF Ended, Reading, Bcd
<1>14. QED
  BY <1>13

(* Sixty reads in a row would be needed for the seconds to read the same.    *)
LEMMA SameSecond ==
  ASSUME CmosInv, TimeInv, pc = "again", reg.sec \in Bus("sec")
  PROVE  \A f \in DOMAIN reg : reg[f] = Bcd(Value(f))
<1>1. CmosOK /\ InMinute /\ ReadSoFar
  BY DEF CmosInv, TimeInv
<1>2. PICK n \in Nat, p \in Nat, s \in Nat : Ended(n, p, s)
  BY <1>1 DEF ReadSoFar, Reading
<1>3. /\ s \in 0 .. 59 /\ p \in 0 .. chip.second - 1 /\ reg.sec = Bcd(s)
      /\ n * chip.second + phase <= p + 6 + late /\ rtc.sec = (s + n) % 60
      /\ n = 0 => \A f \in DOMAIN reg : Reading[f] > 1 => reg[f] = Bcd(Value(f))
  BY <1>2 DEF Ended, Reading
<1>4. reg.sec = Bcd(rtc.sec)
  <2>1. ~OffBus
    BY OnBus DEF Reading
  <2>2. QED
    BY <2>1 DEF Bus
<1>5. s = rtc.sec
  <2>1. PICK x : x = rtc.sec
    OBVIOUS
  <2>2. x \in 0 .. 59
    BY <1>1, <2>1 DEF InMinute
  <2>3. \A k \in 0 .. 99 : BcdToBin(Bcd(k)) = k
    BY BcdIs
  <2>4. BcdToBin(Bcd(s)) = s /\ BcdToBin(Bcd(x)) = x
    BY <1>3, <2>2, <2>3
  <2>5. QED
    BY <1>3, <1>4, <2>1, <2>4
<1>6. n < 8
  <2>1. PICK q, h, l : q = chip.second /\ h = phase /\ l = late
    OBVIOUS
  <2>2. q \in Nat /\ q > 0 /\ h \in Nat /\ l \in Nat /\ l < q
    <3>1. chip.second \in Nat \ {0} /\ chip.lead \in Nat /\ chip.update \in Nat /\ chip.late \in Nat
          /\ chip.lead + chip.update + chip.late < chip.second
          /\ phase \in Nat /\ late \in Nat /\ late <= chip.late
      BY <1>1, ChipIs
    <3>2. QED
      BY <2>1, <3>1
  <2>3. SUFFICES ASSUME n >= 8 PROVE FALSE
    OBVIOUS
  <2>4. PICK z : z = n * q
    OBVIOUS
  <2>5. z + h <= p + 6 + l /\ p <= q - 1
    BY <1>3, <2>1, <2>4
  <2>6. z >= 8 * q /\ z \in Nat
    BY <2>2, <2>3, <2>4
  <2>7. QED
    BY <2>2, <2>5, <2>6
<1>7. n = 0
  <2>1. s = (s + n) % 60
    BY <1>3, <1>5
  <2>2. QED
    BY <1>3, <1>6, <2>1
<1>8. DOMAIN reg = {"sec", "min", "hour", "day", "mon", "year"}
  BY <1>1 DEF CmosOK
<1>9. \A f \in {"sec", "min", "hour", "day", "mon", "year"} : Reading[f] > 1
  BY DEF Reading
<1>10. QED
  BY <1>3, <1>7, <1>8, <1>9

LEMMA FinishTime ==
  ASSUME CmosInv, TimeInv, Finish
  PROVE  TimeInv'
<1>1. /\ CmosOK /\ pc = "again" /\ reg.sec \in Bus("sec") /\ pc' = "done" /\ rtc' = rtc
      /\ xtime' = [sec |-> CmosTime, tick |-> InitialTick]
  BY DEF CmosInv, Finish
<1>2. InMinute'
  BY <1>1 DEF TimeInv, InMinute
<1>3. \A f \in DOMAIN reg : reg[f] = Bcd(Value(f))
  BY <1>1, SameSecond
<1>4. DOMAIN reg = {"sec", "min", "hour", "day", "mon", "year"}
  BY <1>1 DEF CmosOK
<1>5. rtc \in Date => CmosTime = Epoch(rtc)
  BY <1>3, <1>4, TimeIs
<1>6. xtime'.sec = CmosTime
  BY <1>1
<1>7. rtc' \in Date => xtime'.sec = Epoch(rtc')
  BY <1>1, <1>5, <1>6
<1>8. Told'
  BY <1>7 DEF Told, Date, Epoch, MonthStart, YearStart
<1>9. QED
  BY <1>1, <1>2, <1>8 DEF TimeInv, ReadSoFar, Reading

LEMMA WaitTime ==
  ASSUME CmosInv, TimeInv, Rise \/ Fall \/ Retry
  PROVE  TimeInv'
<1>1. CmosOK /\ Stands /\ InMinute /\ Elapse /\ pc' \in {"rise", "fall", "sec"}
  BY DEF CmosInv, TimeInv, Rise, Fall, Retry, WaitFor
<1>2. InMinute'
  BY <1>1, ElapseCounts
<1>3. QED
  BY <1>1, <1>2 DEF TimeInv, ReadSoFar, Told, Reading

LEMMA TimeSame ==
  ASSUME TimeInv, UNCHANGED vars
  PROVE  TimeInv'
<1>1. UNCHANGED <<chip, rtc, phase, late, pc, reg, xtime>>
  BY DEF vars
<1>2. InMinute'
  BY <1>1 DEF TimeInv, InMinute
<1>3. Told'
  BY <1>1 DEF TimeInv, Told, Date, Epoch, MonthStart, YearStart
<1>4. ReadSoFar'
  BY <1>1 DEF TimeInv, ReadSoFar, Ended, Value, Reading, Bcd
<1>5. QED
  BY <1>2, <1>3, <1>4 DEF TimeInv

LEMMA TimeStep ==
  ASSUME CmosInv, TimeInv, [ClockNext]_allVars
  PROVE  TimeInv'
<1>1. CASE Boot
  <2>1. Next
    BY <1>1 DEF Boot
  <2>2. CASE Rise \/ Fall \/ Retry
    BY <2>2, WaitTime
  <2>3. CASE Read
    BY <2>3, ReadTime
  <2>4. CASE Finish
    BY <2>4, FinishTime
  <2>5. CASE Late
    BY <2>5, LateTime
  <2>6. CASE UNCHANGED vars
    BY <2>6, TimeSame
  <2>7. QED
    BY <2>1, <2>2, <2>3, <2>4, <2>5, <2>6 DEF Next, Cpu, Done
<1>2. CASE UNCHANGED vars
  BY <1>2, TimeSame
<1>3. Boot \/ UNCHANGED vars
  BY DEF ClockNext, allVars, local_irq_enable, Count, timer_interrupt, Toggle, Latch,
       ResetLatch, Compare, Overflow, Load, LoadRest
<1>4. QED
  BY <1>1, <1>2, <1>3

LEMMA TimeStarts ==
  ASSUME Init
  PROVE  TimeInv
<1>1. pc = "rise"
  BY DEF Init
<1>2. InMinute
  <2>1. PICK s \in Start : rtc = s[1]
    BY DEF Init
  <2>2. Start \subseteq Date \X Nat
    BY CmosAssumption
  <2>3. rtc \in Date
    BY <2>1, <2>2
  <2>4. QED
    BY <2>3 DEF InMinute, Date
<1>3. QED
  BY <1>1, <1>2 DEF TimeInv, ReadSoFar, Told, Reading

(* The time of day is that of the clock when the reading ends, whatever      *)
(* second, day, month or leap year ended during it, for every chip and every *)
(* date up to the end of 2037, where the seconds still fit a long: the       *)
(* comparison of the seconds alone is enough, and mktime agrees with the     *)
(* calendar.                                                                 *)
THEOREM TimeOfDayRight == ClockSpec => [](rtc \in Date => TimeRight)
<1>1. ClockInit => TimeInv
  BY TimeStarts DEF ClockInit
<1>2. CmosInv /\ TimeInv /\ [ClockNext]_allVars => TimeInv'
  BY TimeStep
<1>3. TimeInv => (rtc \in Date => TimeRight)
  BY DEF TimeInv, Told, TimeRight
<1>4. QED
  BY <1>1, <1>2, <1>3, CmosInductive, PTL DEF ClockSpec
=============================================================================
