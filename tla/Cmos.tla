-------------------------------- MODULE Cmos --------------------------------
(* time_init: mach_get_cmos_time reads the registers of the CMOS clock one    *)
(* after the other while the clock goes on; mktime makes seconds of them.     *)
(* Time is counted in CMOS_READs.  Interrupts are off and rtc_lock is free.   *)
EXTENDS Integers, Sequences

CONSTANTS
  Chip,    \* clocks: see ChipType
  Start,   \* dates with the phase of the second, when time_init is called
  Limit,   \* turns of the loops that wait for the update flag
  Hz,      \* HZ; nanoseconds are counted in ticks, of which a second has Hz
  MaxSeconds   \* bound: the seconds after which the clock of the model stands

Fields == <<"sec", "min", "hour", "day", "mon", "year">>   \* in the order read
Reads == Len(Fields) + 1
Date == [sec : 0 .. 59, min : 0 .. 59, hour : 0 .. 23, day : 1 .. 31, mon : 1 .. 12,
         year : 1970 .. 2037]

(* How many reads a second takes; how long before its end the flag rises and  *)
(* the registers go off the bus; how many reads' time may be lost on the way. *)
ChipType == [second : Nat \ {0}, lead : Nat, update : Nat, late : Nat]

(* The registers can be read before they go off the bus, if they ever do, and *)
(* the second loop outlasts an update: 2.228 ms, as rtc.h says.  What time is *)
(* lost does not make up for the rest of a second, and the clock goes.        *)
ASSUME CmosAssumption ==
  /\ Chip \subseteq ChipType /\ Start \subseteq Date \X Nat /\ Limit \in Nat
  /\ Hz \in Nat \ {0} /\ MaxSeconds \in Nat \ {0}
  /\ \A c \in Chip : /\ c.lead + c.update + c.late < c.second
                     /\ c.lead + c.update + c.late < Limit
                     /\ c.update = 0 \/ Reads + c.late <= c.lead

VARIABLES
  chip,    \* the clock of this machine
  rtc,     \* its date
  phase,   \* reads since its second began
  seconds, \* seconds that have ended since time_init began
  late,    \* reads' time lost so far
  pc,      \* "rise", "fall", the field to read, "again" or "done"
  i,       \* turns of the loop
  reg,     \* the values read
  xtime, wallToMonotonic   \* seconds and ticks

vars == <<chip, rtc, phase, seconds, late, pc, i, reg, xtime, wallToMonotonic>>
cpu  == <<pc, i, reg, xtime, wallToMonotonic>>

-----------------------------------------------------------------------------
(* The clock.                                                                 *)
Leap(y) == y % 4 = 0 /\ (y % 100 # 0 \/ y % 400 = 0)
MonthDays(y, m) ==
  IF m = 2 THEN IF Leap(y) THEN 29 ELSE 28 ELSE IF m \in {4, 6, 9, 11} THEN 30 ELSE 31

NextSecond(d) ==
  IF d.sec < 59 THEN [d EXCEPT !.sec = @ + 1]
  ELSE IF d.min < 59 THEN [d EXCEPT !.sec = 0, !.min = @ + 1]
  ELSE IF d.hour < 23 THEN [d EXCEPT !.sec = 0, !.min = 0, !.hour = @ + 1]
  ELSE LET midnight == [d EXCEPT !.sec = 0, !.min = 0, !.hour = 0] IN
    IF d.day < MonthDays(d.year, d.mon) THEN [midnight EXCEPT !.day = @ + 1]
    ELSE IF d.mon < 12 THEN [midnight EXCEPT !.day = 1, !.mon = @ + 1]
    ELSE [midnight EXCEPT !.day = 1, !.mon = 1, !.year = @ + 1]

Elapse ==
  /\ IF seconds = MaxSeconds THEN UNCHANGED <<rtc, phase, seconds>>
     ELSE /\ phase' = (phase + 1) % chip.second
          /\ rtc' = IF phase' = 0 THEN NextSecond(rtc) ELSE rtc
          /\ seconds' = IF phase' = 0 THEN seconds + 1 ELSE seconds
  /\ UNCHANGED chip

UpdateFlag == phase >= chip.second - chip.lead - chip.update
OffBus == phase >= chip.second - chip.update
Bcd(n) == (n \div 10) * 16 + (n % 10)
(* Off the bus, a register reads as anything.                                 *)
Bus(f) ==
  IF OffBus THEN {0, 255} ELSE {Bcd(IF f = "year" THEN rtc.year % 100 ELSE rtc[f])}

-----------------------------------------------------------------------------
BcdToBin(v) == (v % 16) + (v \div 16) * 10
Century(y) == IF y + 1900 < 1970 THEN y + 2000 ELSE y + 1900

(* The year begins in March, so that the leap day is its last.                *)
Mktime(year, mon, day, hour, min, sec) ==
  LET m == IF mon - 2 <= 0 THEN mon + 10 ELSE mon - 2
      y == IF mon - 2 <= 0 THEN year - 1 ELSE year
      days == (y \div 4 - y \div 100 + y \div 400 + (367 * m) \div 12 + day) + y * 365 - 719499
  IN  ((days * 24 + hour) * 60 + min) * 60 + sec

CmosTime ==
  LET v == [f \in DOMAIN reg |-> BcdToBin(reg[f])] IN
    Mktime(Century(v.year), v.mon, v.day, v.hour, v.min, v.sec)

(* Mutant: a negative rest is left.                                           *)
NormalizedDown(sec, n) ==
  LET more == IF n > Hz THEN (n - 1) \div Hz ELSE 0
  IN  [sec |-> sec + more, tick |-> n - more * Hz]
(* set_normalized_timespec: a rest of exactly a second stays.                 *)
Normalized(sec, n) ==
  LET more == IF n > Hz THEN (n - 1) \div Hz ELSE 0
      less == IF n < 0 THEN (Hz - 1 - n) \div Hz ELSE 0
  IN  [sec |-> sec + more - less, tick |-> n - (more - less) * Hz]

(* INITIAL_JIFFIES % HZ: -300 * HZ as an unsigned int is 2^32 - 300 * HZ.     *)
InitialTick == ((2^30 % Hz) * 4) % Hz

-----------------------------------------------------------------------------
Init ==
  /\ chip \in Chip
  /\ \E s \in Start : rtc = s[1] /\ phase = s[2] % chip.second
  /\ late = 0 /\ seconds = 0
  /\ pc = "rise" /\ i = 0
  /\ reg = [f \in {Fields[k] : k \in DOMAIN Fields} |-> 0]
  /\ xtime = [sec |-> 0, tick |-> 0] /\ wallToMonotonic = [sec |-> 0, tick |-> 0]

(* Mutant: the loops only end at the flag.                                    *)
WaitForFlagOnly(flag, next) ==
  /\ IF UpdateFlag = flag THEN pc' = next /\ i' = 0 ELSE UNCHANGED <<pc, i>>
  /\ Elapse
  /\ UNCHANGED <<late, reg, xtime, wallToMonotonic>>
(* A turn of one of the two loops.                                            *)
WaitFor(flag, next) ==
  /\ IF UpdateFlag = flag \/ i + 1 = Limit THEN pc' = next /\ i' = 0 ELSE pc' = pc /\ i' = i + 1
  /\ Elapse
  /\ UNCHANGED <<late, reg, xtime, wallToMonotonic>>

(* Mutant: the rise of the flag is enough.                                    *)
RiseOnly == pc = "rise" /\ WaitFor(TRUE, "sec")
Rise == pc = "rise" /\ WaitFor(TRUE, "fall")
Fall == pc = "fall" /\ WaitFor(FALSE, "sec")

Read ==
  \E k \in DOMAIN Fields :
    /\ pc = Fields[k]
    /\ \E v \in Bus(pc) : reg' = [reg EXCEPT ![pc] = v]
    /\ pc' = IF k < Len(Fields) THEN Fields[k + 1] ELSE "again"
    /\ Elapse
    /\ UNCHANGED <<late, i, xtime, wallToMonotonic>>

(* The seconds have changed: all registers are read once more.                *)
Retry ==
  /\ pc = "again"
  /\ \E v \in Bus("sec") : v # reg.sec
  /\ pc' = "sec"
  /\ Elapse
  /\ UNCHANGED <<late, i, reg, xtime, wallToMonotonic>>

(* Mutant: the seconds are not compared.                                      *)
FinishAnyway ==
  /\ pc = "again"
  /\ pc' = "done"
  /\ xtime' = [sec |-> CmosTime, tick |-> InitialTick]
  /\ wallToMonotonic' = Normalized(-xtime'.sec, -xtime'.tick)
  /\ UNCHANGED <<chip, rtc, phase, seconds, late, i, reg>>
(* They have not: xtime is set, and what takes it back to zero.               *)
Finish ==
  /\ pc = "again"
  /\ reg.sec \in Bus("sec")
  /\ pc' = "done"
  /\ xtime' = [sec |-> CmosTime, tick |-> InitialTick]
  /\ wallToMonotonic' = Normalized(-xtime'.sec, -xtime'.tick)
  /\ UNCHANGED <<chip, rtc, phase, seconds, late, i, reg>>

(* The machine loses time: a refresh cycle, or an emulator that is not run.   *)
Late ==
  /\ pc # "done" /\ late < chip.late
  /\ late' = late + 1
  /\ Elapse
  /\ UNCHANGED cpu

Done == pc = "done" /\ UNCHANGED vars

Cpu == Rise \/ Fall \/ Read \/ Retry \/ Finish
Next == Cpu \/ Late \/ Done
(* The CPU executes the next read.                                            *)
Spec == Init /\ [][Next]_vars /\ WF_vars(Cpu)

-----------------------------------------------------------------------------
(* No register is read while the clock writes it: after the fall of the flag, *)
(* and also when the first loop has given up, there is time for all of them.  *)
ReadOnBus == pc \notin {"rise", "fall", "done"} => ~OffBus

(* Days from 1970 to the first of a month, one year and one month at a time.  *)
YearStart[y \in 1970 .. 2038] ==
  IF y = 1970 THEN 0 ELSE YearStart[y - 1] + (IF Leap(y - 1) THEN 366 ELSE 365)
MonthStart(y) ==
  LET start[m \in 1 .. 12] == IF m = 1 THEN 0 ELSE start[m - 1] + MonthDays(y, m - 1) IN start
Epoch(d) ==
  (((YearStart[d.year] + MonthStart(d.year)[d.mon] + d.day - 1) * 24 + d.hour) * 60 + d.min) * 60
    + d.sec

(* The time of day is the one the clock has when the reading ends, whatever   *)
(* second, minute, day, month or year ended during it.                        *)
TimeRight == pc = "done" => xtime.sec = Epoch(rtc)

(* The monotonic time, xtime plus wall_to_monotonic, starts at zero, and both *)
(* have less than a second of nanoseconds.                                    *)
MonotonicAtZero ==
  pc = "done" => /\ (xtime.sec + wallToMonotonic.sec) * Hz + xtime.tick + wallToMonotonic.tick = 0
                 /\ wallToMonotonic.tick \in 0 .. Hz - 1

(* Boot goes on, also with a clock whose flag never rises.                    *)
BootGoesOn == <>(pc = "done")
=============================================================================
