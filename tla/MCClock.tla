------------------------------ MODULE MCClock ------------------------------
(* A clock whose second the first loop outlasts, one whose second is longer, *)
(* and an emulated one: no update flag, registers always there, and a CPU    *)
(* that may lose time while it reads.  Every phase of the second before the  *)
(* last second of a leap day, a year and a century ends; and the last        *)
(* seconds of the 28th and of the last day of every month of six years.  The *)
(* ticks of six counts are followed after boot in the first of these years.  *)
EXTENDS Clock

LastSecond(y, m, d) ==
  [sec |-> 59, min |-> 59, hour |-> 23, day |-> d, mon |-> m, year |-> y]

MCChip == { [second |-> 20, lead |-> 8, update |-> 2, late |-> 1],
            [second |-> 40, lead |-> 8, update |-> 2, late |-> 1],
            [second |-> 20, lead |-> 0, update |-> 0, late |-> 3] }
MCYears == {1970, 1971, 1999, 2000, 2004, 2036}
MCDays == UNION { { LastSecond(y, m, 28), LastSecond(y, m, MonthDays(y, m)) } :
                    y \in MCYears, m \in 1 .. 12 }
MCRaces == { LastSecond(1999, 12, 31), LastSecond(2000, 2, 28), LastSecond(2004, 2, 29) }
MCStart == (MCRaces \X (0 .. 39)) \cup (MCDays \X {0, 18})
MCFollowed == { NextSecond(LastSecond(1970, 3, 31)) }
=============================================================================
