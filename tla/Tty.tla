-------------------------------- MODULE Tty --------------------------------
(* The terminal: terminal_putchar appends to a ring of character cells and   *)
(* then runs flush_ringbuffer_to_buffer from terminal_pos_base to            *)
(* terminal_pos_now, which reads video memory where it means the ring.  One  *)
(* context at a time writes: main before it enables interrupts, the keyboard *)
(* handler afterwards.                                                       *)
EXTENDS Integers

CONSTANTS
  Width, Height,  \* VGA_WIDTH, VGA_HEIGHT
  Ring,           \* RING_SIZE
  MaxLap          \* bound: how often the ring is gone through

Screen == Width * Height

VARIABLES
  pos,   \* terminal_pos_now
  base,  \* terminal_pos_base
  ring,  \* in which lap each cell was last written
  lap,   \* laps of the ring so far
  vga,   \* the screen's video memory: "blank", or "other" for what is behind it
  i,     \* the loop variable of the flush
  at     \* "idle", or "flush" inside of the loop

vars == <<pos, base, ring, lap, vga, i, at>>

-----------------------------------------------------------------------------
(* terminal_initialize, the first time.                                      *)
Init ==
  /\ pos = 0 /\ base = 0
  /\ ring = [c \in 0 .. Ring - 1 |-> 0]
  /\ lap = 1
  /\ vga = [c \in 0 .. Screen - 1 |-> "blank"]
  /\ i = 0 /\ at = "idle"

(* VGA_WIDTH is a size_t, so the comparison is unsigned.                     *)
LessUnsigned(a, b) == IF (a < 0) = (b < 0) THEN a < b ELSE b < 0

Follow(p) ==
  LET b == p - Screen IN
    /\ base' = IF LessUnsigned(base, b) THEN b ELSE base
    /\ i' = base'
    /\ at' = "flush"

(* terminal_putchar of any character but a newline.                          *)
Put ==
  /\ at = "idle" /\ lap <= MaxLap
  /\ ring' = [ring EXCEPT ![pos] = lap]
  /\ pos' = (pos + 1) % Ring
  /\ lap' = IF pos' = 0 THEN lap + 1 ELSE lap
  /\ vga' = vga
  /\ Follow(pos')

RowEnd(p) == ((p + Width - 1) \div Width) * Width

(* Mutant: the rest of the row keeps what it had.                            *)
NewlineKeeps ==
  /\ at = "idle" /\ lap <= MaxLap
  /\ pos' = RowEnd(pos)
  /\ UNCHANGED <<ring, lap, vga>>
  /\ Follow(pos')

(* A newline blanks the rest of the row; pos is not taken modulo the ring.   *)
Newline ==
  /\ at = "idle" /\ lap <= MaxLap
  /\ ring' = [c \in 0 .. Ring - 1 |->
                IF pos <= c /\ c < RowEnd(pos) THEN lap ELSE ring[c]]
  /\ pos' = RowEnd(pos)
  /\ UNCHANGED <<lap, vga>>
  /\ Follow(pos')

(* *terminal_buffer = terminal_buffer[i], where terminal_buffer is VGA_MEMORY *)
(* and i an index of the ring, or negative.                                  *)
Store == vga' = [vga EXCEPT ![0] = IF i \in DOMAIN vga THEN vga[i] ELSE "other"]

(* Mutant: the loop variable counts the two bytes of a cell.                 *)
TurnBytes ==
  /\ at = "flush" /\ i # pos
  /\ Store
  /\ i' = IF i + 2 < 0 THEN i + 2 ELSE (i + 2) % Ring
  /\ UNCHANGED <<pos, base, ring, lap, at>>

(* A turn of the flush; % of C leaves a negative i as it is.                 *)
Turn ==
  /\ at = "flush" /\ i # pos
  /\ Store
  /\ i' = IF i + 1 < 0 THEN i + 1 ELSE (i + 1) % Ring
  /\ UNCHANGED <<pos, base, ring, lap, at>>

Done ==
  /\ at = "flush" /\ i = pos
  /\ at' = "idle" /\ i' = 0
  /\ UNCHANGED <<pos, base, ring, lap, vga>>

(* terminal_initialize once more: a ring of zeros, both positions, and a     *)
(* blank screen.                                                             *)
Initialize ==
  /\ at = "idle"
  /\ pos' = 0 /\ base' = 0
  /\ ring' = [c \in 0 .. Ring - 1 |-> 0]
  /\ lap' = 1
  /\ vga' = [c \in 0 .. Screen - 1 |-> "blank"]
  /\ UNCHANGED <<i, at>>

Flush == Turn \/ Done
Next == Put \/ Newline \/ Flush \/ Initialize

(* The loop goes on; nobody has to print.                                    *)
Spec == Init /\ [][Next]_vars /\ WF_vars(Flush)

-----------------------------------------------------------------------------
(* The cells before pos are of this lap, the others of the last one: no row  *)
(* shows a rest of the text that was there a lap ago.                        *)
RingInOrder ==
  \A c \in 0 .. Ring - 1 : ring[c] = IF c < pos THEN lap ELSE lap - 1

(* Every character is flushed and terminal_putchar returns, unless a newline *)
(* has put pos at the end of the ring, which the loop's index never is.      *)
FlushEnds == (at = "flush" /\ pos # Ring) ~> at = "idle"
=============================================================================
