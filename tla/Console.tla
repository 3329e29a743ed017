------------------------------ MODULE Console ------------------------------
(* printf: vsnprintf into a buffer on the stack, then print, putchar and     *)
(* terminal_putchar for every byte of the result; sprintf, which only        *)
(* formats; and the keyboard's handler, which prints the letter of a key.    *)
(* kernel_main prints before it enables interrupts, the handler afterwards.  *)
EXTENDS Format

CONSTANTS
  Width, Height, Ring, MaxLap,   \* of the terminal
  TmpBuf,    \* sizeof(tmp_buf)
  Printed    \* bound: directives of the formats printf is called with

ASSUME ConsoleAssumption ==
  /\ Width \in Nat \ {0} /\ Height \in Nat \ {0} /\ Ring \in Nat /\ MaxLap \in Nat
  /\ Ring % Width = 0 /\ Ring > Width * Height
  /\ TmpBuf \in Nat \ {0} /\ Printed \subseteq Directive

VARIABLES
  pos, base, ring, lap, vga, turn, at,   \* of the terminal
  caller,    \* "main" or "loop" between two calls, or who has called vsnprintf
  key,       \* the scan code the keyboard's handler has read, and its letter
  shown      \* the bytes print has put out in this call, and the cell of each

T == INSTANCE Tty WITH i <- turn

screen == <<pos, base, ring, lap, vga, turn, at>>
allVars == <<vsn, screen, caller, key, shown>>

-----------------------------------------------------------------------------
KEY_Q == 16
KEY_P == 25
KEY_A == 30
KEY_L == 38
KEY_Z == 44
KEY_M == 50
QP_GAP == KEY_Q
(* Mutant: without the - 1.                                                  *)
AlGapOff == KEY_A - KEY_P + QP_GAP
AL_GAP == KEY_A - KEY_P + QP_GAP - 1
ZM_GAP == KEY_Z - KEY_L + AL_GAP - 1

keymap ==
  <<"q", "w", "e", "r", "t", "y", "u", "i", "o", "p", "a", "s", "d", "f", "g", "h", "j",
    "k", "l", "z", "x", "c", "v", "b", "n", "m">>
NUL == "NUL"
codeToChar(code) ==
  IF code \in KEY_Q .. KEY_P THEN keymap[code - QP_GAP + 1]
  ELSE IF code \in KEY_A .. KEY_L THEN keymap[code - AL_GAP + 1]
  ELSE IF code \in KEY_Z .. KEY_M THEN keymap[code - ZM_GAP + 1] ELSE NUL
ScanCode == 0 .. 255

-----------------------------------------------------------------------------
(* A call of vsnprintf with a buffer of s bytes.                             *)
Call(s) ==
  /\ size' = Room(s)
  /\ format' = <<>>
  /\ memory' = [a \in Buf .. Top |-> "free"]
  /\ str' = Buf /\ ret' = -1
  /\ shown' = <<>>
  /\ UNCHANGED screen

NoKey == <<0, NUL>>
Printf ==
  /\ caller = "main" /\ caller' = "printf"
  /\ Call(TmpBuf) /\ UNCHANGED key
(* Bound: sprintf is called before anything is printed.                      *)
Sprintf ==
  /\ caller = "main" /\ lap = 1 /\ pos = 0 /\ ring[0] = 0
  /\ caller' = "sprintf"
  /\ (\E s \in Sizes : Call(s)) /\ UNCHANGED key
Initialize ==
  /\ caller = "main"
  /\ T!Initialize
  /\ UNCHANGED <<vsn, caller, key, shown>>
local_irq_enable ==
  /\ caller = "main" /\ caller' = "loop"
  /\ UNCHANGED <<vsn, screen, key, shown>>
(* Nothing is printed for a code that gives no letter.                       *)
kbd_interrupt ==
  /\ caller = "loop" /\ caller' = "kbd"
  /\ \E code \in ScanCode :
       codeToChar(code) # NUL /\ key' = <<code, codeToChar(code)>>
  /\ Call(TmpBuf)

PercentC == [conv |-> "c", flags |-> {}, width |-> NoWidth, prec |-> NoWidth,
             digits |-> 1, neg |-> FALSE]
Formats == CASE caller = "sprintf" -> Directive
             [] caller = "printf" -> Printed
             [] caller = "kbd" -> IF format = <<>> THEN {PercentC} ELSE {}
             [] OTHER -> {}

Formatting ==
  /\ caller \in {"printf", "sprintf", "kbd"}
  /\ (\E d \in Formats : Convert(d)) \/ (Finish /\ (caller = "kbd" => format # <<>>))
  /\ UNCHANGED <<screen, caller, key, shown>>

(* Mutant: the byte after the one that is due.                               *)
ByteAfter(k) == memory[Buf + k]
Byte(k) == memory[Buf + k - 1]

Prints == caller \in {"printf", "kbd"} /\ ret # -1
(* print and putchar, which never returns EOF.  vsnprintf returns the length *)
(* before the cut, so that bytes past the buffer are put out too.            *)
Putchar ==
  /\ Prints /\ Len(shown) < ret
  /\ LET b == Byte(Len(shown) + 1) IN
       /\ \/ b # "newline" /\ T!Put
          \/ b \in {"newline", "free"} /\ T!Newline
       /\ shown' = Append(shown, [byte |-> b, cell |-> pos])
  /\ UNCHANGED <<vsn, caller, key>>

Flushing == T!Flush /\ UNCHANGED <<vsn, caller, key, shown>>

Return ==
  /\ ret # -1 /\ at = "idle"
  /\ caller = "sprintf" \/ (Prints /\ Len(shown) = ret)
  /\ caller' = IF caller = "kbd" THEN "loop" ELSE "main"
  /\ key' = NoKey /\ Call(TmpBuf)

ConsoleInit ==
  /\ T!Init
  /\ caller = "main" /\ key = NoKey /\ shown = <<>>
  /\ size = Room(TmpBuf) /\ format = <<>> /\ str = Buf /\ ret = -1
  /\ memory = [a \in Buf .. Top |-> "free"]

ConsoleNext == \/ Printf \/ Sprintf \/ Initialize \/ local_irq_enable \/ kbd_interrupt
               \/ Formatting \/ Putchar \/ Flushing \/ Return
(* The loop of the flush goes on; nobody has to print.                       *)
ConsoleSpec == ConsoleInit /\ [][ConsoleNext]_allVars /\ WF_allVars(Flushing)

-----------------------------------------------------------------------------
(* A call of printf puts the text of its format into the terminal's ring,    *)
(* whole and in order as far as the buffer goes, and behind that the NUL and *)
(* whatever follows the buffer, up to the length of the text: each character *)
(* one cell behind the last, a newline's successor at the start of a row,    *)
(* also where the ring starts again.  The screen shows none of it: the flush *)
(* stores into its first cell only, and never a cell of the ring.            *)
TextInRing ==
  Prints =>
    LET text == FlattenSeq([k \in DOMAIN format |-> Output(format[k])])
        kept == IF ret < size THEN ret ELSE size - 1
    IN /\ ret = Len(text)
       /\ \A k \in DOMAIN shown :
            shown[k].byte = IF k <= kept THEN text[k] ELSE IF k = kept + 1 THEN "NUL" ELSE "free"
       /\ \A k \in DOMAIN shown \ {1} :
            LET prev == shown[k - 1] IN
              prev.byte # "free" =>
                shown[k].cell = IF prev.byte = "newline" THEN T!RowEnd(prev.cell)
                                ELSE (prev.cell + 1) % Ring
       /\ \A c \in DOMAIN vga \ {0} : vga[c] = "blank"

(* Each key with a letter on it prints this letter, whichever gap of the     *)
(* codes it lies behind (input-event-codes.h), and no other code prints.     *)
KeyPrintsItsLetter ==
  caller = "kbd" =>
    LET code == key[1]
        row(first, letters) ==
          code \in first .. first + Len(letters) - 1 /\ key[2] = letters[code - first + 1]
    IN \/ row(KEY_Q, <<"q", "w", "e", "r", "t", "y", "u", "i", "o", "p">>)
       \/ row(KEY_A, <<"a", "s", "d", "f", "g", "h", "j", "k", "l">>)
       \/ row(KEY_Z, <<"z", "x", "c", "v", "b", "n", "m">>)

(* What is in the ring before the position is the text of this lap, the rest *)
(* of it the text of the last: terminal_putchar blanks every row it leaves.  *)
RingInOrder == T!RingInOrder

(* Every character of a text is flushed and putchar goes on to the next, but *)
(* behind a newline that has put the position at the end of the ring.        *)
FlushEnds == T!FlushEnds
=============================================================================
