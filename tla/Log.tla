-------------------------------- MODULE Log --------------------------------
(* printk and the ring of the kernel log: two counters of Word values run    *)
(* freely, and their low bits are the index.  printk is never called while   *)
(* another printk runs (no interrupt handler calls it).                      *)
EXTENDS Integers, Sequences

CONSTANTS
  Message,    \* what vsnprintf has put into log_buf
  BufLen,     \* LOG_BUF_LEN
  Word        \* values of an unsigned long

Digit == {"0", "4", "7", "9"}   \* "9" is beyond the levels
Char  == {"a", "nl", "<", ">"} \cup Digit

(* emit_log_char compares after every character; that Emit may do so after   *)
(* the four of a tag and a character takes a Word beyond BufLen + 4.         *)
ASSUME LogAssumption ==
  /\ Message \subseteq Seq(Char)
  /\ BufLen \in Nat \ (0 .. 3) /\ Word \in Nat \ {0}
  /\ Word % BufLen = 0 /\ Word > BufLen + 4

VARIABLES
  buf,      \* __log_buf_
  start,    \* log_start
  end,      \* log_end
  unknown,  \* unknown_log_level
  rest,     \* what printk has still to emit of log_buf
  mark      \* history: where each character of the ring comes from (see Mark)

vars == <<buf, start, end, unknown, rest, mark>>

-----------------------------------------------------------------------------
Init ==
  /\ buf = [x \in 0 .. BufLen - 1 |-> "0"]
  /\ start = 0 /\ end = 0
  /\ unknown = TRUE
  /\ rest = <<>>
  /\ mark = [x \in 0 .. BufLen - 1 |-> "unused"]

(* Mutant: the counters are compared as they are.                            *)
StartKept(e) == IF e - start > BufLen THEN (e - BufLen) % Word ELSE start
(* Where log_start is after emit_log_char has raised log_end to e.           *)
StartAfter(e) == IF (e - start) % Word > BufLen THEN (e - BufLen) % Word ELSE start

(* emit_log_char of every character of s, at log_end.                        *)
Stored(ring, s) ==
  [x \in 0 .. BufLen - 1 |->
    LET here == {n \in DOMAIN s : (end + n - 1) % BufLen = x}
    IN  IF here = {} THEN ring[x] ELSE s[CHOOSE n \in here : \A m \in here : m <= n]]
Emit(s, marks) ==
  /\ buf' = Stored(buf, s) /\ mark' = Stored(mark, marks)
  /\ end' = (end + Len(s)) % Word
  /\ start' = StartAfter(end')

(* "<0>" to "<7>" at the start of what is left of the message.               *)
HasTag(m) == Len(m) >= 3 /\ m[1] = "<" /\ m[2] \in Digit \ {"9"} /\ m[3] = ">"

(* A character of the message: whether its level begins here.                *)
Mark == IF HasTag(rest) THEN "level" ELSE "text"
Plain  == Emit(<<rest[1]>>, <<Mark>>)
Tagged == Emit(<<"<", "4", ">", rest[1]>>, <<"added", "added", "added", Mark>>)

Printk ==
  /\ rest = <<>>
  /\ rest' \in Message
  /\ UNCHANGED <<buf, start, end, unknown, mark>>

(* Mutants: only a newline at the end of a message starts a line; a line is   *)
(* given its tag before each of its characters.                              *)
EmitCharMessageEnd ==
  /\ rest # <<>>
  /\ IF unknown /\ ~HasTag(rest) THEN Tagged ELSE Plain
  /\ unknown' = (rest = <<"nl">>)
  /\ rest' = Tail(rest)
EmitCharEach ==
  /\ rest # <<>>
  /\ IF unknown /\ ~HasTag(rest) THEN Tagged ELSE Plain
  /\ unknown' = (unknown \/ rest[1] = "nl")
  /\ rest' = Tail(rest)

(* A turn of printk's loop: the tag, if a line starts here without one, and  *)
(* the character.                                                            *)
EmitChar ==
  /\ rest # <<>>
  /\ IF unknown /\ ~HasTag(rest) THEN Tagged ELSE Plain
  /\ unknown' = (rest[1] = "nl")
  /\ rest' = Tail(rest)

Next == Printk \/ EmitChar
Spec == Init /\ [][Next]_vars

-----------------------------------------------------------------------------
(* The log, as a reader of the ring from log_start to log_end finds it.      *)
Text == [n \in 1 .. (end - start) % Word |-> buf[(start + n - 1) % BufLen]]

Marks == [n \in DOMAIN Text |-> mark[(start + n - 1) % BufLen]]

(* A line of the log begins at n: behind a newline, or at the start of a log *)
(* of which nothing has been overwritten yet.                                *)
Begins(n) == IF n = 1 THEN \E x \in DOMAIN mark : mark[x] = "unused" ELSE Text[n - 1] = "nl"

(* Every line of the log starts with a level, as far as it has been written, *)
(* the first one too, and whether a line is one message, a part of one or    *)
(* several.  It is the level that the message has there, or else a tag of    *)
(* printk; and printk adds nothing but these tags, one for a line, at its    *)
(* start, and none where the message has a level.                            *)
LinesTagged ==
  \A n \in DOMAIN Text :
    /\ Begins(n) =>
         /\ Marks[n] \in {"level", "added"}
         /\ \A k \in 1 .. 3 : n + k - 1 \in DOMAIN Text =>
              Text[n + k - 1] \in <<{"<"}, Digit \ {"9"}, {">"}>>[k]
    /\ Marks[n] = "added" =>
         \E k \in 1 .. 3 :
           /\ Text[n] = <<"<", "4", ">">>[k]
           /\ n > k => Begins(n - k + 1)
           /\ n - k + 4 \in DOMAIN Text /\ Marks[n - k + 4] = "text"

(* The ring is the last BufLen characters, also when the counters wrap.      *)
L == INSTANCE LogText WITH text <- Text, Size <- BufLen
KeepsLast == L!Spec
=============================================================================
