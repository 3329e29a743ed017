----------------------------- MODULE MCConsole -----------------------------
(* Formats of up to two directives, in buffers of no, one and six bytes and  *)
(* in one whose end would wrap.  Numbers take all flags, no width, width 5   *)
(* or an argument of -5, and a precision of none or 3.  printf is called     *)
(* with letters, newlines, strings and a number of five places, which two of *)
(* make more than its buffer holds; the terminal is a row of two cells and   *)
(* the ring three rows, gone through twice.                                  *)
EXTENDS Console

Numbers(conv, flags, widths, negs) ==
  [conv : {conv}, flags : flags, width : widths, prec : {NoWidth, 3}, digits : {2}, neg : negs]

MCDirective ==
  Numbers("d", SUBSET {"LEFT", "ZEROPAD", "PLUS"}, {NoWidth, 5}, BOOLEAN)
  \cup Numbers("d", {{"SPACE"}, {"SPACE", "PLUS"}}, {5}, BOOLEAN)
  \cup Numbers("x", SUBSET {"LEFT", "ZEROPAD", "SPECIAL"}, {-5, 5}, {FALSE})
  \cup Numbers("o", {{"SPECIAL"}}, {5}, {FALSE})
  \cup [conv : {"s"}, flags : SUBSET {"LEFT"}, width : {NoWidth, 3}, prec : {NoWidth, 1},
        digits : {0, 2}, neg : {FALSE}]
  \cup [conv : {"p", "c", "n", "lit", "newline", "%", "end", "other"}, flags : {{}}, width : {NoWidth},
        prec : {NoWidth}, digits : {1}, neg : {FALSE}]
MCPrinted ==
  {d \in MCDirective : \/ d.conv \in {"lit", "newline"}
                       \/ d.conv = "s" /\ d.width = NoWidth /\ d.prec = NoWidth /\ d.flags = {}
                       \/ d.conv = "d" /\ d.flags = {} /\ d.width = 5 /\ d.prec = NoWidth /\ d.neg}
MCSizes == {0, 1, 6, Top - 3}
=============================================================================
