------------------------------- MODULE Format -------------------------------
(* vsnprintf and vscnprintf: a format is a sequence of directives, already   *)
(* taken apart; characters are kept as far as their layout needs them.       *)
(* Addresses are 0 .. Top.  Bound: no output reaches the last of them.       *)
EXTENDS Integers, Sequences, SequencesExt

CONSTANTS
  Directive,  \* the directives formats are made of
  MaxLen,     \* bound: directives of a format
  Buf,        \* address of the buffer
  Top,        \* the last address
  Sizes       \* values of size

NoWidth == -1

(* A directive as it has been taken apart: digits is how many characters its *)
(* number has, or its string.                                                *)
AnyDirective ==
  [conv : {"d", "u", "o", "x", "p", "s", "c", "n", "lit", "newline", "%", "end", "other"},
   flags : SUBSET {"LEFT", "ZEROPAD", "PLUS", "SPACE", "SPECIAL"},
   width : Int, prec : Nat \cup {NoWidth}, digits : Nat, neg : BOOLEAN]

ASSUME FormatAssumption ==
  /\ Directive \subseteq AnyDirective
  /\ Top \in Nat /\ Buf \in 1 .. Top /\ Sizes \subseteq 0 .. Top /\ MaxLen \in Nat

VARIABLES
  size,     \* the parameter, which vsnprintf may replace
  format,   \* the directives met so far
  memory,   \* what vsnprintf has stored, by address
  str,      \* where the next character goes
  ret       \* what the call returned, or -1 while it runs

vsn == <<size, format, memory, str, ret>>

-----------------------------------------------------------------------------
Rep(c, n) == [k \in 1 .. n |-> c]
AtLeast0(n) == IF n > 0 THEN n ELSE 0

(* A negative width that is an argument sets LEFT.                           *)
Left(d) == "LEFT" \in d.flags \/ d.width < NoWidth
Field(d) == IF d.width < NoWidth THEN -d.width ELSE d.width

Sign(d) ==
  IF d.conv # "d" THEN <<>>
  ELSE IF d.neg THEN <<"-">>
  ELSE IF "PLUS" \in d.flags THEN <<"+">>
  ELSE IF "SPACE" \in d.flags THEN <<" ">> ELSE <<>>

Prefix(d) ==
  IF "SPECIAL" \notin d.flags THEN <<>>
  ELSE IF d.conv = "o" THEN <<"0">> ELSE IF d.conv = "x" THEN <<"0", "x">> ELSE <<>>

ZeroPad(d) == "ZEROPAD" \in d.flags /\ ~Left(d)

(* What is left of the field.                                                *)
(* Mutant: the prefix of a base is not counted.                              *)
PadPrefix(d, digits) == AtLeast0(Field(d) - Len(Sign(d)) - digits)
Pad(d, digits) == AtLeast0(Field(d) - Len(Sign(d)) - Len(Prefix(d)) - digits)

(* number(): size is what is left of the field; each of its three loops that *)
(* pad runs it down, so that only the first one whose turn it is pads.       *)
Number(d) ==
  LET digits == IF d.digits > d.prec THEN d.digits ELSE d.prec
      pad    == Pad(d, digits)
      before == IF ZeroPad(d) \/ Left(d) THEN 0 ELSE pad
      middle == IF Left(d) THEN 0 ELSE pad - before
  IN  Rep(" ", before) \o Sign(d) \o Prefix(d)
        \o Rep(IF ZeroPad(d) THEN "0" ELSE " ", middle)
        \o Rep("0", digits - d.digits) \o Rep("d", d.digits)
        \o Rep(" ", pad - before - middle)

(* %p without a width is a number of eight digits, padded with zeros.        *)
Pointer(d) ==
  Number([d EXCEPT !.conv = "x", !.width = IF @ = NoWidth THEN 8 ELSE @,
                   !.flags = IF d.width = NoWidth THEN @ \cup {"ZEROPAD"} ELSE @])

(* %s and %c: blanks on one side.  No precision (-1) is no limit.            *)
String(d, len) ==
  LET pad == AtLeast0(Field(d) - len) IN
    IF Left(d) THEN Rep("s", len) \o Rep(" ", pad) ELSE Rep(" ", pad) \o Rep("s", len)
StrnLen(d) == IF d.prec = -1 \/ d.digits < d.prec THEN d.digits ELSE d.prec

Output(d) ==
  CASE d.conv \in {"d", "u", "o", "x"} -> Number(d)
    [] d.conv = "p" -> Pointer(d)
    [] d.conv = "s" -> String(d, StrnLen(d))
    [] d.conv = "c" -> String(d, 1)
    [] d.conv = "n" -> <<>>
    [] d.conv = "lit" -> <<"s">>
    [] d.conv = "newline" -> <<"newline">>
    [] d.conv \in {"%", "end"} -> <<"%">>   \* %% and a % that ends the format
    [] d.conv = "other" -> <<"%", "s">>     \* an unknown directive, as it stands

-----------------------------------------------------------------------------
(* end = buf + size - 1, unless that wraps: then all from buf on is room.     *)
Wraps(s) == (Buf + s - 1) % (Top + 1) < Buf - 1
Room(s) == IF Wraps(s) THEN Top - Buf + 1 ELSE s
(* Mutant: end is one past the buffer.                                       *)
EndPast(s) == Buf + s
End(s) == Buf + s - 1

FormatInit ==
  /\ size \in {Room(s) : s \in Sizes}
  /\ format = <<>>
  /\ memory = [a \in Buf .. Top |-> "free"]
  /\ str = Buf
  /\ ret = -1

(* if (str <= end) *str = c; ++str, for every character.                     *)
Store(s) ==
  /\ memory' = [a \in Buf .. Top |->
       IF str <= a /\ a < str + Len(s) /\ a <= End(size) THEN s[a - str + 1] ELSE memory[a]]
  /\ str' = str + Len(s)

(* A turn of the loop over the format.                                       *)
Convert(d) ==
  /\ ret = -1 /\ Len(format) < MaxLen /\ str + Len(Output(d)) <= Top
  /\ \A k \in DOMAIN format : format[k].conv # "end"
  /\ format' = Append(format, d)
  /\ Store(Output(d))
  /\ UNCHANGED <<size, ret>>

(* Mutant: a full buffer gets no end.                                        *)
FinishOpen ==
  /\ ret = -1
  /\ memory' = IF str <= End(size) THEN [memory EXCEPT ![str] = "NUL"] ELSE memory
  /\ ret' = str - Buf
  /\ UNCHANGED <<size, format, str>>

(* The end of the format.                                                    *)
Finish ==
  /\ ret = -1
  /\ memory' = IF str <= End(size) THEN [memory EXCEPT ![str] = "NUL"]
               ELSE IF size > 0 THEN [memory EXCEPT ![End(size)] = "NUL"] ELSE memory
  /\ ret' = str - Buf
  /\ UNCHANGED <<size, format, str>>

FormatNext == Finish \/ \E d \in Directive : Convert(d)
FormatSpec == FormatInit /\ [][FormatNext]_vsn

-----------------------------------------------------------------------------
(* A field is as wide as the directive asks, or else as its number: blanks   *)
(* at one end only, then sign, prefix, zeros and digits in this order; zeros *)
(* fill the field where ZEROPAD says so and LEFT does not.                   *)
NumberField ==
  format # <<>> =>
    LET d == format[Len(format)]
        out == Output(d)
        width == Field(d)
    IN d.conv \in {"d", "u", "o", "x"} =>
         \E blanks, zeros \in 0 .. Len(out) :
           LET body == Sign(d) \o Prefix(d) \o Rep("0", zeros) \o Rep("d", d.digits)
           IN /\ out = IF Left(d) THEN body \o Rep(" ", blanks) ELSE Rep(" ", blanks) \o body
              /\ blanks + Len(body) >= width
              /\ zeros + d.digits >= d.prec
              /\ blanks > 0 => Len(out) = width /\ ("ZEROPAD" \in d.flags => Left(d))
              /\ zeros > AtLeast0(d.prec - d.digits) => Len(out) = width /\ ~Left(d)

(* After a call the buffer holds what all directives put out, cut off to     *)
(* size - 1 characters, and NUL, and nothing is stored behind that: not past *)
(* the buffer either, when its size is zero or its end would wrap.  The call *)
(* returns the length before the cut.                                        *)
Terminated ==
  ret # -1 =>
    LET all == FlattenSeq([k \in DOMAIN format |-> Output(format[k])])
        n   == IF ret < size THEN ret ELSE size - 1
    IN /\ ret = Len(all)
       /\ \A a \in Buf .. Top :
            memory[a] = IF a < Buf + n THEN all[a - Buf + 1]
                        ELSE IF a = Buf + n THEN "NUL" ELSE "free"
=============================================================================
