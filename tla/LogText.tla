------------------------------ MODULE LogText ------------------------------
(* What the kernel log promises: it holds the last Size characters that were  *)
(* written, in order, and nothing else changes it.                           *)
EXTENDS Naturals, Sequences

CONSTANTS Char, Size   \* the characters; LOG_BUF_LEN

VARIABLE text

Last(s) == SubSeq(s, IF Len(s) > Size THEN Len(s) - Size + 1 ELSE 1, Len(s))

Init == text = <<>>
Write(s) == text' = Last(text \o s)
(* printk writes a character, or a tag of three and the character.           *)
Next == \E c \in Char : Write(<<c>>) \/ \E d \in Char : Write(<<"<", d, ">", c>>)
Spec == Init /\ [][Next]_text
=============================================================================
