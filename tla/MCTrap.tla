------------------------------- MODULE MCTrap -------------------------------
(* All exceptions of the CPU, with and without an error code, with a stub    *)
(* and without one; the timer's line and the keyboard's.                     *)
EXTENDS Trap

MCIrq == {0, 1}
MCException == (0 .. 14 \cup {16, 17, 18, 19}) \ {2}
=============================================================================
