------------------------------- MODULE MCIrq -------------------------------
(* The boot sequence of kernel_main (init_IRQ enables lines 0 and 1 and      *)
(* registers the keyboard, time_init the timer, then sti), followed by       *)
(* drivers as they could be added: two that share line 12, with handlers     *)
(* that run with interrupts on, the first of which enables the cascade, as   *)
(* the kernel leaves it masked; and one that asks for the timer's line.      *)
EXTENDS Irq

MCLine == {0, 1, 12}
MCBootLine == {0, 1}
MCSpurious == {7, 15}
MCEdges == [i \in MCLine \cup MCSpurious |-> IF i \in MCLine THEN 2 ELSE 1]
MCSpurious7 == {7}
MCTwice == [i \in MCBootLine \cup MCSpurious7 |-> IF i \in MCBootLine THEN 1 ELSE 2]
MCAction == {"timer", "kbd", "mouse", "disk"}
MCShirq == {"mouse", "disk"}
MCInt == {"timer", "kbd"}
Boot == << [op |-> "enable", irq |-> 0], [op |-> "enable", irq |-> 1],
           [op |-> "setup", irq |-> 1, act |-> "kbd"],
           [op |-> "setup", irq |-> 0, act |-> "timer"],
           [op |-> "sti"] >>
MCProgram == Boot \o << [op |-> "setup", irq |-> 12, act |-> "mouse"],
                        [op |-> "enable", irq |-> PIC_CASCADE_IR],
                        [op |-> "setup", irq |-> 12, act |-> "disk"],
                        [op |-> "setup", irq |-> 0, act |-> "disk"] >>
=============================================================================
