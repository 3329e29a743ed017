-------------------------------- MODULE Irq --------------------------------
(* Hardware interrupts on the one CPU: the pair of 8259A controllers, the    *)
(* descriptors irq_desc[], __do_IRQ and handle_IRQ_event, and setup_irq      *)
(* called by the boot sequence (and by drivers later) while lines fire.      *)
EXTENDS Integers, Sequences

CONSTANTS
  Line,       \* the interrupt lines that have a device
  Spurious,   \* lines the controllers may raise with nothing in service
  Action,     \* the irqactions drivers register
  SaShirq,    \* those with SA_SHIRQ
  SaInt,      \* those with SA_INTERRUPT
  Program,    \* what main does: a sequence of operations (see Op)
  MaxEdges    \* bound: how often each line fires, spuriously or not

Irq == Line \cup Spurious
NoIrq == -1   \* the frame of main
PIC_CASCADE_IR == 2   \* the pin of the master that has the slave; no device's line
Pin == Irq \cup {PIC_CASCADE_IR}

Op == [op : {"enable"}, irq : Pin] \cup [op : {"sti"}]
      \cup [op : {"setup"}, irq : Irq, act : Action]

ASSUME IrqAssumption ==
  /\ Irq \subseteq (0 .. 15) \ {PIC_CASCADE_IR}
  /\ SaShirq \subseteq Action /\ SaInt \subseteq Action
  /\ Program \in Seq(Op)
  /\ MaxEdges \in [Irq -> Nat]

(* Only lines of devices, and the cascade, are enabled or given an action;   *)
(* a line that init_IRQ enables has its action before kernel_main            *)
(* sets IF, or else gets it before it is enabled.                            *)
ASSUME BootAssumption ==
  /\ \A k \in DOMAIN Program :
       Program[k].op # "sti" => Program[k].irq \notin Spurious
  /\ \A e, s \in DOMAIN Program :
       Program[e].op = "enable" /\ Program[e].irq # PIC_CASCADE_IR /\ Program[s].op = "sti" =>
         \E r \in DOMAIN Program :
           /\ Program[r].op = "setup" /\ Program[r].irq = Program[e].irq
           /\ r < e \/ r < s

VARIABLES
  iflag,      \* IF of the CPU
  irr,        \* lines with a latched edge
  isr,        \* lines in service; 2 is the master's line for the slave
  imr,        \* pins the controllers mask, the cascade among them
  cached,     \* cached_irq_mask, as the set of masked lines
  picLock,    \* i8259A_lock is taken
  descLock,   \* lines whose irq_desc[].lock is taken
  status,     \* irq_desc[].status
  action,     \* irq_desc[].action, the chain as a sequence
  frames,     \* the contexts on the stack, main first; the last one runs
  at,         \* main's position in Program
  edges       \* edges raised so far on every line

pic  == <<isr, imr, cached>>
desc == <<status, action>>
vars == <<iflag, irr, pic, picLock, descLock, desc, frames, at, edges>>

-----------------------------------------------------------------------------
(* A frame: the line it serves, where it is, the position in the action      *)
(* chain, and the flags its two nested irqsave sections saved.               *)
NewFrame(i, pc) == [irq |-> i, pc |-> pc, turn |-> 0, outer |-> FALSE, inner |-> FALSE]

Cur == frames[Len(frames)]
Goto(pc) == frames' = [frames EXCEPT ![Len(frames)].pc = pc]
At(pc) == Cur.pc = pc

(* The operation main is at, and its line.                                   *)
OpNow == Program[at]
MainLine == IF at \in DOMAIN Program /\ OpNow.op # "sti" THEN OpNow.irq ELSE NoIrq

-----------------------------------------------------------------------------
(* The 8259A pair.                                                           *)
Slave(i) == i >= 8
(* The pin of the master through which line i comes.                         *)
MasterPin(i) == IF Slave(i) THEN PIC_CASCADE_IR ELSE i
(* The slave reaches the CPU only through a cascade that is not masked.      *)
Reachable(i) == Slave(i) => PIC_CASCADE_IR \notin imr

(* A device raises its line; the edge is latched also while it is masked.    *)
Edge(i) ==
  /\ i \in Line /\ edges[i] < MaxEdges[i]
  /\ edges' = [edges EXCEPT ![i] = @ + 1]
  /\ irr' = irr \cup {i}
  /\ UNCHANGED <<iflag, pic, picLock, descLock, desc, frames, at>>

(* The controllers ask for the line of highest priority that is not masked,  *)
(* unless a line of the same or a higher priority is in service.             *)
Requests(i) ==
  /\ i \in irr \ imr /\ Reachable(i)
  /\ \A s \in isr : Slave(s) /\ Slave(i) => i < s
  /\ \A s \in isr : ~Slave(s) => MasterPin(i) < s

Beats(i, j) == \/ MasterPin(i) < MasterPin(j)
               \/ MasterPin(i) = MasterPin(j) /\ i < j

Interrupt(i) ==
  /\ iflag
  /\ iflag' = FALSE
  /\ frames' = Append(frames, NewFrame(i, "do_irq"))

(* The CPU acknowledges the request and enters the stub of the line.         *)
Deliver(i) ==
  /\ Requests(i)
  /\ \A j \in irr : Requests(j) /\ j # i => Beats(i, j)
  /\ Interrupt(i)
  /\ irr' = irr \ {i}
  /\ isr' = isr \cup {i, MasterPin(i)}
  /\ UNCHANGED <<imr, cached, picLock, descLock, desc, at, edges>>

(* A request that is gone when the CPU acknowledges it reads as IRQ7 or      *)
(* IRQ15, masked or not, with nothing in service on that controller's line.  *)
SpuriousIrq(i) ==
  /\ i \in Spurious /\ edges[i] < MaxEdges[i]
  /\ Reachable(i)
  /\ edges' = [edges EXCEPT ![i] = @ + 1]
  /\ Interrupt(i)
  /\ isr' = isr \cup (IF Slave(i) THEN {PIC_CASCADE_IR} ELSE {})
  /\ UNCHANGED <<irr, imr, cached, picLock, descLock, desc, at>>

-----------------------------------------------------------------------------
(* spin_lock and spin_unlock of a line's lock; on one CPU no step of anybody  *)
(* else could give it back to who spins.                                     *)
SpinLock(i)   == i \notin descLock /\ descLock' = descLock \cup {i}
SpinUnlock(i) == descLock' = descLock \ {i}

(* spin_lock_irqsave(&i8259A_lock), and what the three routines of the       *)
(* controller do under it, with the unlock and the restored flags.           *)
PicEnter(from, to) ==
  /\ At(from) /\ ~picLock
  /\ frames' = [frames EXCEPT ![Len(frames)].pc = to,
                              ![Len(frames)].inner = iflag]
  /\ iflag' = FALSE
  /\ picLock' = TRUE
  /\ UNCHANGED <<irr, pic, descLock, desc, at, edges>>

(* Mutant: i8259A_lock is kept.                                              *)
PicLeaveHeld(to) ==
  /\ iflag' = Cur.inner
  /\ Goto(to)
  /\ UNCHANGED <<irr, picLock, descLock, action, at, edges>>
PicLeave(to) ==
  /\ iflag' = Cur.inner
  /\ picLock' = FALSE
  /\ Goto(to)
  /\ UNCHANGED <<irr, descLock, action, at, edges>>

(* The outb of the mask writes the half of the controller that has line i.   *)
WriteMask(i, mask) ==
  imr' = {j \in imr : Slave(j) # Slave(i)} \cup {j \in mask : Slave(j) = Slave(i)}

EnableBody(i) ==
  /\ cached' = cached \ {i}
  /\ WriteMask(i, cached')
  /\ status' = [status EXCEPT ![i] = "percpu"]
  /\ UNCHANGED isr

(* Mutants: the line is not masked; the master's line 2 gets no EOI.         *)
AckUnmasked(i) ==
  /\ isr' = isr \ {i, MasterPin(i)}
  /\ UNCHANGED <<status, cached, imr>>
AckSlaveOnly(i) ==
  /\ cached' = cached \cup {i}
  /\ WriteMask(i, cached')
  /\ isr' = isr \ {i}
  /\ UNCHANGED status

(* Mask the line, then the specific EOIs.  A line that is masked already is  *)
(* spurious or was in service; both go on to handle_real_irq.                *)
AckBody(i) ==
  /\ cached' = cached \cup {i}
  /\ WriteMask(i, cached')
  /\ isr' = isr \ {i, MasterPin(i)}
  /\ UNCHANGED status

-----------------------------------------------------------------------------
(* __do_IRQ.                                                                 *)
DoIrq ==
  /\ At("do_irq")
  /\ Goto(IF status[Cur.irq] = "percpu" THEN "ack" ELSE "lock")
  /\ UNCHANGED <<iflag, irr, pic, picLock, descLock, desc, at, edges>>

AckEnter == PicEnter("ack", "acking")
Ack ==
  /\ At("acking")
  /\ AckBody(Cur.irq)
  /\ PicLeave("handle")

(* handle_IRQ_event: interrupts go on, unless the first action forbids it.   *)
Handle ==
  /\ At("handle")
  /\ action[Cur.irq] # <<>>
  /\ iflag' = (iflag \/ Head(action[Cur.irq]) \notin SaInt)
  /\ frames' = [frames EXCEPT ![Len(frames)].pc = "run", ![Len(frames)].turn = 1]
  /\ UNCHANGED <<irr, pic, picLock, descLock, desc, at, edges>>

(* One handler of the chain; after the last, local_irq_disable.              *)
RunHandler ==
  /\ At("run")
  /\ LET last == Cur.turn = Len(action[Cur.irq]) IN
       /\ IF last THEN Goto("end")
          ELSE frames' = [frames EXCEPT ![Len(frames)].turn = @ + 1]
       /\ iflag' = (iflag /\ ~last)
  /\ UNCHANGED <<irr, pic, picLock, descLock, desc, at, edges>>

(* end_8259A_irq enables the line again if it is in use.                     *)
EndEnter ==
  /\ At("end")
  /\ IF status[Cur.irq] # "disabled" /\ action[Cur.irq] # <<>>
     THEN PicEnter("end", "ending")
     ELSE /\ Goto("iret")
          /\ UNCHANGED <<iflag, irr, pic, picLock, descLock, desc, at, edges>>
(* Mutant: the line stays masked.                                            *)
EndMasked ==
  /\ At("ending")
  /\ UNCHANGED <<cached, imr, status, isr>>
  /\ PicLeave("iret")
End ==
  /\ At("ending")
  /\ EnableBody(Cur.irq)
  /\ PicLeave("iret")

(* A line that is not per CPU: its lock is taken, the line is acknowledged,  *)
(* and __do_IRQ returns without giving the lock back.                        *)
LockLine ==
  /\ At("lock") /\ SpinLock(Cur.irq)
  /\ Goto("lostAck")
  /\ UNCHANGED <<iflag, irr, pic, picLock, desc, at, edges>>
LostAckEnter == PicEnter("lostAck", "lostAcking")
LostAck ==
  /\ At("lostAcking")
  /\ AckBody(Cur.irq)
  /\ PicLeave("iret")

Iret ==
  /\ At("iret")
  /\ frames' = SubSeq(frames, 1, Len(frames) - 1)
  /\ iflag' = TRUE
  /\ UNCHANGED <<irr, pic, picLock, descLock, desc, at, edges>>

-----------------------------------------------------------------------------
(* main: one operation of Program after the other, then an endless loop.     *)
Fetch(op) == At("main") /\ at \in DOMAIN Program /\ OpNow.op = op

Sti ==
  /\ Fetch("sti")
  /\ iflag' = TRUE
  /\ at' = at + 1
  /\ UNCHANGED <<irr, pic, picLock, descLock, desc, frames, edges>>

(* enable_8259A_irq, as init_IRQ calls it.                                   *)
EnableEnter == Fetch("enable") /\ PicEnter("main", "enabling")
(* Mutant: sti instead of the saved flags.                                   *)
EnableSti ==
  /\ At("enabling")
  /\ EnableBody(MainLine)
  /\ iflag' = TRUE /\ picLock' = FALSE
  /\ Goto("main") /\ at' = at + 1
  /\ UNCHANGED <<irr, descLock, action, edges>>
Enable ==
  /\ At("enabling")
  /\ EnableBody(MainLine)
  /\ iflag' = Cur.inner /\ picLock' = FALSE
  /\ Goto("main") /\ at' = at + 1
  /\ UNCHANGED <<irr, descLock, action, edges>>

(* setup_irq: spin_lock_irqsave(&desc->lock).                                *)
SetupEnter ==
  /\ Fetch("setup") /\ SpinLock(MainLine)
  /\ frames' = [frames EXCEPT ![Len(frames)].pc = "setup",
                              ![Len(frames)].outer = iflag]
  /\ iflag' = FALSE
  /\ UNCHANGED <<irr, pic, picLock, desc, at, edges>>

(* Both the first action of the chain and the new one must agree to share.   *)
MayShare(i, a) == Head(action[i]) \in SaShirq /\ a \in SaShirq

SetupBusy ==
  /\ At("setup")
  /\ action[MainLine] # <<>> /\ ~MayShare(MainLine, OpNow.act)
  /\ Goto("unlock")
  /\ UNCHANGED <<iflag, irr, pic, picLock, descLock, desc, at, edges>>

SetupShared ==
  /\ At("setup")
  /\ action[MainLine] # <<>> /\ MayShare(MainLine, OpNow.act)
  /\ action' = [action EXCEPT ![MainLine] = Append(@, OpNow.act)]
  /\ Goto("unlock")
  /\ UNCHANGED <<iflag, irr, pic, picLock, descLock, status, at, edges>>

(* The first action clears IRQ_DISABLED and starts the line up.              *)
SetupFirst ==
  /\ At("setup")
  /\ action[MainLine] = <<>>
  /\ action' = [action EXCEPT ![MainLine] = <<OpNow.act>>]
  /\ status' = [status EXCEPT ![MainLine] = IF @ = "disabled" THEN "idle" ELSE @]
  /\ Goto("startup")
  /\ UNCHANGED <<iflag, irr, pic, picLock, descLock, at, edges>>
StartupEnter == PicEnter("startup", "starting")
Startup ==
  /\ At("starting")
  /\ EnableBody(MainLine)
  /\ PicLeave("unlock")

SetupLeave ==
  /\ At("unlock")
  /\ SpinUnlock(MainLine)
  /\ iflag' = Cur.outer
  /\ Goto("main") /\ at' = at + 1
  /\ UNCHANGED <<irr, pic, picLock, desc, edges>>

(* while(1) at the end of kernel_main, with nothing left that could happen.  *)
Idle ==
  /\ At("main") /\ at \notin DOMAIN Program
  /\ \A i \in Irq : ~Requests(i)
  /\ UNCHANGED vars

-----------------------------------------------------------------------------
(* init_ISA_irqs: every pin masked, the cascade too, and disabled.           *)
Init ==
  /\ iflag = FALSE
  /\ irr = {} /\ isr = {}
  /\ imr = Pin /\ cached = Pin
  /\ picLock = FALSE /\ descLock = {}
  /\ status = [i \in Pin |-> "disabled"]
  /\ action = [i \in Irq |-> <<>>]
  /\ frames = <<NewFrame(NoIrq, "main")>>
  /\ at = 1
  /\ edges = [i \in Irq |-> 0]

Serve == \/ DoIrq \/ AckEnter \/ Ack \/ Handle \/ RunHandler
         \/ EndEnter \/ End \/ LockLine \/ LostAckEnter \/ LostAck \/ Iret
Main == \/ Sti \/ EnableEnter \/ Enable \/ SetupEnter \/ SetupBusy \/ SetupShared
        \/ SetupFirst \/ StartupEnter \/ Startup \/ SetupLeave
Cpu == Serve \/ Main \/ \E i \in Irq : Deliver(i)

Next == Cpu \/ Idle \/ \E i \in Irq : Edge(i) \/ SpuriousIrq(i)

(* The CPU goes on executing; devices need not raise anything.               *)
Spec == Init /\ [][Next]_vars /\ WF_vars(Cpu)

-----------------------------------------------------------------------------
(* Frames that have not yet sent the EOI of their line.                      *)
Unacked == {n \in DOMAIN frames : frames[n].pc \in {"do_irq", "ack", "acking",
                                                    "lock", "lostAck", "lostAcking"}}
Serving(i) == \E n \in DOMAIN frames : frames[n].irq = i

(* No context spins on a lock that it, or the code it interrupted, holds:    *)
(* with one CPU it would spin forever.                                       *)
NoSelfDeadlock ==
  /\ At("ack") \/ At("end") \/ At("lostAck") \/ At("startup") => ~picLock
  /\ At("lock") => Cur.irq \notin descLock
  /\ Fetch("enable") => ~picLock
  /\ Fetch("setup") => MainLine \notin descLock

(* handle_IRQ_event never follows an empty action chain, although init_IRQ   *)
(* unmasks lines 0 and 1 before anyone registers for them.                   *)
NeverNull == At("handle") => action[Cur.irq] # <<>>

(* The handlers of a line are never entered again before they return, also   *)
(* when they run with interrupts on (mask first, EOI second, unmask last).   *)
NoReentry ==
  \A m, n \in DOMAIN frames : m # n => frames[m].irq # frames[n].irq

(* Every line in service belongs to a frame that has still to acknowledge    *)
(* it: each interrupt, a spurious one too, gets exactly the EOIs it needs,   *)
(* or else the controller would keep all lines of lower priority back.       *)
EoiPaired == isr \subseteq UNION {{frames[n].irq, MasterPin(frames[n].irq)} : n \in Unacked}

(* Every latched edge is served: no line is forgotten while it is masked.    *)
(* A line of the slave is owed this only where somebody has opened the       *)
(* cascade, which nothing in the kernel does so far (i8259.c:256).           *)
EdgesServed ==
  \A i \in Line : (i \in irr /\ Reachable(i)) ~> (Serving(i) /\ At("run"))

(* "Theoretically we do not have to handle this IRQ, but in Linux this does  *)
(* not cause problems" (i8259.c:171): no spurious interrupt stops the CPU.   *)
SpuriousHarmless == At("lock") => Cur.irq \notin descLock
=============================================================================
