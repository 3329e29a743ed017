-------------------------------- MODULE Trap --------------------------------
(* From an interrupt or an exception to its C handler and back: the gates of *)
(* the IDT, the stubs of interrupt.S and boot.S, the frame they build on the *)
(* stack of the context that was interrupted, and the way out.  Words are    *)
(* pairs <<kind, number>>; a place in the code is a word too.  Any line may  *)
(* interrupt while IF is set: Irq models what the 8259A masks.               *)
EXTENDS Integers, Sequences, SequencesExt

CONSTANTS
  Irq,       \* lines that may interrupt
  Exception, \* vectors of the exceptions C code may raise
  MaxDepth   \* bound: contexts that are interrupted at a time

NMI == 2
Vector == 0 .. 47   \* NR_VECTORS, as far as anything raises one
FIRST_EXTERNAL_VECTOR == 32

ASSUME TrapAssumption ==
  /\ Irq \subseteq 0 .. 15 /\ Exception \subseteq (0 .. 19) \ {NMI}
  /\ MaxDepth \in Nat

(* The exceptions for which the CPU pushes an error code.                    *)
WithCode == {8} \cup 10 .. 14 \cup {17}

VARIABLES
  idt,      \* idt_table: the gate of every vector
  pc, regs, iflag,
  stack,    \* the words from esp up to the top of the stack
  contexts, \* history: the interrupted contexts, the last one first
  fate      \* "runs", "astray" or "shutdown"

cpu  == <<pc, regs, iflag, stack>>
vars == <<idt, cpu, contexts, fate>>

-----------------------------------------------------------------------------
Selector(entry, rpl) == <<"selector", entry * 8 + rpl>>
KERNEL_CS == Selector(12, 0)
KERNEL_DS == Selector(13, 0)
USER_DS   == Selector(15, 3)

(* The GDT entries that are not null, but for those of the BIOS.             *)
Gdt == [e \in 12 .. 15 |-> IF e \in {12, 14} THEN "code" ELSE "data"]
Kind(selector) ==
  LET e == selector[2] \div 8 IN IF e \in DOMAIN Gdt THEN Gdt[e] ELSE "null"

At(name) == pc[1] = name
Place(name) == <<name, 0>>
Flags(if) == <<"eflags", IF if THEN 1 ELSE 0>>
Zero == <<"zero", 0>>
ErrorCode(v) == IF v \in WithCode THEN <<"code", v>> ELSE Zero

(* Pushes words, the first one first.                                        *)
Push(words, s) == Reverse(words) \o s
Values(names) == [k \in DOMAIN names |-> regs[names[k]]]
Set(names, words) == [r \in DOMAIN regs |->
  IF r \in ToSet(names) THEN words[CHOOSE k \in DOMAIN names : names[k] = r] ELSE regs[r]]

-----------------------------------------------------------------------------
(* Gates.  An interrupt gate clears IF, a trap gate leaves it.  The level of  *)
(* a gate would only matter to code of another level, which there is none of. *)
INTERRUPT == 14
TRAP == 15
TASK == 5
Gate(type, seg, name, n) == [type |-> type, seg |-> seg, entry |-> <<name, n>>]

setup_ign_idt == [v \in Vector |-> Gate(INTERRUPT, KERNEL_CS, "ignore_int", 0)]

(* What trap_init has the vectors handled by.                                *)
Stubs ==
  [v \in {0, 4, 5, 6} \cup 9 .. 14 \cup {17} |->
     CASE v = 0 -> "divide_error" [] v = 4 -> "overflow" [] v = 5 -> "bounds"
       [] v = 6 -> "invalid_op" [] v = 9 -> "coprocessor_segment_overrun"
       [] v = 10 -> "invalid_TSS" [] v = 11 -> "segment_not_present"
       [] v = 12 -> "stack_segment" [] v = 13 -> "general_protection"
       [] v = 14 -> "page_fault" [] v = 17 -> "alignment_check"]

(* Mutant: vector 13 is left out.                                            *)
TrapInitGap ==
  [v \in Vector |->
     IF v = 8 THEN Gate(TASK, Selector(31, 0), "none", 0)
     ELSE IF v \notin DOMAIN Stubs \/ v = 13 THEN idt[v]
     ELSE Gate(IF v = 14 THEN INTERRUPT ELSE TRAP, KERNEL_CS, Stubs[v], 0)]
(* Vector 8 gets a task gate, for an entry of the GDT that is null.          *)
trap_init ==
  [v \in Vector |->
     IF v = 8 THEN Gate(TASK, Selector(31, 0), "none", 0)
     ELSE IF v \notin DOMAIN Stubs THEN idt[v]
     ELSE Gate(IF v = 14 THEN INTERRUPT ELSE TRAP, KERNEL_CS, Stubs[v], 0)]

init_IRQ ==
  [v \in Vector |->
     IF v \in FIRST_EXTERNAL_VECTOR .. FIRST_EXTERNAL_VECTOR + 15
     THEN Gate(INTERRUPT, KERNEL_CS, "irq_entry", v - FIRST_EXTERNAL_VECTOR) ELSE idt[v]]

-----------------------------------------------------------------------------
(* The CPU enters a gate.  The task gate's null descriptor shuts it down.    *)
Enter(v) ==
  LET gate == idt[v] IN
    /\ fate = "runs" /\ Len(contexts) < MaxDepth
    /\ contexts' = <<[pc |-> pc, regs |-> regs, iflag |-> iflag, stack |-> stack,
                      vector |-> v]>> \o contexts
    /\ IF Kind(gate.seg) = "code"
       THEN /\ stack' = Push(<<Flags(iflag), KERNEL_CS, pc>>
                               \o (IF v \in WithCode THEN <<ErrorCode(v)>> ELSE <<>>), stack)
            /\ iflag' = (iflag /\ gate.type = TRAP)
            /\ pc' = gate.entry
            /\ UNCHANGED <<regs, fate>>
       ELSE fate' = "shutdown" /\ UNCHANGED cpu
    /\ UNCHANGED idt

(* The numbers in DO_ERROR_INFO.                                             *)
TrapNr ==
  [do_divide_error |-> 0, do_overflow |-> 4, do_bounds |-> 5, do_invalid_op |-> 6,
   do_coprocessor_segment_overrun |-> 9, do_invalid_TSS |-> 10,
   do_segment_not_present |-> 11, do_stack_segment |-> 12,
   do_general_protection |-> 13, do_page_fault |-> 14, do_alignment_check |-> 17]
Handlers == {"do_IRQ"} \cup DOMAIN TrapNr
InC == pc[1] \in Handlers \cup {"kernel_main"}

Interrupt(i) == iflag /\ Enter(FIRST_EXTERNAL_VECTOR + i)
Raise(v) == InC /\ Enter(v)
(* Between any two instructions, but not before the last one has its iret.   *)
NonMaskable ==
  /\ contexts # <<>> => Head(contexts).vector # NMI
  /\ Enter(NMI)

-----------------------------------------------------------------------------
(* An instruction or some of them; nothing runs any more once astray.        *)
Step(name) == fate = "runs" /\ At(name) /\ UNCHANGED <<idt, contexts, fate>>

IrqEntry ==
  /\ Step("irq_entry")
  /\ stack' = Push(<< <<"vector", pc[2] - 256>> >>, stack)
  /\ pc' = Place("common_interrupt")
  /\ UNCHANGED <<regs, iflag>>

(* Mutant: edi before esi, as in struct pt_regs of another layout.           *)
SaveSwapped == <<"es", "ds", "eax", "ebp", "esi", "edi", "edx", "ecx", "ebx">>
SAVE_ALL == <<"es", "ds", "eax", "ebp", "edi", "esi", "edx", "ecx", "ebx">>

(* eax is the address of the frame; the call pushes where to return to.      *)
CommonInterrupt ==
  /\ Step("common_interrupt")
  /\ LET frame == Push(Values(SAVE_ALL), stack) IN
       /\ stack' = Push(<<Place("ret_from_intr")>>, frame)
       /\ regs' = Set(<<"eax", "edx", "ds", "es">>,
                      << <<"esp", Len(frame)>>, USER_DS, USER_DS, USER_DS>>)
  /\ pc' = Place("do_IRQ")
  /\ UNCHANGED iflag

(* The stubs where the CPU pushes no error code push a zero for it.          *)
PushesZero == {"divide_error", "overflow", "bounds", "invalid_op",
               "coprocessor_segment_overrun"}
(* The handler whose address a stub pushes.                                  *)
Calls ==
  [divide_error |-> "do_divide_error", overflow |-> "do_overflow", bounds |-> "do_bounds",
   invalid_op |-> "do_invalid_op",
   coprocessor_segment_overrun |-> "do_coprocessor_segment_overrun",
   invalid_TSS |-> "do_invalid_TSS", segment_not_present |-> "do_segment_not_present",
   stack_segment |-> "do_stack_segment", general_protection |-> "do_general_protection",
   page_fault |-> "do_page_fault", alignment_check |-> "do_alignment_check"]
Stub(v) ==
  /\ Step(Stubs[v])
  /\ stack' = Push((IF Stubs[v] \in PushesZero THEN <<Zero>> ELSE <<>>)
                     \o <<Place(Calls[Stubs[v]])>>, stack)
  /\ pc' = Place("error_code")
  /\ UNCHANGED <<regs, iflag>>

ErrorSaved == <<"ds", "eax", "ebp", "edi", "esi", "edx", "ecx", "ebx">>
(* error_code: the rest of the frame is pushed; the handler's address is     *)
(* where es belongs, the error code where orig_eax does.                     *)
ErrorSave ==
  /\ Step("error_code")
  /\ stack' = Push(Values(ErrorSaved), stack)
  /\ pc' = Place("error_call")
  /\ UNCHANGED <<regs, iflag>>

(* Offsets of the frame, in words.                                           *)
ES == 8
ORIG_EAX == 9

ErrorCall ==
  /\ Step("error_call")
  /\ LET handler == stack[ES + 1] IN
       /\ stack' = Push(<<Place("ret_from_exception")>>,
                        [stack EXCEPT ![ES + 1] = regs["es"],
                                      ![ORIG_EAX + 1] = <<"minus", 1>>])
       /\ regs' = Set(<<"eax", "ecx", "edx", "edi", "ds", "es">>,
                      << <<"esp", Len(stack)>>, USER_DS, stack[ORIG_EAX + 1], handler,
                         USER_DS, USER_DS>>)
       /\ pc' = handler
  /\ UNCHANGED iflag

(* A C handler: it saves what the calling convention has it keep and works   *)
(* with all registers; handle_IRQ_event may enable interrupts.  What do_trap *)
(* stores through current, which nothing sets up, is left out.               *)
Kept == <<"ebp", "edi", "esi", "ebx">>
Scratch == <<"eax", "ecx", "edx">>
Handler(h) ==
  /\ Step(h) /\ pc[2] = 0
  /\ stack' = Push(Values(Kept), stack)
  /\ regs' = Set(Kept \o Scratch, [k \in 1 .. 7 |-> <<"work", 10 * Len(contexts) + k>>])
  /\ iflag' \in IF h = "do_IRQ" THEN BOOLEAN ELSE {iflag}
  /\ pc' = <<h, 1>>
Return(h) ==
  /\ Step(h) /\ pc[2] = 1
  /\ regs' = Set(Reverse(Kept), stack)
  /\ stack' = SubSeq(stack, Len(Kept) + 2, Len(stack))
  /\ iflag' = (iflag /\ h # "do_IRQ")
  /\ pc' = stack[Len(Kept) + 1]

RetFromException ==
  /\ Step("ret_from_exception")
  /\ iflag' = FALSE
  /\ pc' = Place("ret_from_intr")
  /\ UNCHANGED <<regs, stack>>

(* Whatever the test of EFLAGS and CS says, restore_all comes next.          *)
RetFromIntr ==
  /\ Step("ret_from_intr")
  /\ regs' = Set(<<"ebp", "eax">>, <<Zero, Zero>>)
  /\ pc' = Place("restore_all")
  /\ UNCHANGED <<iflag, stack>>

(* Mutant: edi is popped before esi.                                         *)
RestoreAllSwapped ==
  /\ Step("restore_all")
  /\ regs' = Set(<<"ebx", "ecx", "edx", "edi", "esi", "ebp", "eax", "ds", "es">>, stack)
  /\ stack' = SubSeq(stack, ORIG_EAX + 2, Len(stack))
  /\ pc' = Place("iret")
  /\ UNCHANGED iflag
RestoreAll ==
  /\ Step("restore_all")
  /\ regs' = Set(<<"ebx", "ecx", "edx", "esi", "edi", "ebp", "eax", "ds", "es">>, stack)
  /\ stack' = SubSeq(stack, ORIG_EAX + 2, Len(stack))
  /\ pc' = Place("iret")
  /\ UNCHANGED iflag

(* The gate of every vector that has no other one; its printk is commented   *)
(* out, what was pushed for it is dropped.                                   *)
IgnoreSaved == <<"eax", "ecx", "edx", "es", "ds">>
IgnoreInt ==
  /\ Step("ignore_int")
  /\ stack' = Push(Values(IgnoreSaved), stack)
  /\ regs' = Set(<<"eax", "ds", "es">>, <<KERNEL_DS, KERNEL_DS, KERNEL_DS>>)
  /\ pc' = Place("ignored")
  /\ UNCHANGED iflag
Ignored ==
  /\ Step("ignored")
  /\ regs' = Set(Reverse(IgnoreSaved), stack)
  /\ stack' = SubSeq(stack, Len(IgnoreSaved) + 1, Len(stack))
  /\ pc' = Place("iret")
  /\ UNCHANGED iflag

(* eip, cs and eflags are popped.  With an error code before them, the code  *)
(* is taken for eip and eip for cs.                                          *)
Iret ==
  /\ fate = "runs" /\ At("iret")
  /\ IF stack[2] = KERNEL_CS
     THEN /\ pc' = stack[1] /\ iflag' = (stack[3] = Flags(TRUE))
          /\ stack' = SubSeq(stack, 4, Len(stack))
          /\ contexts' = Tail(contexts)
          /\ UNCHANGED <<regs, fate>>
     ELSE fate' = "astray" /\ UNCHANGED <<cpu, contexts>>
  /\ UNCHANGED idt

-----------------------------------------------------------------------------
(* kernel_main: trap_init, init_IRQ, local_irq_enable, then the endless loop. *)
Boot(n, gates, if) ==
  /\ fate = "runs" /\ pc = <<"kernel_main", n>>
  /\ idt' = gates /\ iflag' = if
  /\ pc' = <<"kernel_main", n + 1>>
  /\ UNCHANGED <<regs, stack, contexts, fate>>
TrapInit == Boot(0, trap_init, FALSE)
InitIRQ  == Boot(1, init_IRQ, FALSE)
Enable   == Boot(2, idt, TRUE)

(* After setup_ign_idt.                                                      *)
Init ==
  /\ idt = setup_ign_idt
  /\ pc = <<"kernel_main", 0>>
  /\ regs = [r \in ToSet(SAVE_ALL) |-> IF r \in {"ds", "es"} THEN KERNEL_DS ELSE <<r, 0>>]
  /\ iflag = FALSE
  /\ stack = <<>> /\ contexts = <<>>
  /\ fate = "runs"

Event == NonMaskable \/ (\E i \in Irq : Interrupt(i)) \/ \E v \in Exception : Raise(v)
Cpu == \/ IrqEntry \/ CommonInterrupt \/ (\E v \in DOMAIN Stubs : Stub(v))
       \/ ErrorSave \/ ErrorCall \/ (\E h \in Handlers : Handler(h) \/ Return(h))
       \/ RetFromException \/ RetFromIntr \/ RestoreAll \/ IgnoreInt \/ Ignored \/ Iret
Next == Event \/ Cpu \/ TrapInit \/ InitIRQ \/ Enable
Spec == Init /\ [][Next]_vars

-----------------------------------------------------------------------------
Entered == fate = "runs" /\ pc[1] \in Handlers /\ pc[2] = 0
(* regs->field, by its place in struct pt_regs.                              *)
PtRegs == <<"ebx", "ecx", "edx", "esi", "edi", "ebp", "eax", "ds", "es">>
Field(k) == stack[Len(stack) - regs["eax"][2] + k]

(* The struct pt_regs a handler gets is the interrupted context, field by    *)
(* field, whichever stub built it and whatever came in between; the handler  *)
(* is the one of the vector and is told its line or its error code: the      *)
(* tables of traps.c, the stubs and the CPU agree.                           *)
FrameIsPtRegs ==
  Entered =>
    LET c == Head(contexts) IN
      /\ \A k \in DOMAIN PtRegs : Field(k) = c.regs[PtRegs[k]]
      /\ <<Field(11), Field(12), Field(13)>> = <<c.pc, KERNEL_CS, Flags(c.iflag)>>
      /\ IF At("do_IRQ") THEN Field(10)[2] % 256 = c.vector - FIRST_EXTERNAL_VECTOR
         ELSE TrapNr[pc[1]] = c.vector /\ regs["edx"] = ErrorCode(c.vector)

(* Whoever was interrupted goes on with the registers, the flags and the     *)
(* stack it had, however deep the contexts are nested.                       *)
ContextRestored ==
  [][Len(contexts') < Len(contexts) =>
       LET c == Head(contexts) IN
         /\ <<pc', iflag', stack'>> = <<c.pc, c.iflag, c.stack>>
         /\ regs' = c.regs]_vars

(* Control is only lost where no handler was installed yet, or to a double   *)
(* fault; all segments in use are ones the GDT has.                          *)
NeverAstray ==
  /\ fate = "astray" => contexts[Len(contexts)].pc = <<"kernel_main", 0>>
  /\ fate = "shutdown" => Head(contexts).vector = 8
  /\ \A r \in {"ds", "es"} : Kind(regs[r]) = "data"
=============================================================================
