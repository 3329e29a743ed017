----------------------------- MODULE TrapProofs -----------------------------
(* Trap keeps every context it has interrupted, for every set of lines and   *)
(* exceptions and any depth: the invariant says what the stack of each       *)
(* context is made of at each place of the stubs, down to the next one.      *)
EXTENDS Trap, SequenceTheorems, TLAPS

Names == ToSet(SAVE_ALL)
StubNames == {Stubs[v] : v \in DOMAIN Stubs}
Ends == {"ret_from_exception", "ret_from_intr", "restore_all"}
Places == {"irq_entry", "common_interrupt", "error_code", "error_call", "ignore_int",
           "ignored", "iret", "kernel_main", "none"} \cup StubNames \cup Handlers \cup Ends
Kinds == {"selector", "eflags", "zero", "code", "minus", "esp", "vector", "work"}
           \cup Names \cup Places
Word == Kinds \X Int

Segs(r) == r["ds"] \in {KERNEL_DS, USER_DS} /\ r["es"] \in {KERNEL_DS, USER_DS}
Regs == {r \in [Names -> Word] : Segs(r)}
Context == [pc : Word, regs : Regs, iflag : BOOLEAN, stack : Seq(Word), vector : Vector]

(* trap_init has not run.                                                    *)
Early == idt = setup_ign_idt

-----------------------------------------------------------------------------
(* Below its first n words stack s is stack b.                               *)
On(s, n, b) == Len(s) = n + Len(b) /\ \A i \in n + 1 .. Len(s) : s[i] = b[i - n]

(* After n words comes what the CPU pushes when it interrupts c; or, as long *)
(* as there is only ignore_int, an error code before that.                   *)
Interrupted(s, n, c) ==
  /\ s[n + 1] = c.pc /\ s[n + 2] = KERNEL_CS /\ s[n + 3] = Flags(c.iflag)
  /\ On(s, n + 3, c.stack)
Ignoring(e, s, n, c) ==
  \/ Interrupted(s, n, c)
  \/ e /\ s[n + 1] = ErrorCode(c.vector) /\ Interrupted(s, n + 1, c)

(* After n words comes struct pt_regs, up to orig_eax.                       *)
Fields(s, n, c) == \A i \in n + 1 .. n + 9 : s[i] = c.regs[PtRegs[i - n]]

(* The handler of the vector of c.                                           *)
HandlerOf(c) == Calls[Stubs[c.vector]]
Faulted(c) == c.vector \in DOMAIN Stubs
Requested(c) == c.vector \in 32 .. 47
IrqWord(c) == <<"vector", c.vector - 288>>
Ways == {Place("ret_from_intr"), Place("ret_from_exception")}


-----------------------------------------------------------------------------
(* Registers r and stack s at place p, in a context that has interrupted c;  *)
(* e is whether there is only ignore_int.                                    *)
AtIrqEntry(p, r, s, c) ==
  Requested(c) /\ p[2] = c.vector - 32 /\ r = c.regs /\ Interrupted(s, 0, c)
AtCommon(r, s, c) ==
  Requested(c) /\ s[1] = IrqWord(c) /\ r = c.regs /\ Interrupted(s, 1, c)
AtStub(p, r, s, c) ==
  /\ Faulted(c) /\ p[1] = Stubs[c.vector] /\ r = c.regs
  /\ p[1] \in PushesZero => Interrupted(s, 0, c)
  /\ p[1] \notin PushesZero => s[1] = ErrorCode(c.vector) /\ Interrupted(s, 1, c)
AtErrorCode(r, s, c) ==
  /\ Faulted(c) /\ r = c.regs
  /\ s[1] = Place(HandlerOf(c)) /\ s[2] = ErrorCode(c.vector) /\ Interrupted(s, 2, c)
AtErrorCall(r, s, c) ==
  /\ Faulted(c) /\ r = c.regs
  /\ \A k \in 1 .. 8 : s[k] = c.regs[PtRegs[k]]
  /\ s[9] = Place(HandlerOf(c)) /\ s[10] = ErrorCode(c.vector) /\ Interrupted(s, 10, c)
AtHandler(p, r, s, c) ==
  /\ s[1] \in Ways /\ Fields(s, 1, c) /\ Interrupted(s, 11, c)
  /\ r["eax"] = <<"esp", Len(s) - 1>>
  /\ p[1] = "do_IRQ" => Requested(c) /\ s[11] = IrqWord(c)
  /\ p[1] # "do_IRQ" => Faulted(c) /\ p[1] = HandlerOf(c) /\ r["edx"] = ErrorCode(c.vector)
AtReturn(s, c) == s[5] \in Ways /\ Fields(s, 5, c) /\ Interrupted(s, 15, c)
AtEnd(s, c) == Fields(s, 0, c) /\ Interrupted(s, 10, c)
AtIgnoreInt(e, r, s, c) == r = c.regs /\ Ignoring(e, s, 0, c)
AtIgnored(e, r, s, c) ==
  /\ \A k \in 1 .. 5 : s[k] = c.regs[IgnoreSaved[6 - k]]
  /\ \A x \in Names \ {"eax", "ds", "es"} : r[x] = c.regs[x]
  /\ Ignoring(e, s, 5, c)

Good(e, p, r, s, c) ==
  \/ p[1] = "irq_entry" /\ AtIrqEntry(p, r, s, c)
  \/ p[1] = "common_interrupt" /\ AtCommon(r, s, c)
  \/ p[1] \in StubNames /\ AtStub(p, r, s, c)
  \/ p[1] = "error_code" /\ AtErrorCode(r, s, c)
  \/ p[1] = "error_call" /\ AtErrorCall(r, s, c)
  \/ p[1] \in Handlers /\ p[2] = 0 /\ AtHandler(p, r, s, c)
  \/ p[1] \in Handlers /\ p[2] = 1 /\ AtReturn(s, c)
  \/ p[1] \in Ends /\ AtEnd(s, c)
  \/ p[1] = "ignore_int" /\ AtIgnoreInt(e, r, s, c)
  \/ p[1] = "ignored" /\ AtIgnored(e, r, s, c)
  \/ p[1] = "iret" /\ AtIgnoreInt(e, r, s, c)

-----------------------------------------------------------------------------
(* The context that nothing was interrupted for: kernel_main.                *)
Main(p, s) == p[1] = "kernel_main" /\ s = <<>>

GateOf(v) ==
  \/ /\ idt[v].seg = KERNEL_CS /\ idt[v].entry = Place("ignore_int")
     /\ v \in WithCode => Early
  \/ /\ idt[v].seg = KERNEL_CS /\ v \in DOMAIN Stubs /\ idt[v].entry = Place(Stubs[v])
  \/ /\ idt[v].seg = KERNEL_CS /\ v \in 32 .. 47 /\ idt[v].entry = <<"irq_entry", v - 32>>
  \/ v = 8 /\ Kind(idt[v].seg) = "null"

Chain ==
  /\ \A k \in 1 .. Len(contexts) - 1 :
       Good(Early, contexts[k].pc, contexts[k].regs, contexts[k].stack, contexts[k + 1])
  /\ contexts = <<>> => Main(pc, stack)
  /\ contexts # <<>> =>
       /\ Good(Early, pc, regs, stack, contexts[1])
       /\ Main(contexts[Len(contexts)].pc, contexts[Len(contexts)].stack)

Bottom == IF contexts = <<>> THEN pc ELSE contexts[Len(contexts)].pc

Typed ==
  /\ pc \in Word /\ regs \in Regs /\ iflag \in BOOLEAN /\ stack \in Seq(Word)
  /\ contexts \in Seq(Context)

Runs ==
  /\ Typed /\ Chain
  /\ DOMAIN idt = Vector /\ \A v \in Vector : GateOf(v)
  /\ Early => Bottom = <<"kernel_main", 0>>

IInv ==
  /\ fate \in {"runs", "astray", "shutdown"}
  /\ fate = "runs" => Runs
  /\ NeverAstray

-----------------------------------------------------------------------------
(* The tables, entry by entry.                                               *)
LEMMA NamesAre ==
  Names = {"es", "ds", "eax", "ebp", "edi", "esi", "edx", "ecx", "ebx"}
PROOF
<1>1. DOMAIN SAVE_ALL = 1 .. 9
  BY DEF SAVE_ALL
<1> QED
  BY <1>1 DEF Names, ToSet, SAVE_ALL

LEMMA StubsAre ==
  /\ DOMAIN Stubs = {0, 4, 5, 6, 9, 10, 11, 12, 13, 14, 17}
  /\ Stubs[0] = "divide_error" /\ Stubs[4] = "overflow" /\ Stubs[5] = "bounds"
  /\ Stubs[6] = "invalid_op" /\ Stubs[9] = "coprocessor_segment_overrun"
  /\ Stubs[10] = "invalid_TSS" /\ Stubs[11] = "segment_not_present"
  /\ Stubs[12] = "stack_segment" /\ Stubs[13] = "general_protection"
  /\ Stubs[14] = "page_fault" /\ Stubs[17] = "alignment_check"
PROOF
<1>1. DOMAIN Stubs = {0, 4, 5, 6, 9, 10, 11, 12, 13, 14, 17}
  BY DEF Stubs
<1> QED
  BY <1>1 DEF Stubs

(* For every vector with a stub: whether the stub pushes a zero is whether   *)
(* the CPU pushes no error code, and the handler is the one of the vector.   *)
LEMMA TablesAgree ==
  ASSUME NEW v \in DOMAIN Stubs
  PROVE  /\ Stubs[v] \in PushesZero <=> v \notin WithCode
         /\ Calls[Stubs[v]] \in DOMAIN TrapNr /\ TrapNr[Calls[Stubs[v]]] = v
         /\ Calls[Stubs[v]] \in Places \cap Handlers /\ Calls[Stubs[v]] # "do_IRQ"
         /\ v \in Vector /\ v < 32 /\ v # 8
PROOF
<1>1. Stubs[v] \in PushesZero <=> v \notin WithCode
  BY StubsAre DEF PushesZero, WithCode
<1>2. Calls[Stubs[v]] \in DOMAIN TrapNr /\ TrapNr[Calls[Stubs[v]]] = v
  BY StubsAre DEF Calls, TrapNr
<1>3. Calls[Stubs[v]] # "do_IRQ"
  BY StubsAre DEF Calls
<1>4. v \in Vector /\ v < 32 /\ v # 8
  BY StubsAre DEF Vector
<1> QED
  BY <1>1, <1>2, <1>3, <1>4 DEF Handlers, Places

LEMMA StubNamesAre ==
  StubNames = {"divide_error", "overflow", "bounds", "invalid_op",
               "coprocessor_segment_overrun", "invalid_TSS", "segment_not_present",
               "stack_segment", "general_protection", "page_fault", "alignment_check"}
PROOF
<1>1. \A x : x \in StubNames <=> \E v \in DOMAIN Stubs : x = Stubs[v]
  BY DEF StubNames
<1> QED
  BY <1>1, StubsAre

LEMMA HandlersAre ==
  Handlers = {"do_IRQ", "do_divide_error", "do_overflow", "do_bounds", "do_invalid_op",
              "do_coprocessor_segment_overrun", "do_invalid_TSS", "do_segment_not_present",
              "do_stack_segment", "do_general_protection", "do_page_fault",
              "do_alignment_check"}
PROOF
  BY DEF Handlers, TrapNr

LEMMA PlacesAre ==
  /\ "irq_entry" \in Places /\ "common_interrupt" \in Places /\ "error_code" \in Places
  /\ "error_call" \in Places /\ "ignore_int" \in Places /\ "ignored" \in Places
  /\ "iret" \in Places /\ "kernel_main" \in Places
  /\ "do_IRQ" \in Places /\ "restore_all" \in Places
  /\ "ret_from_intr" \in Places /\ "ret_from_exception" \in Places
  /\ StubNames \subseteq Places /\ Handlers \subseteq Places /\ Ends \subseteq Places
PROOF
<1>1. /\ StubNames \subseteq Places /\ Handlers \subseteq Places /\ Ends \subseteq Places
      /\ "irq_entry" \in Places /\ "common_interrupt" \in Places /\ "error_code" \in Places
      /\ "error_call" \in Places /\ "ignore_int" \in Places /\ "ignored" \in Places
      /\ "iret" \in Places /\ "kernel_main" \in Places
  BY DEF Places
<1>2. "ret_from_intr" \in Ends /\ "ret_from_exception" \in Ends /\ "restore_all" \in Ends
  BY DEF Ends
<1>3. "do_IRQ" \in Handlers
  BY HandlersAre
<1> QED
  BY <1>1, <1>2, <1>3

LEMMA KindsAre ==
  /\ Names \subseteq Kinds /\ Places \subseteq Kinds
  /\ "selector" \in Kinds /\ "eflags" \in Kinds /\ "zero" \in Kinds /\ "code" \in Kinds
  /\ "minus" \in Kinds /\ "esp" \in Kinds /\ "vector" \in Kinds /\ "work" \in Kinds
PROOF
  BY DEF Kinds

(* The words of the model are words.                                         *)
LEMMA WordFacts ==
  /\ \A name \in Kinds, n \in Int : <<name, n>> \in Word
  /\ \A w \in Word : w[1] \in Kinds /\ w[2] \in Int /\ w = <<w[1], w[2]>>
  /\ \A name \in Places : Place(name) \in Word /\ <<name, 0>> \in Word
  /\ \A if : Flags(if) \in Word
  /\ \A v \in Int : ErrorCode(v) \in Word
  /\ Zero \in Word /\ KERNEL_CS \in Word /\ KERNEL_DS \in Word /\ USER_DS \in Word
PROOF
<1>1. \A name \in Kinds, n \in Int : <<name, n>> \in Word
  BY DEF Word
<1>2. \A w \in Word : w[1] \in Kinds /\ w[2] \in Int /\ w = <<w[1], w[2]>>
  BY DEF Word
<1>3. \A name \in Places : Place(name) \in Word /\ <<name, 0>> \in Word
  <2>1. ASSUME NEW name \in Places
        PROVE  <<name, 0>> \in Word
    <3>1. name \in Kinds
      BY KindsAre
    <3> QED
      BY <3>1, <1>1
  <2> QED
    BY <2>1 DEF Place
<1>4. "selector" \in Kinds /\ "eflags" \in Kinds /\ "zero" \in Kinds /\ "code" \in Kinds
  BY KindsAre
<1>5. \A if : Flags(if) \in Word
  BY <1>1, <1>4 DEF Flags
<1>6. Zero \in Word /\ KERNEL_CS \in Word /\ KERNEL_DS \in Word /\ USER_DS \in Word
  BY <1>1, <1>4 DEF Zero, KERNEL_CS, KERNEL_DS, USER_DS, Selector
<1>7. \A v \in Int : ErrorCode(v) \in Word
  BY <1>1, <1>4, <1>6 DEF ErrorCode
<1> QED
  BY <1>1, <1>2, <1>3, <1>5, <1>6, <1>7

LEMMA ContextFacts ==
  ASSUME NEW c \in Context
  PROVE  /\ c.pc \in Word /\ c.regs \in Regs /\ c.iflag \in BOOLEAN
         /\ c.stack \in Seq(Word) /\ c.vector \in Vector /\ c.vector \in Int
PROOF
<1>1. Vector \subseteq Int
  BY DEF Vector
<1> QED
  BY <1>1 DEF Context

(* Stack t is stack s with m more words on top.                              *)
Above(t, m, s) ==
  Len(t) = m + Len(s) /\ \A i \in m + 1 .. m + Len(s) : t[i] = s[i - m]

(* What Push puts where.                                                     *)
LEMMA PushFacts ==
  ASSUME NEW w \in Seq(Word), NEW s \in Seq(Word), NEW t, t = Push(w, s)
  PROVE  /\ t \in Seq(Word) /\ Above(t, Len(w), s)
         /\ \A i \in 1 .. Len(w) : t[i] = w[Len(w) - i + 1]
PROOF
<1> DEFINE r == [i \in 1 .. Len(w) |-> w[(Len(w) - i) + 1]]
<1>1. Len(w) \in Nat /\ Len(s) \in Nat /\ \A i \in 1 .. Len(w) : w[i] \in Word
  OBVIOUS
<1>2. \A i \in 1 .. Len(w) : r[i] = w[Len(w) - i + 1] /\ r[i] \in Word
  BY <1>1
<1>3. r \in Seq(Word) /\ Len(r) = Len(w)
  BY <1>1, <1>2
<1>4. t = r \o s
  BY DEF Push, Reverse
<1> HIDE DEF r
<1>5. /\ r \o s \in Seq(Word) /\ Len(r \o s) = Len(r) + Len(s)
      /\ \A i \in 1 .. Len(r) + Len(s) :
           (r \o s)[i] = IF i <= Len(r) THEN r[i] ELSE s[i - Len(r)]
  BY <1>3, ConcatProperties
<1> QED
  BY <1>1, <1>2, <1>3, <1>4, <1>5 DEF Above

(* What is left when the first m words are popped.                           *)
LEMMA PopFacts ==
  ASSUME NEW s \in Seq(Word), NEW m \in Nat, m <= Len(s), NEW t,
         t = SubSeq(s, m + 1, Len(s))
  PROVE  /\ t \in Seq(Word) /\ Above(s, m, t)
PROOF
<1>1. Len(s) \in Nat
  OBVIOUS
<1>2. t = [i \in 1 .. Len(s) - m |-> s[i + m]]
  BY <1>1
<1>3. t \in Seq(Word) /\ Len(t) = Len(s) - m
  BY <1>1, <1>2
<1>4. ASSUME NEW i \in m + 1 .. m + Len(t)
      PROVE  s[i] = t[i - m]
  <2>1. i - m \in 1 .. Len(s) - m /\ (i - m) + m = i
    BY <1>1, <1>3
  <2>2. t[i - m] = s[(i - m) + m]
    BY <2>1, <1>2
  <2> QED
    BY <2>1, <2>2
<1>5. Len(s) = m + Len(t)
  BY <1>1, <1>3
<1> QED
  BY <1>3, <1>4, <1>5 DEF Above

(* What is on a stack from some word on is still there above more words, and *)
(* the other way round.                                                      *)
LEMMA AboveInterrupted ==
  ASSUME NEW t \in Seq(Word), NEW s \in Seq(Word), NEW m \in Nat, Above(t, m, s),
         NEW c \in Context, NEW n \in Nat, NEW k, k = m + n
  PROVE  Interrupted(s, n, c) <=> Interrupted(t, k, c)
PROOF
<1>1. PICK b, l, h : b = c.stack /\ l = Len(s) /\ h = Len(b)
  OBVIOUS
<1>2. l \in Nat /\ h \in Nat /\ k \in Nat
  BY <1>1, ContextFacts
<1>3. Len(t) = m + l /\ \A i \in m + 1 .. m + l : t[i] = s[i - m]
  BY <1>1 DEF Above
<1>4. CASE l = n + 3 + h
  <2>1. Len(t) = k + 3 + h
    BY <1>2, <1>3, <1>4
  <2>2. /\ t[k + 1] = s[n + 1] /\ t[k + 2] = s[n + 2] /\ t[k + 3] = s[n + 3]
    BY <1>2, <1>3, <1>4
  <2>3. \A i \in k + 3 + 1 .. k + 3 + h : t[i] = s[i - m]
    BY <1>2, <1>3, <1>4
  <2>4. ASSUME \A i \in n + 3 + 1 .. n + 3 + h : s[i] = b[i - (n + 3)],
               NEW i \in k + 3 + 1 .. k + 3 + h
        PROVE  t[i] = b[i - (k + 3)]
    <3>1. i - m \in n + 3 + 1 .. n + 3 + h /\ (i - m) - (n + 3) = i - (k + 3)
      BY <1>2
    <3>2. s[i - m] = b[(i - m) - (n + 3)]
      BY <3>1, <2>4
    <3> QED
      BY <3>1, <3>2, <2>3
  <2>5. ASSUME \A i \in k + 3 + 1 .. k + 3 + h : t[i] = b[i - (k + 3)],
               NEW i \in n + 3 + 1 .. n + 3 + h
        PROVE  s[i] = b[i - (n + 3)]
    <3>1. /\ i + m \in k + 3 + 1 .. k + 3 + h /\ (i + m) - (k + 3) = i - (n + 3)
          /\ (i + m) - m = i
      BY <1>2
    <3>2. t[i + m] = b[(i + m) - (k + 3)] /\ t[i + m] = s[(i + m) - m]
      BY <3>1, <2>3, <2>5
    <3> QED
      BY <3>1, <3>2
  <2>6. On(s, n + 3, b) <=> On(t, k + 3, b)
    <3>1. On(s, n + 3, b) <=> \A i \in n + 3 + 1 .. n + 3 + h : s[i] = b[i - (n + 3)]
      BY <1>1, <1>4 DEF On
    <3>2. On(t, k + 3, b) <=> \A i \in k + 3 + 1 .. k + 3 + h : t[i] = b[i - (k + 3)]
      BY <1>1, <2>1 DEF On
    <3> QED
      BY <3>1, <3>2, <2>4, <2>5
  <2> QED
    BY <2>2, <2>6, <1>1 DEF Interrupted
<1>5. CASE l # n + 3 + h
  <2>1. ~ On(s, n + 3, b)
    BY <1>1, <1>5 DEF On
  <2>2. Len(t) # k + 3 + h
    BY <1>2, <1>3, <1>5
  <2>3. ~ On(t, k + 3, b)
    BY <1>1, <2>2 DEF On
  <2> QED
    BY <2>1, <2>3, <1>1 DEF Interrupted
<1> QED
  BY <1>4, <1>5

LEMMA AboveFields ==
  ASSUME NEW t \in Seq(Word), NEW s \in Seq(Word), NEW m \in Nat, Above(t, m, s),
         NEW c, NEW n \in Nat, NEW k, k = m + n, n + 9 <= Len(s)
  PROVE  Fields(s, n, c) <=> Fields(t, k, c)
PROOF
<1>1. PICK l : l = Len(s) /\ l \in Nat
  OBVIOUS
<1>2. \A i \in m + 1 .. m + l : t[i] = s[i - m]
  BY <1>1 DEF Above
<1>3. ASSUME \A i \in n + 1 .. n + 9 : s[i] = c.regs[PtRegs[i - n]],
             NEW i \in k + 1 .. k + 9
      PROVE  t[i] = c.regs[PtRegs[i - k]]
  <2>1. i - m \in n + 1 .. n + 9 /\ i \in m + 1 .. m + l /\ (i - m) - n = i - k
    BY <1>1
  <2> QED
    BY <2>1, <1>2, <1>3
<1>4. ASSUME \A i \in k + 1 .. k + 9 : t[i] = c.regs[PtRegs[i - k]],
             NEW i \in n + 1 .. n + 9
      PROVE  s[i] = c.regs[PtRegs[i - n]]
  <2>1. /\ i + m \in k + 1 .. k + 9 /\ i + m \in m + 1 .. m + l /\ (i + m) - k = i - n
        /\ (i + m) - m = i
    BY <1>1
  <2>2. t[i + m] = s[(i + m) - m] /\ t[i + m] = c.regs[PtRegs[(i + m) - k]]
    BY <2>1, <1>2, <1>4
  <2> QED
    BY <2>1, <2>2
<1> QED
  BY <1>3, <1>4 DEF Fields

(* Enough words are there.                                                   *)
LEMMA LongEnough ==
  ASSUME NEW s \in Seq(Word), NEW n \in Nat, NEW c \in Context, Interrupted(s, n, c)
  PROVE  Len(s) \in Nat /\ n + 3 <= Len(s)
PROOF
<1>1. PICK l, h : l = Len(s) /\ h = Len(c.stack)
  OBVIOUS
<1>2. l \in Nat /\ h \in Nat
  BY <1>1, ContextFacts
<1>3. l = n + 3 + h
  BY <1>1 DEF Interrupted, On
<1>4. n + 3 <= l
  BY <1>2, <1>3
<1> QED
  BY <1>1, <1>2, <1>4

(* A list of n registers, none of them twice.                                *)
Lists(names, n) ==
  /\ DOMAIN names = 1 .. n /\ \A k \in 1 .. n : names[k] \in Names
  /\ \A j, k \in 1 .. n : names[j] = names[k] => j = k

(* What the words are that a list of registers names.                        *)
LEMMA ValuesFacts ==
  ASSUME regs \in Regs, NEW names, NEW n \in Nat, Lists(names, n), NEW w, w = Values(names)
  PROVE  w \in Seq(Word) /\ Len(w) = n /\ \A k \in 1 .. n : w[k] = regs[names[k]]
PROOF
<1>1. w = [k \in 1 .. n |-> regs[names[k]]]
  BY DEF Values, Lists
<1>2. \A k \in 1 .. n : regs[names[k]] \in Word
  BY DEF Regs, Lists
<1> QED
  BY <1>1, <1>2

(* What the registers are that a list of them sets.                          *)
LEMMA SetFacts ==
  ASSUME regs \in Regs, NEW names, NEW words, NEW n \in Nat, Lists(names, n),
         \A k \in 1 .. n : words[k] \in Word, NEW r, r = Set(names, words)
  PROVE  /\ r \in [Names -> Word]
         /\ \A k \in 1 .. n : r[names[k]] = words[k]
         /\ \A x \in Names : (\A k \in 1 .. n : names[k] # x) => r[x] = regs[x]
PROOF
<1>1. DOMAIN regs = Names /\ regs \in [Names -> Word]
  BY DEF Regs
<1>2. ToSet(names) = {names[k] : k \in 1 .. n}
  BY DEF ToSet, Lists
<1>3. ASSUME NEW k \in 1 .. n
      PROVE  r[names[k]] = words[k]
  <2>1. names[k] \in Names /\ names[k] \in ToSet(names)
    BY <1>2 DEF Lists
  <2>2. r[names[k]] = words[CHOOSE j \in 1 .. n : names[j] = names[k]]
    BY <1>1, <2>1 DEF Set, Lists
  <2>3. (CHOOSE j \in 1 .. n : names[j] = names[k]) = k
    BY DEF Lists
  <2> QED
    BY <2>2, <2>3
<1>4. ASSUME NEW x \in Names, \A k \in 1 .. n : names[k] # x
      PROVE  r[x] = regs[x]
  BY <1>1, <1>2, <1>4 DEF Set
<1>5. ASSUME NEW x \in Names
      PROVE  r[x] \in Word
  <2>1. CASE \A k \in 1 .. n : names[k] # x
    BY <2>1, <1>1, <1>4
  <2>2. CASE \E k \in 1 .. n : names[k] = x
    BY <2>2, <1>3
  <2> QED
    BY <2>1, <2>2
<1>6. r = [x \in Names |-> r[x]]
  BY <1>1 DEF Set
<1> QED
  BY <1>3, <1>4, <1>5, <1>6

-----------------------------------------------------------------------------
(* What the invariant says at each place.                                    *)
LEMMA Phases ==
  ASSUME NEW e, NEW p, NEW r, NEW s, NEW c, Good(e, p, r, s, c)
  PROVE  /\ p[1] = "irq_entry" => AtIrqEntry(p, r, s, c)
         /\ p[1] = "common_interrupt" => AtCommon(r, s, c)
         /\ p[1] \in StubNames => AtStub(p, r, s, c)
         /\ p[1] = "error_code" => AtErrorCode(r, s, c)
         /\ p[1] = "error_call" => AtErrorCall(r, s, c)
         /\ p[1] \in Handlers /\ p[2] = 0 => AtHandler(p, r, s, c)
         /\ p[1] \in Handlers /\ p[2] = 1 => AtReturn(s, c)
         /\ p[1] \in Ends => AtEnd(s, c)
         /\ p[1] = "ignore_int" => AtIgnoreInt(e, r, s, c)
         /\ p[1] = "ignored" => AtIgnored(e, r, s, c)
         /\ p[1] = "iret" => AtIgnoreInt(e, r, s, c)
         /\ p[1] # "kernel_main"
PROOF
  BY StubNamesAre, HandlersAre DEF Good, Ends

(* The state of the context that runs is well formed, and good.              *)
Now(e, c) ==
  /\ pc \in Word /\ regs \in Regs /\ iflag \in BOOLEAN /\ stack \in Seq(Word)
  /\ Good(e, pc, regs, stack, c)

LEMMA IrqEntryStep ==
  ASSUME NEW e, NEW c \in Context, Now(e, c), IrqEntry
  PROVE  Now(e, c)'
PROOF
<1>1. AtIrqEntry(pc, regs, stack, c)
  BY Phases DEF Now, IrqEntry, Step, At
<1> DEFINE w == << <<"vector", pc[2] - 256>> >>
<1>2. /\ stack' = Push(w, stack) /\ pc' = <<"common_interrupt", 0>>
      /\ regs' = regs /\ iflag' = iflag
  BY DEF IrqEntry, Place
<1>3. w \in Seq(Word) /\ Len(w) = 1 /\ w[1] = IrqWord(c)
  <2>1. c.vector \in Int
    BY ContextFacts
  <2>2. pc[2] - 256 = c.vector - 288 /\ c.vector - 288 \in Int
    BY <1>1, <2>1 DEF AtIrqEntry
  <2>3. "vector" \in Kinds
    BY DEF Kinds
  <2>4. IrqWord(c) \in Word /\ w = <<IrqWord(c)>>
    BY <2>2, <2>3, WordFacts DEF IrqWord
  <2> QED
    BY <2>4
<1> HIDE DEF w
<1>4. stack' \in Seq(Word) /\ stack'[1] = IrqWord(c) /\ Above(stack', 1, stack)
  <2>1. /\ stack' \in Seq(Word) /\ Above(stack', Len(w), stack)
        /\ \A i \in 1 .. Len(w) : stack'[i] = w[Len(w) - i + 1]
    BY <1>2, <1>3, PushFacts DEF Now
  <2> QED
    BY <2>1, <1>3
<1>5. Interrupted(stack', 1, c)
  <2>1. Interrupted(stack, 0, c)
    BY <1>1 DEF AtIrqEntry
  <2> QED
    BY <2>1, <1>4, AboveInterrupted DEF Now
<1>6. pc' \in Word
  BY <1>2, WordFacts, PlacesAre
<1> QED
  BY <1>1, <1>2, <1>4, <1>5, <1>6 DEF Now, Good, AtIrqEntry, AtCommon

(* A list of registers is pushed.                                            *)
LEMMA Saved ==
  ASSUME regs \in Regs, stack \in Seq(Word), NEW names, NEW n \in Nat, Lists(names, n),
         NEW t, t = Push(Values(names), stack)
  PROVE  /\ t \in Seq(Word) /\ Above(t, n, stack)
         /\ \A i \in 1 .. n : t[i] = regs[names[n - i + 1]]
PROOF
<1>1. PICK w : w = Values(names)
  OBVIOUS
<1>2. w \in Seq(Word) /\ Len(w) = n /\ \A k \in 1 .. n : w[k] = regs[names[k]]
  BY <1>1, ValuesFacts
<1>3. t = Push(w, stack)
  BY <1>1
<1>4. /\ t \in Seq(Word) /\ Above(t, Len(w), stack)
      /\ \A i \in 1 .. Len(w) : t[i] = w[Len(w) - i + 1]
  BY <1>2, <1>3, PushFacts
<1>5. ASSUME NEW i \in 1 .. n
      PROVE  t[i] = regs[names[n - i + 1]]
  <2>1. n - i + 1 \in 1 .. n
    OBVIOUS
  <2> QED
    BY <2>1, <1>2, <1>4
<1> QED
  BY <1>2, <1>4, <1>5

(* SAVE_ALL builds struct pt_regs from its end.                              *)
LEMMA SaveAllFacts ==
  Lists(SAVE_ALL, 9) /\ \A i \in 1 .. 9 : SAVE_ALL[9 - i + 1] = PtRegs[i]
PROOF
  BY NamesAre DEF Lists, SAVE_ALL, PtRegs

(* One word is pushed.                                                       *)
LEMMA PushOne ==
  ASSUME NEW x \in Word, NEW s \in Seq(Word), NEW t, t = Push(<<x>>, s)
  PROVE  t \in Seq(Word) /\ t[1] = x /\ Above(t, 1, s)
PROOF
<1>1. PICK w : w = <<x>>
  OBVIOUS
<1>2. w \in Seq(Word) /\ Len(w) = 1 /\ w[1] = x
  BY <1>1
<1>3. t = Push(w, s)
  BY <1>1
<1>4. /\ t \in Seq(Word) /\ Above(t, Len(w), s)
      /\ \A i \in 1 .. Len(w) : t[i] = w[Len(w) - i + 1]
  BY <1>2, <1>3, PushFacts
<1> QED
  BY <1>2, <1>4

LEMMA CommonInterruptStep ==
  ASSUME NEW e, NEW c \in Context, Now(e, c), CommonInterrupt
  PROVE  Now(e, c)'
PROOF
<1>1. AtCommon(regs, stack, c) /\ regs \in Regs /\ stack \in Seq(Word)
  BY Phases DEF Now, CommonInterrupt, Step, At
<1>2. PICK f : f = Push(Values(SAVE_ALL), stack)
  OBVIOUS
<1>3. /\ stack' = Push(<<Place("ret_from_intr")>>, f) /\ pc' = <<"do_IRQ", 0>>
      /\ regs' = Set(<<"eax", "edx", "ds", "es">>,
                     << <<"esp", Len(f)>>, USER_DS, USER_DS, USER_DS>>)
      /\ iflag' = iflag
  BY <1>2 DEF CommonInterrupt, Place
<1>5. f \in Seq(Word) /\ Above(f, 9, stack) /\ \A i \in 1 .. 9 : f[i] = regs[SAVE_ALL[9 - i + 1]]
  <2>1. PICK names, n : names = SAVE_ALL /\ n = 9
    OBVIOUS
  <2>2. n \in Nat /\ Lists(names, n) /\ f = Push(Values(names), stack)
    BY <2>1, <1>2, SaveAllFacts
  <2>3. /\ f \in Seq(Word) /\ Above(f, n, stack)
        /\ \A i \in 1 .. n : f[i] = regs[names[n - i + 1]]
    BY <2>2, <1>1, Saved
  <2> QED
    BY <2>1, <2>3
<1>6. Interrupted(f, 10, c) /\ Len(f) \in Nat /\ 13 <= Len(f)
  <2>1. Interrupted(stack, 1, c)
    BY <1>1 DEF AtCommon
  <2>2. Interrupted(f, 10, c)
    BY <2>1, <1>1, <1>5, AboveInterrupted
  <2>3. Len(f) \in Nat /\ 10 + 3 <= Len(f)
    BY <2>2, <1>5, LongEnough
  <2> QED
    BY <2>2, <2>3
<1>7. Fields(f, 0, c)
  <2>1. regs = c.regs
    BY <1>1 DEF AtCommon
  <2>2. ASSUME NEW i \in 1 .. 9
        PROVE  f[i] = c.regs[PtRegs[i]]
    <3>1. f[i] = regs[SAVE_ALL[9 - i + 1]]
      BY <1>5
    <3> QED
      BY <3>1, <2>1, SaveAllFacts
  <2> QED
    BY <2>2 DEF Fields
<1>8. f[10] = IrqWord(c)
  <2>1. f[10] = stack[1]
    BY <1>5, <1>6 DEF Above
  <2> QED
    BY <2>1, <1>1 DEF AtCommon
<1>9. Place("ret_from_intr") \in Word /\ pc' \in Word
  BY <1>3, WordFacts, PlacesAre
<1>10. /\ stack' \in Seq(Word) /\ Above(stack', 1, f)
       /\ stack'[1] = Place("ret_from_intr")
  BY <1>3, <1>5, <1>9, PushOne
<1>11. Interrupted(stack', 11, c) /\ Fields(stack', 1, c)
  <2>1. 0 + 9 <= Len(f)
    BY <1>6
  <2>2. Fields(stack', 1, c)
    BY <2>1, <1>5, <1>7, <1>10, AboveFields
  <2> QED
    BY <2>2, <1>5, <1>6, <1>10, AboveInterrupted
<1>12. stack'[11] = IrqWord(c) /\ Len(stack') - 1 = Len(f)
  BY <1>6, <1>8, <1>10 DEF Above
<1>13. regs' \in Regs /\ regs'["eax"] = <<"esp", Len(stack') - 1>>
  <2>1. <<"esp", Len(f)>> \in Word
    BY <1>6, WordFacts, KindsAre
  <2>2. PICK names, words : /\ names = <<"eax", "edx", "ds", "es">>
                            /\ words = << <<"esp", Len(f)>>, USER_DS, USER_DS, USER_DS>>
    OBVIOUS
  <2>3. Lists(names, 4) /\ \A k \in 1 .. 4 : words[k] \in Word
    BY <2>1, <2>2, WordFacts, NamesAre DEF Lists
  <2>4. regs' = Set(names, words)
    BY <2>2, <1>3
  <2>5. /\ regs' \in [Names -> Word]
        /\ \A k \in 1 .. 4 : regs'[names[k]] = words[k]
    BY <2>3, <2>4, <1>1, SetFacts
  <2>6. regs'["eax"] = <<"esp", Len(f)>> /\ regs'["ds"] = USER_DS /\ regs'["es"] = USER_DS
    BY <2>2, <2>5
  <2> QED
    BY <2>5, <2>6, <1>12 DEF Regs, Segs
<1>14. AtHandler(pc', regs', stack', c)
  <2>1. Requested(c)
    BY <1>1 DEF AtCommon
  <2>2. pc'[1] = "do_IRQ" /\ stack'[1] \in Ways
    BY <1>3, <1>10 DEF Ways
  <2> QED
    BY <2>1, <2>2, <1>11, <1>12, <1>13 DEF AtHandler
<1> QED
  BY <1>3, <1>9, <1>10, <1>13, <1>14, HandlersAre DEF Now, Good

LEMMA StubStep ==
  ASSUME NEW e, NEW c \in Context, Now(e, c), NEW v \in DOMAIN Stubs, Stub(v)
  PROVE  Now(e, c)'
PROOF
<1>1. pc[1] = Stubs[v] /\ regs \in Regs /\ stack \in Seq(Word)
  BY DEF Now, Stub, Step, At
<1>2. AtStub(pc, regs, stack, c)
  BY <1>1, Phases DEF Now, StubNames
<1>3. /\ Faulted(c) /\ Stubs[c.vector] = Stubs[v] /\ regs = c.regs
      /\ Stubs[v] \in PushesZero => Interrupted(stack, 0, c)
      /\ Stubs[v] \notin PushesZero =>
           stack[1] = ErrorCode(c.vector) /\ Interrupted(stack, 1, c)
  BY <1>1, <1>2 DEF AtStub
<1>4. PICK h : h = Place(HandlerOf(c))
  OBVIOUS
<1>5. h = Place(Calls[Stubs[v]]) /\ h \in Word
  <2>1. Calls[Stubs[v]] \in Places
    BY TablesAgree
  <2> QED
    BY <2>1, <1>3, <1>4, WordFacts DEF HandlerOf
<1>6. pc' = <<"error_code", 0>> /\ pc' \in Word /\ regs' = regs /\ iflag' = iflag
  BY WordFacts, PlacesAre DEF Stub, Place
<1>7. stack' \in Seq(Word) /\ stack'[1] = h /\ stack'[2] = ErrorCode(c.vector)
      /\ Interrupted(stack', 2, c)
  <2>1. CASE Stubs[v] \in PushesZero
    <3>1. stack' = Push(<<Zero>> \o <<h>>, stack)
      BY <2>1, <1>5 DEF Stub
    <3>2. PICK w : w = <<Zero, h>>
      OBVIOUS
    <3>3. w \in Seq(Word) /\ Len(w) = 2 /\ w[1] = Zero /\ w[2] = h /\ w = <<Zero>> \o <<h>>
      BY <3>2, <1>5, WordFacts
    <3>4. stack' = Push(w, stack)
      BY <3>1, <3>3
    <3>5. /\ stack' \in Seq(Word) /\ Above(stack', Len(w), stack)
          /\ \A i \in 1 .. Len(w) : stack'[i] = w[Len(w) - i + 1]
      BY <3>3, <3>4, <1>1, PushFacts
    <3>6. Above(stack', 2, stack) /\ stack'[1] = h /\ stack'[2] = Zero
      BY <3>3, <3>5
    <3>7. Interrupted(stack', 2, c)
      BY <3>5, <3>6, <2>1, <1>1, <1>3, AboveInterrupted
    <3>8. ErrorCode(c.vector) = Zero
      BY <2>1, <1>3, TablesAgree DEF ErrorCode, Faulted
    <3> QED
      BY <3>5, <3>6, <3>7, <3>8
  <2>2. CASE Stubs[v] \notin PushesZero
    <3>1. stack' = Push(<<>> \o <<h>>, stack)
      BY <2>2, <1>5 DEF Stub
    <3>2. <<>> \o <<h>> = <<h>>
      BY <1>5
    <3>3. stack' \in Seq(Word) /\ stack'[1] = h /\ Above(stack', 1, stack)
      BY <3>1, <3>2, <1>1, <1>5, PushOne
    <3>4. Interrupted(stack', 2, c)
      BY <3>3, <2>2, <1>1, <1>3, AboveInterrupted
    <3>5. 4 <= Len(stack) /\ Len(stack) \in Nat
      <4>1. Len(stack) \in Nat /\ 1 + 3 <= Len(stack)
        BY <2>2, <1>1, <1>3, LongEnough
      <4> QED
        BY <4>1
    <3>6. stack'[2] = stack[1]
      BY <3>3, <3>5 DEF Above
    <3> QED
      BY <3>3, <3>4, <3>6, <2>2, <1>3
  <2> QED
    BY <2>1, <2>2
<1>8. AtErrorCode(regs', stack', c)
  BY <1>3, <1>4, <1>6, <1>7 DEF AtErrorCode
<1> QED
  BY <1>1, <1>6, <1>7, <1>8 DEF Now, Good

(* error_code saves in the same order.                                       *)
LEMMA ErrorSavedFacts ==
  Lists(ErrorSaved, 8) /\ \A i \in 1 .. 8 : ErrorSaved[8 - i + 1] = PtRegs[i]
PROOF
  BY NamesAre DEF Lists, ErrorSaved, PtRegs

LEMMA ErrorSaveStep ==
  ASSUME NEW e, NEW c \in Context, Now(e, c), ErrorSave
  PROVE  Now(e, c)'
PROOF
<1>1. AtErrorCode(regs, stack, c) /\ regs \in Regs /\ stack \in Seq(Word)
  BY Phases DEF Now, ErrorSave, Step, At
<1>2. /\ stack' = Push(Values(ErrorSaved), stack) /\ pc' = <<"error_call", 0>>
      /\ regs' = regs /\ iflag' = iflag
  BY DEF ErrorSave, Place
<1>3. /\ stack' \in Seq(Word) /\ Above(stack', 8, stack)
      /\ \A i \in 1 .. 8 : stack'[i] = regs[ErrorSaved[8 - i + 1]]
  <2>1. PICK names, n : names = ErrorSaved /\ n = 8
    OBVIOUS
  <2>2. n \in Nat /\ Lists(names, n) /\ stack' = Push(Values(names), stack)
    BY <2>1, <1>2, ErrorSavedFacts
  <2>3. /\ stack' \in Seq(Word) /\ Above(stack', n, stack)
        /\ \A i \in 1 .. n : stack'[i] = regs[names[n - i + 1]]
    BY <2>2, <1>1, Saved
  <2> QED
    BY <2>1, <2>3
<1>4. /\ Faulted(c) /\ regs = c.regs /\ stack[1] = Place(HandlerOf(c))
      /\ stack[2] = ErrorCode(c.vector) /\ Interrupted(stack, 2, c)
  BY <1>1 DEF AtErrorCode
<1>5. Interrupted(stack', 10, c)
  <2>1. PICK m, n, k : m = 8 /\ n = 2 /\ k = 10
    OBVIOUS
  <2>2. /\ m \in Nat /\ n \in Nat /\ k = m + n /\ stack' \in Seq(Word)
        /\ Above(stack', m, stack) /\ Interrupted(stack, n, c)
    BY <2>1, <1>3, <1>4
  <2>3. Interrupted(stack', k, c)
    BY <2>2, <1>1, AboveInterrupted
  <2> QED
    BY <2>1, <2>3
<1>6. Len(stack) \in Nat /\ 2 + 3 <= Len(stack)
  BY <1>1, <1>4, LongEnough
<1>7. stack'[9] = stack[1] /\ stack'[10] = stack[2]
  BY <1>3, <1>6 DEF Above
<1>8. \A i \in 1 .. 8 : stack'[i] = c.regs[PtRegs[i]]
  BY <1>3, <1>4, ErrorSavedFacts
<1>9. AtErrorCall(regs', stack', c)
  BY <1>2, <1>4, <1>5, <1>7, <1>8 DEF AtErrorCall
<1> QED
  BY <1>1, <1>2, <1>3, <1>9, WordFacts, PlacesAre DEF Now, Good

LEMMA ErrorCallStep ==
  ASSUME NEW e, NEW c \in Context, Now(e, c), ErrorCall
  PROVE  Now(e, c)'
PROOF
<1>1. AtErrorCall(regs, stack, c) /\ regs \in Regs /\ stack \in Seq(Word)
  BY Phases DEF Now, ErrorCall, Step, At
<1>2. /\ Faulted(c) /\ regs = c.regs /\ \A k \in 1 .. 8 : stack[k] = c.regs[PtRegs[k]]
      /\ stack[9] = Place(HandlerOf(c)) /\ stack[10] = ErrorCode(c.vector)
      /\ Interrupted(stack, 10, c)
  BY <1>1 DEF AtErrorCall
<1>3. Len(stack) \in Nat /\ 13 <= Len(stack)
  <2>1. Len(stack) \in Nat /\ 10 + 3 <= Len(stack)
    BY <1>1, <1>2, LongEnough
  <2> QED
    BY <2>1
<1>4. PICK f : f = [stack EXCEPT ![9] = regs["es"], ![10] = <<"minus", 1>>]
  OBVIOUS
<1>5. /\ stack' = Push(<<Place("ret_from_exception")>>, f) /\ pc' = stack[9]
      /\ regs' = Set(<<"eax", "ecx", "edx", "edi", "ds", "es">>,
                     << <<"esp", Len(stack)>>, USER_DS, stack[10], stack[9],
                        USER_DS, USER_DS>>)
      /\ iflag' = iflag
  BY <1>4 DEF ErrorCall, ES, ORIG_EAX
<1>6. /\ f \in Seq(Word) /\ Len(f) = Len(stack) /\ f[9] = regs["es"]
      /\ \A i \in 1 .. Len(stack) : i \notin {9, 10} => f[i] = stack[i]
  <2>1. regs["es"] \in Word /\ <<"minus", 1>> \in Word
    BY <1>1, NamesAre, WordFacts, KindsAre DEF Regs
  <2>2. DOMAIN stack = 1 .. Len(stack)
    BY <1>1
  <2>3. PICK a : a = [stack EXCEPT ![9] = regs["es"]]
    OBVIOUS
  <2>4. /\ a \in Seq(Word) /\ Len(a) = Len(stack) /\ a[9] = regs["es"]
        /\ \A i \in 1 .. Len(stack) : i # 9 => a[i] = stack[i]
    BY <2>1, <2>2, <2>3, <1>1, <1>3
  <2>5. f = [a EXCEPT ![10] = <<"minus", 1>>]
    BY <2>3, <1>4
  <2>6. DOMAIN a = 1 .. Len(a)
    BY <2>4
  <2>7. /\ f \in Seq(Word) /\ Len(f) = Len(a)
        /\ \A i \in 1 .. Len(stack) : i # 10 => f[i] = a[i]
    BY <2>1, <2>4, <2>5, <2>6, <1>3
  <2> QED
    BY <2>4, <2>7, <1>3
<1>7. Fields(f, 0, c)
  <2>1. ASSUME NEW i \in 1 .. 9
        PROVE  f[i] = c.regs[PtRegs[i]]
    <3>1. CASE i = 9
      BY <3>1, <1>2, <1>6 DEF PtRegs
    <3>2. CASE i # 9
      <4>1. i \in 1 .. 8 /\ i \in 1 .. Len(stack) /\ i \notin {9, 10}
        BY <3>2, <1>3
      <4> QED
        BY <4>1, <1>2, <1>6
    <3> QED
      BY <3>1, <3>2
  <2> QED
    BY <2>1 DEF Fields
<1>8. Interrupted(f, 10, c)
  <2>1. f[11] = stack[11] /\ f[12] = stack[12] /\ f[13] = stack[13]
    BY <1>3, <1>6
  <2>2. On(stack, 13, c.stack)
    BY <1>2 DEF Interrupted
  <2>3. ASSUME NEW i \in 14 .. Len(stack)
        PROVE  f[i] = c.stack[i - 13]
    <3>1. stack[i] = c.stack[i - 13]
      BY <2>2 DEF On
    <3>2. f[i] = stack[i]
      BY <1>3, <1>6
    <3> QED
      BY <3>1, <3>2
  <2>4. On(f, 13, c.stack)
    BY <2>2, <2>3, <1>6 DEF On
  <2> QED
    BY <2>1, <2>4, <1>2 DEF Interrupted
<1>9. HandlerOf(c) \in Handlers /\ HandlerOf(c) \in Places /\ HandlerOf(c) # "do_IRQ"
  BY <1>2, TablesAgree DEF HandlerOf, Faulted
<1>10. stack[9] = <<HandlerOf(c), 0>> /\ stack[9] \in Word
  BY <1>2, <1>9, WordFacts DEF Place
<1>11. /\ stack' \in Seq(Word) /\ Above(stack', 1, f)
       /\ stack'[1] = Place("ret_from_exception")
  <2>1. Place("ret_from_exception") \in Word
    BY WordFacts, PlacesAre
  <2> QED
    BY <2>1, <1>5, <1>6, PushOne
<1>12. Interrupted(stack', 11, c) /\ Fields(stack', 1, c)
  <2>1. 0 + 9 <= Len(f)
    BY <1>3, <1>6
  <2>2. Fields(stack', 1, c)
    BY <2>1, <1>6, <1>7, <1>11, AboveFields
  <2> QED
    BY <2>2, <1>6, <1>8, <1>11, AboveInterrupted
<1>13. Len(stack') - 1 = Len(stack)
  BY <1>3, <1>6, <1>11 DEF Above
<1>14. /\ regs' \in Regs /\ regs'["eax"] = <<"esp", Len(stack') - 1>>
       /\ regs'["edx"] = ErrorCode(c.vector)
  <2>1. <<"esp", Len(stack)>> \in Word /\ stack[10] \in Word
    BY <1>1, <1>3, WordFacts, KindsAre
  <2>2. PICK names, words :
          /\ names = <<"eax", "ecx", "edx", "edi", "ds", "es">>
          /\ words = << <<"esp", Len(stack)>>, USER_DS, stack[10], stack[9], USER_DS, USER_DS>>
    OBVIOUS
  <2>3. Lists(names, 6) /\ \A k \in 1 .. 6 : words[k] \in Word
    BY <2>1, <2>2, <1>10, WordFacts, NamesAre DEF Lists
  <2>4. regs' = Set(names, words)
    BY <2>2, <1>5
  <2>5. /\ regs' \in [Names -> Word]
        /\ \A k \in 1 .. 6 : regs'[names[k]] = words[k]
    BY <2>3, <2>4, <1>1, SetFacts
  <2>6. /\ regs'["eax"] = <<"esp", Len(stack)>> /\ regs'["edx"] = stack[10]
        /\ regs'["ds"] = USER_DS /\ regs'["es"] = USER_DS
    BY <2>2, <2>5
  <2> QED
    BY <2>5, <2>6, <1>2, <1>13 DEF Regs, Segs
<1>15. AtHandler(pc', regs', stack', c)
  <2>1. pc'[1] = HandlerOf(c) /\ stack'[1] \in Ways
    BY <1>5, <1>10, <1>11 DEF Ways
  <2> QED
    BY <2>1, <1>2, <1>9, <1>12, <1>14 DEF AtHandler
<1>16. pc'[1] \in Handlers /\ pc'[2] = 0 /\ pc' \in Word
  BY <1>5, <1>9, <1>10
<1> QED
  BY <1>5, <1>11, <1>14, <1>15, <1>16 DEF Now, Good

(* What a function keeps.                                                    *)
LEMMA KeptFacts ==
  /\ Lists(Kept, 4) /\ Len(Kept) = 4 /\ Lists(Reverse(Kept), 4) /\ Lists(Kept \o Scratch, 7)
  /\ \A k \in 1 .. 4 : Reverse(Kept)[k] \notin {"ds", "es"}
  /\ \A k \in 1 .. 7 : (Kept \o Scratch)[k] \notin {"ds", "es"}
PROOF
<1>1. Reverse(Kept) = <<"ebx", "esi", "edi", "ebp">>
  BY DEF Kept, Reverse
<1>2. Lists(Kept, 4) /\ Len(Kept) = 4
  BY NamesAre DEF Lists, Kept
<1>3. Lists(Reverse(Kept), 4) /\ \A k \in 1 .. 4 : Reverse(Kept)[k] \notin {"ds", "es"}
  BY <1>1, NamesAre DEF Lists
<1>4. PICK f : f = Kept \o Scratch
  OBVIOUS
<1>5. /\ Len(f) = 7 /\ f \in Seq(Names)
      /\ f[1] = "ebp" /\ f[2] = "edi" /\ f[3] = "esi" /\ f[4] = "ebx"
      /\ f[5] = "eax" /\ f[6] = "ecx" /\ f[7] = "edx"
  <2>1. PICK a, b : a = Kept /\ b = Scratch
    OBVIOUS
  <2>2. /\ a \in Seq(Names) /\ b \in Seq(Names) /\ Len(a) = 4 /\ Len(b) = 3
        /\ a[1] = "ebp" /\ a[2] = "edi" /\ a[3] = "esi" /\ a[4] = "ebx"
        /\ b[1] = "eax" /\ b[2] = "ecx" /\ b[3] = "edx"
    BY <2>1, NamesAre DEF Kept, Scratch
  <2>3. /\ f \in Seq(Names) /\ Len(f) = Len(a) + Len(b)
        /\ \A i \in 1 .. Len(a) + Len(b) : f[i] = IF i <= Len(a) THEN a[i] ELSE b[i - Len(a)]
    BY <2>1, <2>2, <1>4, ConcatProperties, ZenonT(30)
  <2> QED
    BY <2>2, <2>3
<1>6. DOMAIN f = 1 .. 7
  BY <1>5
<1>7. Lists(f, 7) /\ \A k \in 1 .. 7 : f[k] \notin {"ds", "es"}
  BY <1>5, <1>6, NamesAre DEF Lists
<1> QED
  BY <1>2, <1>3, <1>4, <1>7

(* The segment registers stay what they are.                                 *)
LEMMA SetKeepsSegs ==
  ASSUME regs \in Regs, NEW names, NEW words, NEW n \in Nat, Lists(names, n),
         \A k \in 1 .. n : words[k] \in Word, \A k \in 1 .. n : names[k] \notin {"ds", "es"},
         NEW r, r = Set(names, words)
  PROVE  r \in Regs
PROOF
<1>1. /\ r \in [Names -> Word]
      /\ \A x \in Names : (\A k \in 1 .. n : names[k] # x) => r[x] = regs[x]
  BY SetFacts
<1>2. r["ds"] = regs["ds"] /\ r["es"] = regs["es"]
  BY <1>1, NamesAre
<1> QED
  BY <1>1, <1>2 DEF Regs, Segs

LEMMA HandlerStep ==
  ASSUME NEW e, NEW c \in Context, Now(e, c), contexts \in Seq(Context),
         NEW h \in Handlers, Handler(h)
  PROVE  Now(e, c)'
PROOF
<1>1. /\ pc[1] = h /\ pc[2] = 0 /\ regs \in Regs /\ stack \in Seq(Word)
      /\ iflag \in BOOLEAN
  BY DEF Now, Handler, Step, At
<1>2. AtHandler(pc, regs, stack, c)
  BY <1>1, Phases DEF Now
<1>3. /\ stack' = Push(Values(Kept), stack) /\ pc' = <<h, 1>>
      /\ regs' = Set(Kept \o Scratch, [k \in 1 .. 7 |-> <<"work", 10 * Len(contexts) + k>>])
      /\ iflag' \in BOOLEAN
  BY <1>1 DEF Handler
<1>4. stack' \in Seq(Word) /\ Above(stack', 4, stack)
  <2>1. PICK names, n : names = Kept /\ n = 4
    OBVIOUS
  <2>2. n \in Nat /\ Lists(names, n) /\ stack' = Push(Values(names), stack)
    BY <2>1, <1>3, KeptFacts
  <2>3. stack' \in Seq(Word) /\ Above(stack', n, stack)
    BY <2>2, <1>1, Saved
  <2> QED
    BY <2>1, <2>3
<1>5. stack[1] \in Ways /\ Fields(stack, 1, c) /\ Interrupted(stack, 11, c)
  BY <1>2 DEF AtHandler
<1>6. Len(stack) \in Nat /\ 14 <= Len(stack)
  <2>1. Len(stack) \in Nat /\ 11 + 3 <= Len(stack)
    BY <1>1, <1>5, LongEnough
  <2> QED
    BY <2>1
<1>7. Interrupted(stack', 15, c) /\ Fields(stack', 5, c)
  <2>1. 1 + 9 <= Len(stack)
    BY <1>6
  <2>2. Fields(stack', 5, c)
    BY <2>1, <1>1, <1>4, <1>5, AboveFields
  <2> QED
    BY <2>2, <1>1, <1>4, <1>5, AboveInterrupted
<1>8. stack'[5] \in Ways
  BY <1>4, <1>5, <1>6 DEF Above
<1>9. regs' \in Regs
  <2>1. PICK names, words, n : /\ names = Kept \o Scratch /\ n = 7
                               /\ words = [k \in 1 .. 7 |-> <<"work", 10 * Len(contexts) + k>>]
    OBVIOUS
  <2>2. \A k \in 1 .. 7 : 10 * Len(contexts) + k \in Int
    OBVIOUS
  <2>3. \A k \in 1 .. 7 : <<"work", 10 * Len(contexts) + k>> \in Word
    BY <2>2, WordFacts, KindsAre
  <2>4. n \in Nat /\ Lists(names, n) /\ \A k \in 1 .. n : names[k] \notin {"ds", "es"}
    BY <2>1, KeptFacts
  <2>5. (\A k \in 1 .. n : words[k] \in Word) /\ regs' = Set(names, words)
    BY <2>1, <2>3, <1>3
  <2> QED
    BY <2>4, <2>5, <1>1, SetKeepsSegs
<1>10. pc' \in Word /\ pc'[1] \in Handlers /\ pc'[2] = 1
  BY <1>3, WordFacts, PlacesAre, KindsAre
<1> QED
  BY <1>3, <1>4, <1>7, <1>8, <1>9, <1>10 DEF Now, Good, AtReturn

LEMMA ReturnStep ==
  ASSUME NEW e, NEW c \in Context, Now(e, c), NEW h \in Handlers, Return(h)
  PROVE  Now(e, c)'
PROOF
<1>1. /\ pc[1] = h /\ pc[2] = 1 /\ regs \in Regs /\ stack \in Seq(Word)
      /\ iflag \in BOOLEAN
  BY DEF Now, Return, Step, At
<1>2. AtReturn(stack, c)
  BY <1>1, Phases DEF Now
<1>3. stack[5] \in Ways /\ Fields(stack, 5, c) /\ Interrupted(stack, 15, c)
  BY <1>2 DEF AtReturn
<1>4. Len(stack) \in Nat /\ 18 <= Len(stack)
  <2>1. Len(stack) \in Nat /\ 15 + 3 <= Len(stack)
    BY <1>1, <1>3, LongEnough
  <2> QED
    BY <2>1
<1>5. /\ stack' = SubSeq(stack, 5 + 1, Len(stack)) /\ pc' = stack[5]
      /\ regs' = Set(Reverse(Kept), stack) /\ iflag' \in BOOLEAN
  BY <1>1, KeptFacts DEF Return
<1>6. stack' \in Seq(Word) /\ Above(stack, 5, stack')
  <2>1. PICK m : m = 5
    OBVIOUS
  <2>2. /\ m \in Nat /\ m <= Len(stack) /\ stack \in Seq(Word)
        /\ stack' = SubSeq(stack, m + 1, Len(stack))
    BY <2>1, <1>1, <1>4, <1>5
  <2>3. stack' \in Seq(Word) /\ Above(stack, m, stack')
    BY <2>2, PopFacts
  <2> QED
    BY <2>1, <2>3
<1>7. Interrupted(stack', 10, c) /\ Fields(stack', 0, c)
  <2>1. Interrupted(stack', 10, c)
    BY <1>1, <1>3, <1>6, AboveInterrupted
  <2>2. 0 + 9 <= Len(stack')
    BY <1>4, <1>6 DEF Above
  <2>3. Fields(stack', 0, c)
    BY <2>2, <1>1, <1>3, <1>6, AboveFields
  <2> QED
    BY <2>1, <2>3
<1>8. regs' \in Regs
  <2>1. PICK names, n : names = Reverse(Kept) /\ n = 4
    OBVIOUS
  <2>2. n \in Nat /\ Lists(names, n) /\ \A k \in 1 .. n : names[k] \notin {"ds", "es"}
    BY <2>1, KeptFacts
  <2>3. \A k \in 1 .. 4 : stack[k] \in Word
    BY <1>1, <1>4
  <2>4. (\A k \in 1 .. n : stack[k] \in Word) /\ regs' = Set(names, stack)
    BY <2>1, <2>3, <1>5
  <2> QED
    BY <2>2, <2>4, <1>1, SetKeepsSegs
<1>9. pc' \in Word /\ pc'[1] \in Ends
  <2>1. pc' \in {Place("ret_from_intr"), Place("ret_from_exception")}
    BY <1>3, <1>5 DEF Ways
  <2>2. pc' \in Word
    BY <2>1, WordFacts, PlacesAre
  <2> QED
    BY <2>1, <2>2 DEF Place, Ends
<1> QED
  BY <1>5, <1>6, <1>7, <1>8, <1>9 DEF Now, Good, AtEnd

LEMMA RetFromExceptionStep ==
  ASSUME NEW e, NEW c \in Context, Now(e, c), RetFromException
  PROVE  Now(e, c)'
PROOF
<1>1. AtEnd(stack, c)
  BY Phases DEF Now, RetFromException, Step, At, Ends
<1>2. /\ pc' = <<"ret_from_intr", 0>> /\ iflag' \in BOOLEAN
      /\ UNCHANGED <<regs, stack>>
  BY DEF RetFromException, Place
<1>3. pc' \in Word /\ pc'[1] \in Ends
  BY <1>2, WordFacts, PlacesAre DEF Ends
<1> QED
  BY <1>1, <1>2, <1>3 DEF Now, Good

LEMMA RetFromIntrStep ==
  ASSUME NEW e, NEW c \in Context, Now(e, c), RetFromIntr
  PROVE  Now(e, c)'
PROOF
<1>1. AtEnd(stack, c) /\ regs \in Regs
  BY Phases DEF Now, RetFromIntr, Step, At, Ends
<1>2. /\ pc' = <<"restore_all", 0>> /\ regs' = Set(<<"ebp", "eax">>, <<Zero, Zero>>)
      /\ UNCHANGED <<iflag, stack>>
  BY DEF RetFromIntr, Place
<1>3. pc' \in Word /\ pc'[1] \in Ends
  BY <1>2, WordFacts, PlacesAre DEF Ends
<1>4. regs' \in Regs
  <2>1. PICK names, words, n : names = <<"ebp", "eax">> /\ words = <<Zero, Zero>> /\ n = 2
    OBVIOUS
  <2>2. n \in Nat /\ Lists(names, n) /\ \A k \in 1 .. n : names[k] \notin {"ds", "es"}
    BY <2>1, NamesAre DEF Lists
  <2>3. (\A k \in 1 .. n : words[k] \in Word) /\ regs' = Set(names, words)
    BY <2>1, <1>2, WordFacts
  <2> QED
    BY <2>2, <2>3, <1>1, SetKeepsSegs
<1> QED
  BY <1>1, <1>2, <1>3, <1>4 DEF Now, Good

(* Registers that agree name by name are the same.                           *)
LEMMA SameRegs ==
  ASSUME NEW r \in [Names -> Word], NEW q \in Regs, \A x \in Names : r[x] = q[x]
  PROVE  r = q
PROOF
<1>1. r = [x \in Names |-> r[x]] /\ q = [x \in Names |-> q[x]]
  BY DEF Regs
<1> QED
  BY <1>1, Zenon

LEMMA RestoreAllStep ==
  ASSUME NEW e, NEW c \in Context, Now(e, c), RestoreAll
  PROVE  Now(e, c)'
PROOF
<1>1. AtEnd(stack, c) /\ regs \in Regs /\ stack \in Seq(Word)
  BY Phases DEF Now, RestoreAll, Step, At, Ends
<1>2. Fields(stack, 0, c) /\ Interrupted(stack, 10, c)
  BY <1>1 DEF AtEnd
<1>3. /\ pc' = <<"iret", 0>> /\ regs' = Set(PtRegs, stack) /\ iflag' = iflag
      /\ stack' = SubSeq(stack, 10 + 1, Len(stack))
  BY DEF RestoreAll, Place, PtRegs, ORIG_EAX
<1>4. Len(stack) \in Nat /\ 13 <= Len(stack)
  <2>1. Len(stack) \in Nat /\ 10 + 3 <= Len(stack)
    BY <1>1, <1>2, LongEnough
  <2> QED
    BY <2>1
<1>5. stack' \in Seq(Word) /\ Above(stack, 10, stack')
  <2>1. PICK m : m = 10
    OBVIOUS
  <2>2. /\ m \in Nat /\ m <= Len(stack) /\ stack \in Seq(Word)
        /\ stack' = SubSeq(stack, m + 1, Len(stack))
    BY <2>1, <1>1, <1>3, <1>4
  <2>3. stack' \in Seq(Word) /\ Above(stack, m, stack')
    BY <2>2, PopFacts
  <2> QED
    BY <2>1, <2>3
<1>6. Interrupted(stack', 0, c)
  BY <1>1, <1>2, <1>5, AboveInterrupted
<1>7. regs' = c.regs
  <2>1. PICK names, n : names = PtRegs /\ n = 9
    OBVIOUS
  <2>2. n \in Nat /\ Lists(names, n) /\ \A x \in Names : \E k \in 1 .. n : names[k] = x
    <3>1. Lists(PtRegs, 9)
      BY NamesAre DEF Lists, PtRegs
    <3>2. ASSUME NEW x \in Names
          PROVE  \E k \in 1 .. 9 : PtRegs[k] = x
      <4>1. /\ PtRegs[1] = "ebx" /\ PtRegs[2] = "ecx" /\ PtRegs[3] = "edx"
            /\ PtRegs[4] = "esi" /\ PtRegs[5] = "edi" /\ PtRegs[6] = "ebp"
            /\ PtRegs[7] = "eax" /\ PtRegs[8] = "ds" /\ PtRegs[9] = "es"
        BY DEF PtRegs
      <4> QED
        BY <4>1, NamesAre
    <3> QED
      BY <2>1, <3>1, <3>2
  <2>3. \A k \in 1 .. 9 : stack[k] \in Word /\ stack[k] = c.regs[PtRegs[k]]
    BY <1>1, <1>2, <1>4, SMTT(30) DEF Fields
  <2>4. (\A k \in 1 .. n : stack[k] \in Word) /\ regs' = Set(names, stack)
    BY <2>1, <2>3, <1>3
  <2>5. regs' \in [Names -> Word] /\ \A k \in 1 .. n : regs'[names[k]] = stack[k]
    BY <2>2, <2>4, <1>1, SetFacts
  <2>6. ASSUME NEW x \in Names
        PROVE  regs'[x] = c.regs[x]
    <3>1. PICK k \in 1 .. n : names[k] = x
      BY <2>2
    <3> QED
      BY <3>1, <2>1, <2>3, <2>5
  <2> QED
    BY <2>5, <2>6, SameRegs, ContextFacts
<1>8. pc' \in Word
  BY <1>3, WordFacts, PlacesAre
<1>9. Good(e, pc', regs', stack', c)
  BY <1>3, <1>6, <1>7 DEF Good, AtIgnoreInt, Ignoring
<1> QED
  BY <1>3, <1>5, <1>7, <1>8, <1>9, ContextFacts DEF Now

(* What ignore_int saves.                                                    *)
LEMMA IgnoreSavedFacts ==
  /\ Lists(IgnoreSaved, 5) /\ Len(IgnoreSaved) = 5 /\ Lists(Reverse(IgnoreSaved), 5)
  /\ \A k \in 1 .. 5 : Reverse(IgnoreSaved)[k] = IgnoreSaved[6 - k]
  /\ {"eax", "ds", "es"} \subseteq {Reverse(IgnoreSaved)[k] : k \in 1 .. 5}
PROOF
<1>1. Reverse(IgnoreSaved) = <<"ds", "es", "edx", "ecx", "eax">>
  BY DEF IgnoreSaved, Reverse
<1>2. Lists(IgnoreSaved, 5) /\ Len(IgnoreSaved) = 5
  BY NamesAre DEF Lists, IgnoreSaved
<1>3. PICK f : f = Reverse(IgnoreSaved)
  OBVIOUS
<1>4. /\ DOMAIN f = 1 .. 5
      /\ f[1] = "ds" /\ f[2] = "es" /\ f[3] = "edx" /\ f[4] = "ecx" /\ f[5] = "eax"
  BY <1>1, <1>3
<1>5. Lists(f, 5)
  BY <1>4, NamesAre DEF Lists
<1>6. \A k \in 1 .. 5 : f[k] = IgnoreSaved[6 - k]
  BY <1>4 DEF IgnoreSaved
<1> QED
  BY <1>2, <1>3, <1>4, <1>5, <1>6

(* An error code or none: it moves with the rest.                            *)
LEMMA AboveIgnoring ==
  ASSUME NEW t \in Seq(Word), NEW s \in Seq(Word), NEW m \in Nat, Above(t, m, s),
         NEW c \in Context, NEW n \in Nat, NEW k, k = m + n, NEW e
  PROVE  Ignoring(e, s, n, c) <=> Ignoring(e, t, k, c)
PROOF
<1>1. Interrupted(s, n, c) <=> Interrupted(t, k, c)
  BY AboveInterrupted
<1>2. Interrupted(s, n + 1, c) <=> Interrupted(t, k + 1, c)
  <2>1. PICK a, b : a = n + 1 /\ b = k + 1
    OBVIOUS
  <2>2. a \in Nat /\ b = m + a
    BY <2>1
  <2>3. Interrupted(s, a, c) <=> Interrupted(t, b, c)
    BY <2>2, AboveInterrupted
  <2> QED
    BY <2>1, <2>3
<1>3. Interrupted(s, n + 1, c) => t[k + 1] = s[n + 1]
  <2> HAVE Interrupted(s, n + 1, c)
  <2>1. PICK a, l : a = n + 1 /\ l = Len(s)
    OBVIOUS
  <2>2. a \in Nat /\ Interrupted(s, a, c)
    BY <2>1
  <2>3. l \in Nat /\ a + 3 <= l
    BY <2>1, <2>2, LongEnough
  <2>4. k + 1 \in m + 1 .. m + l /\ (k + 1) - m = n + 1
    BY <2>1, <2>3
  <2>5. \A i \in m + 1 .. m + l : t[i] = s[i - m]
    BY <2>1 DEF Above
  <2> QED
    BY <2>4, <2>5
<1> QED
  BY <1>1, <1>2, <1>3 DEF Ignoring

LEMMA IgnoreIntStep ==
  ASSUME NEW e, NEW c \in Context, Now(e, c), IgnoreInt
  PROVE  Now(e, c)'
PROOF
<1>1. AtIgnoreInt(e, regs, stack, c) /\ regs \in Regs /\ stack \in Seq(Word)
  BY Phases DEF Now, IgnoreInt, Step, At
<1>2. regs = c.regs /\ Ignoring(e, stack, 0, c)
  BY <1>1 DEF AtIgnoreInt
<1>3. /\ stack' = Push(Values(IgnoreSaved), stack) /\ pc' = <<"ignored", 0>>
      /\ regs' = Set(<<"eax", "ds", "es">>, <<KERNEL_DS, KERNEL_DS, KERNEL_DS>>)
      /\ iflag' = iflag
  BY DEF IgnoreInt, Place
<1>4. /\ stack' \in Seq(Word) /\ Above(stack', 5, stack)
      /\ \A i \in 1 .. 5 : stack'[i] = regs[IgnoreSaved[5 - i + 1]]
  <2>1. PICK names, n : names = IgnoreSaved /\ n = 5
    OBVIOUS
  <2>2. n \in Nat /\ Lists(names, n) /\ stack' = Push(Values(names), stack)
    BY <2>1, <1>3, IgnoreSavedFacts
  <2>3. /\ stack' \in Seq(Word) /\ Above(stack', n, stack)
        /\ \A i \in 1 .. n : stack'[i] = regs[names[n - i + 1]]
    BY <2>2, <1>1, Saved
  <2> QED
    BY <2>1, <2>3
<1>5. Ignoring(e, stack', 5, c)
  BY <1>1, <1>2, <1>4, AboveIgnoring
<1>6. /\ regs' \in Regs
      /\ \A x \in Names \ {"eax", "ds", "es"} : regs'[x] = regs[x]
  <2>1. PICK names, words, n : /\ names = <<"eax", "ds", "es">> /\ n = 3
                               /\ words = <<KERNEL_DS, KERNEL_DS, KERNEL_DS>>
    OBVIOUS
  <2>2. n \in Nat /\ Lists(names, n)
    BY <2>1, NamesAre DEF Lists
  <2>3. (\A k \in 1 .. n : words[k] \in Word) /\ regs' = Set(names, words)
    BY <2>1, <1>3, WordFacts
  <2>4. /\ regs' \in [Names -> Word]
        /\ \A k \in 1 .. n : regs'[names[k]] = words[k]
        /\ \A x \in Names : (\A k \in 1 .. n : names[k] # x) => regs'[x] = regs[x]
    BY <2>2, <2>3, <1>1, SetFacts
  <2>5. regs'["ds"] = KERNEL_DS /\ regs'["es"] = KERNEL_DS
    BY <2>1, <2>4
  <2>6. \A x \in Names \ {"eax", "ds", "es"} : \A k \in 1 .. n : names[k] # x
    BY <2>1
  <2> QED
    BY <2>4, <2>5, <2>6 DEF Regs, Segs
<1>7. AtIgnored(e, regs', stack', c)
  <2>1. \A k \in 1 .. 5 : stack'[k] = c.regs[IgnoreSaved[6 - k]]
    <3>1. ASSUME NEW k \in 1 .. 5
          PROVE  stack'[k] = c.regs[IgnoreSaved[6 - k]]
      <4>1. 5 - k + 1 = 6 - k
        OBVIOUS
      <4> QED
        BY <4>1, <1>2, <1>4
    <3> QED
      BY <3>1
  <2> QED
    BY <2>1, <1>2, <1>5, <1>6 DEF AtIgnored
<1>8. pc' \in Word
  BY <1>3, WordFacts, PlacesAre
<1> QED
  BY <1>3, <1>4, <1>6, <1>7, <1>8 DEF Now, Good

LEMMA IgnoredStep ==
  ASSUME NEW e, NEW c \in Context, Now(e, c), Ignored
  PROVE  Now(e, c)'
PROOF
<1>1. AtIgnored(e, regs, stack, c) /\ regs \in Regs /\ stack \in Seq(Word)
  BY Phases DEF Now, Ignored, Step, At
<1>2. /\ \A k \in 1 .. 5 : stack[k] = c.regs[IgnoreSaved[6 - k]]
      /\ \A x \in Names \ {"eax", "ds", "es"} : regs[x] = c.regs[x]
      /\ Ignoring(e, stack, 5, c)
  BY <1>1 DEF AtIgnored
<1>3. /\ pc' = <<"iret", 0>> /\ regs' = Set(Reverse(IgnoreSaved), stack) /\ iflag' = iflag
      /\ stack' = SubSeq(stack, 5 + 1, Len(stack))
  BY IgnoreSavedFacts DEF Ignored, Place
<1>4. Len(stack) \in Nat /\ 8 <= Len(stack)
  <2>1. CASE Interrupted(stack, 5, c)
    <3>1. Len(stack) \in Nat /\ 5 + 3 <= Len(stack)
      BY <2>1, <1>1, LongEnough
    <3> QED
      BY <3>1
  <2>2. CASE Interrupted(stack, 6, c)
    <3>1. Len(stack) \in Nat /\ 6 + 3 <= Len(stack)
      BY <2>2, <1>1, LongEnough
    <3> QED
      BY <3>1
  <2> QED
    BY <2>1, <2>2, <1>2 DEF Ignoring
<1>5. stack' \in Seq(Word) /\ Above(stack, 5, stack')
  <2>1. PICK m : m = 5
    OBVIOUS
  <2>2. /\ m \in Nat /\ m <= Len(stack) /\ stack \in Seq(Word)
        /\ stack' = SubSeq(stack, m + 1, Len(stack))
    BY <2>1, <1>1, <1>3, <1>4
  <2>3. stack' \in Seq(Word) /\ Above(stack, m, stack')
    BY <2>2, PopFacts
  <2> QED
    BY <2>1, <2>3
<1>6. Ignoring(e, stack', 0, c)
  BY <1>1, <1>2, <1>5, AboveIgnoring
<1>7. regs' = c.regs
  <2>1. PICK names, n : names = Reverse(IgnoreSaved) /\ n = 5
    OBVIOUS
  <2>2. /\ n \in Nat /\ Lists(names, n) /\ \A k \in 1 .. n : names[k] = IgnoreSaved[6 - k]
        /\ \A x \in {"eax", "ds", "es"} : \E k \in 1 .. n : names[k] = x
    BY <2>1, IgnoreSavedFacts
  <2>3. \A k \in 1 .. 5 : stack[k] \in Word
    BY <1>1, <1>4
  <2>4. (\A k \in 1 .. n : stack[k] \in Word) /\ regs' = Set(names, stack)
    BY <2>1, <2>3, <1>3
  <2>5. /\ regs' \in [Names -> Word] /\ \A k \in 1 .. n : regs'[names[k]] = stack[k]
        /\ \A x \in Names : (\A k \in 1 .. n : names[k] # x) => regs'[x] = regs[x]
    BY <2>2, <2>4, <1>1, SetFacts, SMTT(30)
  <2>6. ASSUME NEW x \in Names
        PROVE  regs'[x] = c.regs[x]
    <3>1. CASE \E k \in 1 .. n : names[k] = x
      <4>1. PICK k \in 1 .. n : names[k] = x
        BY <3>1
      <4> QED
        BY <4>1, <2>1, <2>2, <2>5, <1>2
    <3>2. CASE \A k \in 1 .. n : names[k] # x
      <4>1. x \in Names \ {"eax", "ds", "es"}
        BY <3>2, <2>2
      <4> QED
        BY <4>1, <3>2, <2>5, <1>2
    <3> QED
      BY <3>1, <3>2
  <2> QED
    BY <2>5, <2>6, SameRegs, ContextFacts
<1>8. pc' \in Word
  BY <1>3, WordFacts, PlacesAre
<1>9. Good(e, pc', regs', stack', c)
  BY <1>3, <1>6, <1>7 DEF Good, AtIgnoreInt
<1> QED
  BY <1>3, <1>5, <1>7, <1>8, <1>9, ContextFacts DEF Now

-----------------------------------------------------------------------------
(* The selectors: the kernel runs on a code segment, its data segments are   *)
(* ones the GDT has.                                                         *)
LEMMA SelectorFacts ==
  /\ Kind(KERNEL_CS) = "code"
  /\ \A r : Segs(r) => Kind(r["ds"]) = "data" /\ Kind(r["es"]) = "data"
PROOF
<1>1. /\ KERNEL_CS = <<"selector", 96>> /\ KERNEL_DS = <<"selector", 104>>
      /\ USER_DS = <<"selector", 123>>
  BY DEF KERNEL_CS, KERNEL_DS, USER_DS, Selector
<1>2. 96 \div 8 = 12 /\ 104 \div 8 = 13 /\ 123 \div 8 = 15
  OBVIOUS
<1>3. /\ DOMAIN Gdt = 12 .. 15 /\ Gdt[12] = "code" /\ Gdt[13] = "data" /\ Gdt[15] = "data"
  BY DEF Gdt
<1>4. Kind(KERNEL_CS) = "code" /\ Kind(KERNEL_DS) = "data" /\ Kind(USER_DS) = "data"
  BY <1>1, <1>2, <1>3 DEF Kind
<1> QED
  BY <1>4 DEF Segs

(* A good place is a place, and not kernel_main.                             *)
LEMMA GoodPlace ==
  ASSUME NEW e, NEW p, NEW r, NEW s, NEW c, Good(e, p, r, s, c)
  PROVE  p[1] \in Places /\ p[1] # "kernel_main"
PROOF
  BY Phases, PlacesAre DEF Good

(* No place is a selector.                                                   *)
LEMMA PlaceNoSelector ==
  "selector" \notin Places
PROOF
  BY StubNamesAre, HandlersAre DEF Places, Ends

(* A step that leaves gates and contexts alone needs to keep the context     *)
(* that runs.                                                                *)
LEMMA LocalStep ==
  ASSUME Runs, fate = "runs", contexts # <<>>, UNCHANGED <<idt, contexts, fate>>,
         NEW e, e = Early, NEW c, c = contexts[1], Now(e, c)'
  PROVE  IInv'
PROOF
<1>1. /\ pc' \in Word /\ regs' \in Regs /\ iflag' \in BOOLEAN /\ stack' \in Seq(Word)
      /\ Good(e, pc', regs', stack', c)
  BY DEF Now
<1>2. Early' = Early
  BY DEF Early
<1>3. Typed'
  BY <1>1 DEF Runs, Typed
<1>4. Chain'
  BY <1>1, <1>2 DEF Runs, Chain
<1>5. DOMAIN idt' = Vector /\ \A v \in Vector : GateOf(v)'
  BY <1>2 DEF Runs, GateOf
<1>6. Bottom' = Bottom
  BY DEF Bottom
<1>7. NeverAstray'
  <2>1. Segs(regs')
    BY <1>1 DEF Regs
  <2>2. Kind(regs'["ds"]) = "data" /\ Kind(regs'["es"]) = "data"
    BY <2>1, SelectorFacts
  <2> QED
    BY <2>2 DEF NeverAstray
<1> QED
  BY <1>2, <1>3, <1>4, <1>5, <1>6, <1>7 DEF IInv, Runs

(* The steps of the stubs and of the handlers.                               *)
Inside ==
  \/ IrqEntry \/ CommonInterrupt \/ (\E v \in DOMAIN Stubs : Stub(v))
  \/ ErrorSave \/ ErrorCall \/ (\E h \in Handlers : Handler(h) \/ Return(h))
  \/ RetFromException \/ RetFromIntr \/ RestoreAll \/ IgnoreInt \/ Ignored

LEMMA InsideStep ==
  ASSUME IInv, Inside
  PROVE  IInv'
PROOF
<1>1. PICK name \in Places \ {"kernel_main"} : Step(name)
  <2>1. \A v \in DOMAIN Stubs : Stubs[v] \in Places \ {"kernel_main"}
    BY StubNamesAre, PlacesAre DEF StubNames
  <2>2. \A h \in Handlers : h \in Places \ {"kernel_main"}
    BY HandlersAre, PlacesAre
  <2>3. CASE \E v \in DOMAIN Stubs : Stub(v)
    BY <2>1, <2>3 DEF Stub
  <2>4. CASE \E h \in Handlers : Handler(h) \/ Return(h)
    BY <2>2, <2>4 DEF Handler, Return
  <2>5. CASE \/ IrqEntry \/ CommonInterrupt \/ ErrorSave \/ ErrorCall \/ RetFromException
             \/ RetFromIntr \/ RestoreAll \/ IgnoreInt \/ Ignored
    BY <2>5, PlacesAre
    DEF IrqEntry, CommonInterrupt, ErrorSave, ErrorCall, RetFromException, RetFromIntr,
        RestoreAll, IgnoreInt, Ignored
  <2> QED
    BY <2>3, <2>4, <2>5 DEF Inside
<1>2. fate = "runs" /\ pc[1] # "kernel_main" /\ UNCHANGED <<idt, contexts, fate>>
  BY <1>1 DEF Step, At
<1>3. Runs
  BY <1>2 DEF IInv
<1>4. contexts # <<>> /\ contexts \in Seq(Context)
  BY <1>2, <1>3 DEF Runs, Chain, Main, Typed
<1>5. PICK e, c : e = Early /\ c = contexts[1]
  OBVIOUS
<1>6. c \in Context
  BY <1>4, <1>5
<1>7. Now(e, c)
  BY <1>3, <1>4, <1>5 DEF Runs, Chain, Typed, Now
<1>8. Now(e, c)'
  <2>1. CASE IrqEntry
    BY <2>1, <1>6, <1>7, IrqEntryStep
  <2>2. CASE CommonInterrupt
    BY <2>2, <1>6, <1>7, CommonInterruptStep
  <2>3. CASE \E v \in DOMAIN Stubs : Stub(v)
    BY <2>3, <1>6, <1>7, StubStep
  <2>4. CASE ErrorSave
    BY <2>4, <1>6, <1>7, ErrorSaveStep
  <2>5. CASE ErrorCall
    BY <2>5, <1>6, <1>7, ErrorCallStep
  <2>6. CASE \E h \in Handlers : Handler(h)
    BY <2>6, <1>4, <1>6, <1>7, HandlerStep
  <2>7. CASE \E h \in Handlers : Return(h)
    BY <2>7, <1>6, <1>7, ReturnStep
  <2>8. CASE RetFromException
    BY <2>8, <1>6, <1>7, RetFromExceptionStep
  <2>9. CASE RetFromIntr
    BY <2>9, <1>6, <1>7, RetFromIntrStep
  <2>10. CASE RestoreAll
    BY <2>10, <1>6, <1>7, RestoreAllStep
  <2>11. CASE IgnoreInt
    BY <2>11, <1>6, <1>7, IgnoreIntStep
  <2>12. CASE Ignored
    BY <2>12, <1>6, <1>7, IgnoredStep
  <2> QED
    BY <2>1, <2>2, <2>3, <2>4, <2>5, <2>6, <2>7, <2>8, <2>9, <2>10, <2>11, <2>12 DEF Inside
<1> QED
  BY <1>2, <1>3, <1>4, <1>5, <1>8, LocalStep

-----------------------------------------------------------------------------
(* What the CPU pushes for a gate.                                           *)
Pushed(c) ==
  <<Flags(c.iflag), KERNEL_CS, c.pc>>
    \o (IF c.vector \in WithCode THEN <<ErrorCode(c.vector)>> ELSE <<>>)

Framed(t, c) == t = Push(Pushed(c), c.stack)

LEMMA GateFrame ==
  ASSUME NEW c \in Context, NEW t, Framed(t, c)
  PROVE  /\ t \in Seq(Word)
         /\ c.vector \notin WithCode => Interrupted(t, 0, c)
         /\ c.vector \in WithCode => t[1] = ErrorCode(c.vector) /\ Interrupted(t, 1, c)
PROOF
<1>1. PICK f, p, x, s : /\ f = Flags(c.iflag) /\ p = c.pc /\ x = ErrorCode(c.vector)
                         /\ s = c.stack
  OBVIOUS
<1>2. /\ f \in Word /\ p \in Word /\ x \in Word /\ KERNEL_CS \in Word
      /\ s \in Seq(Word)
  BY <1>1, WordFacts, ContextFacts
<1>3. CASE c.vector \notin WithCode
  <2>1. PICK w : w = <<f, KERNEL_CS, p>>
    OBVIOUS
  <2>2. w \in Seq(Word) /\ Len(w) = 3 /\ w[1] = f /\ w[2] = KERNEL_CS /\ w[3] = p
    BY <2>1, <1>2
  <2>3. w \o <<>> = w
    BY <2>2
  <2>4. t = Push(w, s)
    BY <2>1, <2>3, <1>1, <1>3 DEF Framed, Pushed
  <2>5. /\ t \in Seq(Word) /\ Above(t, Len(w), s)
        /\ \A i \in 1 .. Len(w) : t[i] = w[Len(w) - i + 1]
    BY <2>2, <2>4, <1>2, PushFacts
  <2>6. Above(t, 3, s) /\ t[1] = p /\ t[2] = KERNEL_CS /\ t[3] = f
    BY <2>2, <2>5
  <2>7. On(t, 3, s)
    BY <2>6 DEF On, Above
  <2> QED
    BY <2>5, <2>6, <2>7, <1>1, <1>3 DEF Interrupted
<1>4. CASE c.vector \in WithCode
  <2>1. PICK w : w = <<f, KERNEL_CS, p, x>>
    OBVIOUS
  <2>2. /\ w \in Seq(Word) /\ Len(w) = 4
        /\ w[1] = f /\ w[2] = KERNEL_CS /\ w[3] = p /\ w[4] = x
    BY <2>1, <1>2
  <2>3. <<f, KERNEL_CS, p>> \o <<x>> = w
    <3>1. PICK a, b : a = <<f, KERNEL_CS, p>> /\ b = <<x>>
      OBVIOUS
    <3>2. /\ a \in Seq(Word) /\ Len(a) = 3 /\ b \in Seq(Word) /\ Len(b) = 1
          /\ a[1] = f /\ a[2] = KERNEL_CS /\ a[3] = p /\ b[1] = x
      BY <3>1, <1>2
    <3>3. /\ a \o b \in Seq(Word) /\ Len(a \o b) = Len(a) + Len(b)
          /\ \A i \in 1 .. Len(a) + Len(b) :
               (a \o b)[i] = IF i <= Len(a) THEN a[i] ELSE b[i - Len(a)]
      BY <3>2, ConcatProperties
    <3>4. Len(a \o b) = Len(w) /\ \A i \in 1 .. Len(w) : (a \o b)[i] = w[i]
      BY <3>2, <3>3, <2>2
    <3>5. a \o b = w
      BY <3>3, <3>4, <2>2, SeqEqual
    <3> QED
      BY <3>1, <3>5
  <2>4. t = Push(w, s)
    BY <2>3, <1>1, <1>4 DEF Framed, Pushed
  <2>5. /\ t \in Seq(Word) /\ Above(t, Len(w), s)
        /\ \A i \in 1 .. Len(w) : t[i] = w[Len(w) - i + 1]
    BY <2>2, <2>4, <1>2, PushFacts
  <2>6. Above(t, 4, s) /\ t[1] = x /\ t[2] = p /\ t[3] = KERNEL_CS /\ t[4] = f
    BY <2>2, <2>5
  <2>7. On(t, 4, s)
    BY <2>6 DEF On, Above
  <2> QED
    BY <2>5, <2>6, <2>7, <1>1, <1>4 DEF Interrupted
<1> QED
  BY <1>3, <1>4

(* A context on top of the others.                                           *)
LEMMA OnTop ==
  ASSUME NEW c \in Context, NEW s \in Seq(Context), NEW t, t = <<c>> \o s
  PROVE  /\ t \in Seq(Context) /\ Len(t) = Len(s) + 1 /\ t # <<>> /\ t[1] = c
         /\ \A k \in 1 .. Len(s) : t[k + 1] = s[k]
         /\ \A k \in 2 .. Len(s) + 1 : t[k] = s[k - 1]
         /\ s = <<>> => t[Len(t)] = c
         /\ s # <<>> => t[Len(t)] = s[Len(s)]
PROOF
<1>1. PICK w : w = <<c>>
  OBVIOUS
<1>2. w \in Seq(Context) /\ Len(w) = 1 /\ w[1] = c
  BY <1>1
<1>3. /\ t \in Seq(Context) /\ Len(t) = 1 + Len(s)
      /\ \A i \in 1 .. 1 + Len(s) : t[i] = IF i <= 1 THEN w[i] ELSE s[i - 1]
  <2>1. /\ w \o s \in Seq(Context) /\ Len(w \o s) = Len(w) + Len(s)
        /\ \A i \in 1 .. Len(w) + Len(s) : (w \o s)[i] = IF i <= Len(w) THEN w[i] ELSE s[i - Len(w)]
    BY <1>2, ConcatProperties
  <2> QED
    BY <2>1, <1>1, <1>2
<1>4. Len(s) \in Nat
  OBVIOUS
<1>5. t[1] = c /\ t # <<>>
  BY <1>2, <1>3, <1>4
<1>6. \A k \in 2 .. Len(s) + 1 : t[k] = s[k - 1]
  BY <1>3, <1>4
<1>7. \A k \in 1 .. Len(s) : t[k + 1] = s[k]
  BY <1>3, <1>4
<1>8. s = <<>> => t[Len(t)] = c
  BY <1>3, <1>5
<1>9. s # <<>> => t[Len(t)] = s[Len(s)]
  <2> HAVE s # <<>>
  <2>1. Len(s) \in 1 .. Len(s)
    BY <1>4
  <2> QED
    BY <2>1, <1>3, <1>6
<1> QED
  BY <1>3, <1>4, <1>5, <1>6, <1>7, <1>8, <1>9

(* The handler of whatever vector comes finds the context as it expects it.  *)
LEMMA GateGood ==
  ASSUME NEW c \in Context, NEW v, v = c.vector, GateOf(v), Kind(idt[v].seg) = "code",
         NEW e, e = Early, NEW t, NEW p, p = idt[v].entry,
         c.vector \notin WithCode => Interrupted(t, 0, c),
         c.vector \in WithCode => t[1] = ErrorCode(c.vector) /\ Interrupted(t, 1, c)
  PROVE  Good(e, p, c.regs, t, c) /\ p \in Word
PROOF
<1>1. CASE idt[v].entry = Place("ignore_int") /\ (v \in WithCode => Early)
  <2>1. p = <<"ignore_int", 0>> /\ p \in Word
    BY <1>1, WordFacts, PlacesAre DEF Place
  <2>2. Ignoring(e, t, 0, c)
    BY <1>1 DEF Ignoring
  <2> QED
    BY <2>1, <2>2 DEF Good, AtIgnoreInt
<1>2. CASE v \in DOMAIN Stubs /\ idt[v].entry = Place(Stubs[v])
  <2>1. p[1] = Stubs[v] /\ p[1] \in StubNames
    BY <1>2 DEF Place, StubNames
  <2>2. Stubs[v] \in PushesZero <=> v \notin WithCode
    BY <1>2, TablesAgree
  <2>3. AtStub(p, c.regs, t, c)
    BY <2>1, <2>2, <1>2 DEF AtStub, Faulted
  <2>4. p \in Word
    BY <2>1, <1>2, WordFacts, PlacesAre
  <2> QED
    BY <2>1, <2>3, <2>4 DEF Good
<1>3. CASE v \in 32 .. 47 /\ idt[v].entry = <<"irq_entry", v - 32>>
  <2>1. p[1] = "irq_entry" /\ p[2] = v - 32
    BY <1>3
  <2>2. v \notin WithCode
    BY <1>3 DEF WithCode
  <2>3. AtIrqEntry(p, c.regs, t, c)
    BY <2>1, <2>2, <1>3 DEF AtIrqEntry, Requested
  <2>4. p \in Word
    <3>1. "irq_entry" \in Kinds /\ v - 32 \in Int
      BY <1>3, PlacesAre, KindsAre
    <3> QED
      BY <3>1, <1>3, WordFacts
  <2> QED
    BY <2>1, <2>3, <2>4 DEF Good
<1> QED
  BY <1>1, <1>2, <1>3 DEF GateOf

(* A context on top of the others, and nothing else of them changes.         *)
LEMMA EnterGrows ==
  ASSUME IInv, NEW v, Enter(v)
  PROVE  Len(contexts') = Len(contexts) + 1
PROOF
<1>1. PICK c : contexts' = <<c>> \o contexts
  BY DEF Enter
<1>2. PICK w : w = <<c>>
  OBVIOUS
<1>3. contexts \in Seq(Context)
  BY DEF IInv, Runs, Typed, Enter
<1>4. \E S : contexts \in Seq(S) /\ w \in Seq(S)
  <2>1. w \in Seq(Context \cup {c}) /\ contexts \in Seq(Context \cup {c})
    BY <1>2, <1>3
  <2> QED
    BY <2>1
<1>5. Len(contexts') = Len(w) + Len(contexts)
  BY <1>1, <1>2, <1>4, ConcatProperties
<1> QED
  BY <1>2, <1>3, <1>5

LEMMA EnterStep ==
  ASSUME IInv, NEW v \in Vector, Enter(v)
  PROVE  IInv'
PROOF
<1>1. fate = "runs" /\ idt' = idt
  BY DEF Enter
<1>2. /\ Runs /\ Typed /\ Chain /\ GateOf(v)
      /\ pc \in Word /\ regs \in Regs /\ iflag \in BOOLEAN /\ stack \in Seq(Word)
      /\ contexts \in Seq(Context)
  BY <1>1 DEF IInv, Runs, Typed
<1>3. PICK c : c = [pc |-> pc, regs |-> regs, iflag |-> iflag, stack |-> stack, vector |-> v]
  OBVIOUS
<1>4. /\ c \in Context /\ c.pc = pc /\ c.regs = regs /\ c.iflag = iflag
      /\ c.stack = stack /\ c.vector = v
  BY <1>2, <1>3 DEF Context
<1>5. contexts' = <<c>> \o contexts
  BY <1>3 DEF Enter
<1>6. /\ contexts' \in Seq(Context) /\ Len(contexts') = Len(contexts) + 1
      /\ contexts' # <<>> /\ contexts'[1] = c
      /\ \A k \in 2 .. Len(contexts) + 1 : contexts'[k] = contexts[k - 1]
      /\ contexts = <<>> => contexts'[Len(contexts')] = c
      /\ contexts # <<>> => contexts'[Len(contexts')] = contexts[Len(contexts)]
  BY <1>2, <1>4, <1>5, OnTop
<1>7. PICK e : e = Early
  OBVIOUS
<1>8. Early' = e
  BY <1>1, <1>7 DEF Early
<1>9. CASE Kind(idt[v].seg) = "code"
  <2>1. /\ Framed(stack', c)
        /\ iflag' \in BOOLEAN /\ pc' = idt[v].entry /\ regs' = regs /\ fate' = fate
    BY <1>2, <1>4, <1>9 DEF Enter, Framed, Pushed
  <2>2. /\ stack' \in Seq(Word)
        /\ c.vector \notin WithCode => Interrupted(stack', 0, c)
        /\ c.vector \in WithCode => stack'[1] = ErrorCode(c.vector) /\ Interrupted(stack', 1, c)
    BY <2>1, <1>4, GateFrame
  <2>3. Good(e, pc', c.regs, stack', c) /\ pc' \in Word
    BY <2>1, <2>2, <1>2, <1>4, <1>7, <1>9, GateGood
  <2>4. Typed'
    BY <2>1, <2>2, <2>3, <1>2, <1>6 DEF Typed
  <2>5. Chain'
    <3>1. ASSUME NEW k \in 1 .. Len(contexts') - 1
          PROVE  Good(Early', contexts'[k].pc, contexts'[k].regs, contexts'[k].stack,
                      contexts'[k + 1])
      <4>1. Len(contexts) \in Nat /\ k \in 1 .. Len(contexts)
        BY <1>2, <1>6
      <4>2. CASE k = 1
        <5>1. contexts'[2] = contexts[1] /\ contexts # <<>>
          BY <4>1, <4>2, <1>6
        <5> QED
          BY <5>1, <4>2, <1>2, <1>4, <1>6, <1>7, <1>8 DEF Chain
      <4>3. CASE k # 1
        <5>1. PICK j : j = k - 1
          OBVIOUS
        <5>2. /\ j \in 1 .. Len(contexts) - 1 /\ contexts'[k] = contexts[j]
              /\ contexts'[k + 1] = contexts[j + 1]
          BY <5>1, <4>1, <4>3, <1>6
        <5>3. Good(e, contexts[j].pc, contexts[j].regs, contexts[j].stack, contexts[j + 1])
          BY <5>2, <1>2, <1>7 DEF Chain
        <5> QED
          BY <5>2, <5>3, <1>8
      <4> QED
        BY <4>2, <4>3
    <3>2. Main(contexts'[Len(contexts')].pc, contexts'[Len(contexts')].stack)
      BY <1>2, <1>4, <1>6 DEF Chain
    <3>3. Good(Early', pc', regs', stack', contexts'[1])
      BY <2>1, <2>3, <1>4, <1>6, <1>8
    <3> QED
      BY <3>1, <3>2, <3>3, <1>6 DEF Chain
  <2>6. DOMAIN idt' = Vector /\ \A u \in Vector : GateOf(u)'
    BY <1>1, <1>2, <1>7, <1>8 DEF Runs, GateOf
  <2>7. Bottom' = Bottom
    BY <1>4, <1>6 DEF Bottom
  <2>8. Early' => Bottom' = <<"kernel_main", 0>>
    BY <2>7, <1>2, <1>7, <1>8 DEF Runs
  <2>9. NeverAstray'
    BY <2>1, <1>1 DEF IInv, NeverAstray
  <2> QED
    BY <2>1, <2>4, <2>5, <2>6, <2>8, <2>9, <1>1 DEF IInv, Runs
<1>10. CASE Kind(idt[v].seg) # "code"
  <2>1. fate' = "shutdown" /\ regs' = regs
    BY <1>10 DEF Enter, cpu
  <2>2. v = 8
    BY <1>2, <1>10, SelectorFacts DEF GateOf
  <2>3. Head(contexts') = c
    BY <1>6
  <2>4. NeverAstray'
    BY <2>1, <2>2, <2>3, <1>4 DEF IInv, NeverAstray
  <2> QED
    BY <2>1, <2>4 DEF IInv
<1> QED
  BY <1>9, <1>10

-----------------------------------------------------------------------------
(* What iret does to a context that an interrupt has pushed no error code    *)
(* for: all that was saved comes back.                                       *)
LEMMA Resumed ==
  ASSUME NEW e, NEW c \in Context, Now(e, c), Iret, Interrupted(stack, 0, c)
  PROVE  /\ pc' = c.pc /\ iflag' = c.iflag /\ stack' = c.stack /\ regs' = c.regs
         /\ contexts' = Tail(contexts) /\ fate' = fate
PROOF
<1>1. /\ stack[1] = c.pc /\ stack[2] = KERNEL_CS /\ stack[3] = Flags(c.iflag)
      /\ On(stack, 3, c.stack)
  BY DEF Interrupted
<1>2. stack \in Seq(Word) /\ pc[1] = "iret" /\ c.stack \in Seq(Word) /\ c.iflag \in BOOLEAN
  BY ContextFacts DEF Now, Iret, At
<1>3. /\ pc' = stack[1] /\ iflag' = (stack[3] = Flags(TRUE)) /\ regs' = regs
      /\ stack' = SubSeq(stack, 3 + 1, Len(stack))
      /\ contexts' = Tail(contexts) /\ fate' = fate
  BY <1>1 DEF Iret
<1>4. regs = c.regs
  BY <1>2, Phases DEF Now, AtIgnoreInt
<1>5. iflag' = c.iflag
  BY <1>1, <1>2, <1>3 DEF Flags
<1>6. stack' = c.stack
  <2>1. PICK m : m = 3
    OBVIOUS
  <2>2. Len(stack) \in Nat /\ 0 + 3 <= Len(stack)
    BY <1>2, LongEnough
  <2>3. m \in Nat /\ m <= Len(stack) /\ stack' = SubSeq(stack, m + 1, Len(stack))
    BY <2>1, <2>2, <1>3
  <2>4. stack' \in Seq(Word) /\ Above(stack, m, stack')
    BY <2>3, <1>2, PopFacts
  <2>5. PICK l : l = Len(stack') /\ l \in Nat
    BY <2>4
  <2>6. Len(c.stack) = l /\ Len(stack) = 3 + l
    BY <2>1, <2>4, <2>5, <1>1, <1>2 DEF Above, On
  <2>7. ASSUME NEW i \in 1 .. l
        PROVE  stack'[i] = c.stack[i]
    <3>1. PICK j : j = i + 3
      OBVIOUS
    <3>2. j \in 3 + 1 .. 3 + l /\ j - 3 = i
      BY <3>1, <2>5
    <3>3. stack[j] = stack'[j - 3]
      BY <3>2, <2>1, <2>4, <2>5 DEF Above
    <3>4. stack[j] = c.stack[j - 3]
      BY <3>2, <2>6, <1>1 DEF On
    <3> QED
      BY <3>2, <3>3, <3>4
  <2> QED
    BY <2>4, <2>5, <2>6, <2>7, <1>2, SeqEqual
<1> QED
  BY <1>1, <1>3, <1>4, <1>5, <1>6

(* The context that runs, and the one it will go back to.                    *)
LEMMA Underneath ==
  ASSUME IInv, fate = "runs", pc[1] # "kernel_main"
  PROVE  /\ contexts # <<>> /\ contexts \in Seq(Context) /\ contexts[1] \in Context
         /\ Now(Early, contexts[1]) /\ Head(contexts) = contexts[1]
         /\ contexts[1].pc[1] \in Places
PROOF
<1>1. Runs
  BY DEF IInv
<1>2. contexts # <<>> /\ contexts \in Seq(Context)
  BY <1>1 DEF Runs, Chain, Main, Typed
<1>3. Now(Early, contexts[1])
  BY <1>1, <1>2 DEF Runs, Chain, Typed, Now
<1>4. contexts[1].pc[1] \in Places
  <2>1. CASE Len(contexts) = 1
    BY <2>1, <1>1, <1>2, PlacesAre DEF Runs, Chain, Main
  <2>2. CASE Len(contexts) # 1
    <3>1. PICK n : n = Len(contexts)
      OBVIOUS
    <3>2. n \in Nat /\ n >= 1 /\ n # 1
      BY <3>1, <2>2, <1>2
    <3>3. 1 \in 1 .. n - 1
      BY <3>2
    <3> QED
      BY <3>1, <3>3, <1>1, GoodPlace DEF Runs, Chain
  <2> QED
    BY <2>1, <2>2
<1> QED
  BY <1>2, <1>3, <1>4

(* iret goes back, or finds an error code and goes astray.                   *)
LEMMA IretCases ==
  ASSUME IInv, Iret
  PROVE  \/ Interrupted(stack, 0, contexts[1])
         \/ /\ fate' = "astray" /\ UNCHANGED <<contexts, regs>>
            /\ Bottom = <<"kernel_main", 0>>
PROOF
<1>1. fate = "runs" /\ pc[1] = "iret"
  BY DEF Iret, At
<1>2. PICK e, c : e = Early /\ c = contexts[1]
  OBVIOUS
<1>3. Now(e, c) /\ c.pc[1] \in Places
  BY <1>1, <1>2, Underneath
<1>4. Ignoring(e, stack, 0, c)
  BY <1>1, <1>3, Phases DEF Now, AtIgnoreInt
<1>5. CASE e /\ Interrupted(stack, 1, c)
  <2>1. stack[2] = c.pc
    BY <1>5 DEF Interrupted
  <2>2. c.pc # KERNEL_CS
    BY <1>3, PlaceNoSelector DEF KERNEL_CS, Selector
  <2>3. fate' = "astray" /\ regs' = regs /\ contexts' = contexts
    BY <2>1, <2>2 DEF Iret, cpu
  <2>4. Bottom = <<"kernel_main", 0>>
    BY <1>1, <1>2, <1>5 DEF IInv, Runs
  <2> QED
    BY <2>3, <2>4
<1> QED
  BY <1>2, <1>4, <1>5 DEF Ignoring

LEMMA IretStep ==
  ASSUME IInv, Iret
  PROVE  IInv'
PROOF
<1>1. fate = "runs" /\ idt' = idt /\ pc[1] = "iret"
  BY DEF Iret, At
<1>2. Runs /\ Typed /\ Chain
  BY <1>1 DEF IInv, Runs
<1>3. PICK e, c : e = Early /\ c = contexts[1]
  OBVIOUS
<1>4. /\ contexts # <<>> /\ contexts \in Seq(Context) /\ c \in Context /\ Now(e, c)
  BY <1>1, <1>3, Underneath
<1>6. Early' = e
  BY <1>1, <1>3 DEF Early
<1>7. PICK n : n = Len(contexts) /\ n \in Nat /\ n >= 1
  BY <1>4
<1>8. CASE Interrupted(stack, 0, c)
  <2>1. /\ pc' = c.pc /\ iflag' = c.iflag /\ stack' = c.stack /\ regs' = c.regs
        /\ contexts' = Tail(contexts) /\ fate' = fate
    BY <1>4, <1>8, Resumed
  <2>2. /\ contexts' \in Seq(Context) /\ Len(contexts') = n - 1
        /\ \A k \in 1 .. n - 1 : contexts'[k] = contexts[k + 1]
    BY <2>1, <1>4, <1>7, HeadTailProperties
  <2>3. Typed'
    BY <2>1, <2>2, <1>4, ContextFacts DEF Typed
  <2>4. contexts' = <<>> <=> n = 1
    BY <2>2, <1>7
  <2>5. contexts' # <<>> => contexts'[Len(contexts')] = contexts[n]
    BY <2>2, <2>4, <1>7
  <2>6. Chain'
    <3>1. ASSUME NEW k \in 1 .. Len(contexts') - 1
          PROVE  Good(Early', contexts'[k].pc, contexts'[k].regs, contexts'[k].stack,
                      contexts'[k + 1])
      <4>1. PICK j : j = k + 1
        OBVIOUS
      <4>2. k \in 1 .. (n - 1) - 1
        BY <2>2
      <4>3. j \in 1 .. n - 1 /\ k \in 1 .. n - 1 /\ k + 1 \in 1 .. n - 1 /\ (k + 1) + 1 = j + 1
        BY <4>1, <4>2, <1>7
      <4>4. contexts'[k] = contexts[j] /\ contexts'[k + 1] = contexts[j + 1]
        BY <4>1, <4>3, <2>2
      <4>5. Good(e, contexts[j].pc, contexts[j].regs, contexts[j].stack, contexts[j + 1])
        BY <4>3, <1>2, <1>3, <1>7 DEF Chain
      <4> QED
        BY <4>4, <4>5, <1>6
    <3>2. contexts' = <<>> => Main(pc', stack')
      BY <2>1, <2>4, <1>2, <1>3, <1>4, <1>7 DEF Chain
    <3>3. contexts' # <<>> => Good(Early', pc', regs', stack', contexts'[1])
      <4> HAVE contexts' # <<>>
      <4>1. 1 \in 1 .. n - 1
        BY <2>4, <1>7
      <4>2. contexts'[1] = contexts[1 + 1]
        BY <4>1, <2>2
      <4>3. Good(e, c.pc, c.regs, c.stack, contexts[1 + 1])
        BY <4>1, <1>2, <1>3, <1>7 DEF Chain
      <4> QED
        BY <4>2, <4>3, <2>1, <1>6
    <3>4. contexts' # <<>> =>
            Main(contexts'[Len(contexts')].pc, contexts'[Len(contexts')].stack)
      BY <2>5, <1>2, <1>4, <1>7 DEF Chain
    <3> QED
      BY <3>1, <3>2, <3>3, <3>4 DEF Chain
  <2>7. DOMAIN idt' = Vector /\ \A v \in Vector : GateOf(v)'
    BY <1>1, <1>2, <1>3, <1>6 DEF Runs, GateOf
  <2>8. Bottom' = Bottom
    BY <2>1, <2>4, <2>5, <1>3, <1>4, <1>7 DEF Bottom
  <2>9. Early' => Bottom' = <<"kernel_main", 0>>
    BY <2>8, <1>2, <1>3, <1>6 DEF Runs
  <2>10. NeverAstray'
    <3>1. Segs(regs')
      BY <2>1, <1>4, ContextFacts DEF Regs
    <3> QED
      BY <3>1, <2>1, <1>1, SelectorFacts DEF NeverAstray
  <2> QED
    BY <2>1, <2>3, <2>6, <2>7, <2>9, <2>10, <1>1 DEF IInv, Runs
<1>9. CASE fate' = "astray" /\ UNCHANGED <<contexts, regs>> /\ Bottom = <<"kernel_main", 0>>
  <2>1. contexts[n].pc = <<"kernel_main", 0>>
    BY <1>4, <1>7, <1>9 DEF Bottom
  <2>2. NeverAstray'
    BY <1>7, <1>9, <2>1 DEF IInv, NeverAstray
  <2> QED
    BY <1>9, <2>2 DEF IInv
<1> QED
  BY <1>3, <1>8, <1>9, IretCases

-----------------------------------------------------------------------------
(* A step of kernel_main: nothing is interrupted, and gates that are fit.    *)
LEMMA BootStep ==
  ASSUME IInv, NEW n \in Nat, NEW gates, NEW if \in BOOLEAN, Boot(n, gates, if),
         DOMAIN gates = Vector, \A v \in Vector : GateOf(v)', gates # setup_ign_idt
  PROVE  IInv'
PROOF
<1>1. /\ fate = "runs" /\ pc = <<"kernel_main", n>> /\ idt' = gates /\ iflag' = if
      /\ pc' = <<"kernel_main", n + 1>> /\ UNCHANGED <<regs, stack, contexts, fate>>
  BY DEF Boot
<1>2. Runs /\ Typed /\ Chain
  BY <1>1 DEF IInv, Runs
<1>3. contexts = <<>>
  <2>1. contexts # <<>> => pc[1] # "kernel_main"
    BY <1>2, GoodPlace DEF Chain
  <2> QED
    BY <2>1, <1>1
<1>4. pc' \in Word
  <2>1. "kernel_main" \in Kinds /\ n + 1 \in Int
    BY PlacesAre, KindsAre
  <2> QED
    BY <2>1, <1>1, WordFacts
<1>5. Typed'
  BY <1>1, <1>2, <1>4 DEF Typed
<1>6. Chain'
  <2>1. Len(contexts') = 0 /\ 1 .. 0 - 1 = {}
    BY <1>1, <1>3
  <2>2. stack = <<>>
    BY <1>2, <1>3 DEF Chain, Main
  <2>3. Main(pc', stack')
    BY <2>2, <1>1 DEF Main
  <2>4. \A k \in 1 .. Len(contexts') - 1 : FALSE
    BY <2>1
  <2> QED
    BY <2>3, <2>4, <1>1, <1>3 DEF Chain
<1>7. ~ Early'
  BY <1>1 DEF Early, setup_ign_idt, Vector, Gate, Place, KERNEL_CS, Selector
<1>8. NeverAstray'
  BY <1>1 DEF IInv, NeverAstray
<1> QED
  BY <1>1, <1>5, <1>6, <1>7, <1>8 DEF IInv, Runs

(* Only before trap_init there is nothing but ignore_int.                    *)
LEMMA Installed ==
  ASSUME IInv, NEW n \in Nat, NEW gates, NEW if, Boot(n, gates, if)
  PROVE  /\ DOMAIN idt = Vector /\ \A v \in Vector : GateOf(v)
         /\ n # 0 => ~ Early
PROOF
<1>1. fate = "runs" /\ pc = <<"kernel_main", n>>
  BY DEF Boot
<1>2. Runs /\ Chain
  BY <1>1 DEF IInv, Runs
<1>3. contexts = <<>>
  <2>1. contexts # <<>> => pc[1] # "kernel_main"
    BY <1>2, GoodPlace DEF Chain
  <2> QED
    BY <2>1, <1>1
<1>4. Early => n = 0
  BY <1>1, <1>2, <1>3 DEF Runs, Bottom
<1> QED
  BY <1>2, <1>4 DEF Runs

LEMMA TrapInitStep ==
  ASSUME IInv, TrapInit
  PROVE  IInv'
PROOF
<1>1. Boot(0, trap_init, FALSE) /\ idt' = trap_init
  BY DEF TrapInit, Boot
<1>2. DOMAIN idt = Vector /\ \A v \in Vector : GateOf(v)
  BY <1>1, Installed
<1>3. DOMAIN trap_init = Vector
  BY DEF trap_init
<1>4. ASSUME NEW v \in Vector
      PROVE  GateOf(v)'
  <2>1. CASE v = 8
    <3>1. idt'[v] = Gate(TASK, Selector(31, 0), "none", 0)
      BY <2>1, <1>1 DEF trap_init
    <3>2. idt'[v].seg = <<"selector", 248>>
      BY <3>1 DEF Gate, Selector
    <3>3. 248 \div 8 = 31 /\ 31 \notin DOMAIN Gdt
      BY DEF Gdt
    <3>4. Kind(idt'[v].seg) = "null"
      BY <3>2, <3>3 DEF Kind
    <3> QED
      BY <2>1, <3>4 DEF GateOf
  <2>2. CASE v # 8 /\ v \in DOMAIN Stubs
    <3>1. idt'[v] = Gate(IF v = 14 THEN INTERRUPT ELSE TRAP, KERNEL_CS, Stubs[v], 0)
      BY <2>2, <1>1 DEF trap_init
    <3>2. idt'[v].seg = KERNEL_CS /\ idt'[v].entry = Place(Stubs[v])
      BY <3>1 DEF Gate, Place
    <3> QED
      BY <2>2, <3>2 DEF GateOf
  <2>3. CASE v # 8 /\ v \notin DOMAIN Stubs
    <3>1. idt'[v] = idt[v]
      BY <2>3, <1>1 DEF trap_init
    <3>2. v \notin WithCode
      BY <2>3, StubsAre DEF WithCode
    <3>3. GateOf(v)
      BY <1>2
    <3> QED
      BY <3>1, <3>2, <3>3 DEF GateOf
  <2> QED
    BY <2>1, <2>2, <2>3
<1>5. trap_init # setup_ign_idt
  <2>1. 8 \in Vector
    BY DEF Vector
  <2>2. trap_init[8].type = TASK /\ setup_ign_idt[8].type = INTERRUPT
    BY <2>1 DEF trap_init, setup_ign_idt, Gate
  <2> QED
    BY <2>2 DEF TASK, INTERRUPT
<1> QED
  BY <1>1, <1>3, <1>4, <1>5, BootStep

LEMMA InitIRQStep ==
  ASSUME IInv, InitIRQ
  PROVE  IInv'
PROOF
<1>1. Boot(1, init_IRQ, FALSE) /\ idt' = init_IRQ
  BY DEF InitIRQ, Boot
<1>2. DOMAIN idt = Vector /\ (\A v \in Vector : GateOf(v)) /\ ~ Early
  <2>1. PICK n : n = 1
    OBVIOUS
  <2>2. n \in Nat /\ n # 0
    BY <2>1
  <2>3. Boot(n, init_IRQ, FALSE)
    BY <2>1, <1>1 DEF Boot
  <2> QED
    BY <2>2, <2>3, Installed
<1>3. DOMAIN init_IRQ = Vector
  BY DEF init_IRQ
<1>4. ASSUME NEW v \in Vector
      PROVE  GateOf(v)'
  <2>1. CASE v \in 32 .. 47
    <3>1. idt'[v] = Gate(INTERRUPT, KERNEL_CS, "irq_entry", v - 32)
      BY <2>1, <1>1 DEF init_IRQ, FIRST_EXTERNAL_VECTOR
    <3>2. idt'[v].seg = KERNEL_CS /\ idt'[v].entry = <<"irq_entry", v - 32>>
      BY <3>1 DEF Gate
    <3> QED
      BY <2>1, <3>2 DEF GateOf
  <2>2. CASE v \notin 32 .. 47
    <3>1. idt'[v] = idt[v]
      BY <2>2, <1>1 DEF init_IRQ, FIRST_EXTERNAL_VECTOR
    <3>2. GateOf(v)
      BY <1>2
    <3> QED
      BY <3>1, <3>2, <1>2 DEF GateOf
  <2> QED
    BY <2>1, <2>2
<1>5. init_IRQ # setup_ign_idt
  <2>1. 32 \in Vector
    BY DEF Vector
  <2>2. /\ init_IRQ[32].entry = <<"irq_entry", 0>>
        /\ setup_ign_idt[32].entry = <<"ignore_int", 0>>
    BY <2>1 DEF init_IRQ, setup_ign_idt, Gate, FIRST_EXTERNAL_VECTOR
  <2> QED
    BY <2>2
<1> QED
  BY <1>1, <1>3, <1>4, <1>5, BootStep

LEMMA EnableStep ==
  ASSUME IInv, Enable
  PROVE  IInv'
PROOF
<1>1. Boot(2, idt, TRUE) /\ idt' = idt
  BY DEF Enable, Boot
<1>2. DOMAIN idt = Vector /\ (\A v \in Vector : GateOf(v)) /\ ~ Early
  <2>1. PICK n : n = 2
    OBVIOUS
  <2>2. n \in Nat /\ n # 0
    BY <2>1
  <2>3. Boot(n, idt, TRUE)
    BY <2>1, <1>1 DEF Boot
  <2> QED
    BY <2>2, <2>3, Installed
<1>3. \A v \in Vector : GateOf(v)'
  BY <1>1, <1>2 DEF GateOf
<1>4. idt # setup_ign_idt
  BY <1>2 DEF Early
<1> QED
  BY <1>1, <1>2, <1>3, <1>4, BootStep

LEMMA InitInv ==
  Init => IInv
PROOF
<1> SUFFICES ASSUME Init PROVE IInv
  OBVIOUS
<1>1. /\ idt = setup_ign_idt /\ pc = <<"kernel_main", 0>> /\ iflag = FALSE
      /\ stack = <<>> /\ contexts = <<>> /\ fate = "runs"
      /\ regs = [r \in Names |-> IF r \in {"ds", "es"} THEN KERNEL_DS ELSE <<r, 0>>]
  BY DEF Init, Names
<1>2. regs \in Regs
  <2>1. ASSUME NEW r \in Names
        PROVE  <<r, 0>> \in Word
    <3>1. r \in Kinds /\ 0 \in Int
      BY KindsAre
    <3> QED
      BY <3>1, WordFacts
  <2>2. regs \in [Names -> Word]
    BY <2>1, <1>1, WordFacts
  <2>3. regs["ds"] = KERNEL_DS /\ regs["es"] = KERNEL_DS
    BY <1>1, NamesAre
  <2> QED
    BY <2>2, <2>3 DEF Regs, Segs
<1>3. Typed
  <2>1. pc \in Word
    BY <1>1, WordFacts, PlacesAre
  <2>2. stack \in Seq(Word) /\ contexts \in Seq(Context)
    BY <1>1
  <2> QED
    BY <2>1, <2>2, <1>1, <1>2 DEF Typed
<1>4. Chain
  <2>1. Len(contexts) = 0 /\ 1 .. 0 - 1 = {}
    BY <1>1
  <2>2. \A k \in 1 .. Len(contexts) - 1 : FALSE
    BY <2>1
  <2> QED
    BY <2>2, <1>1 DEF Chain, Main
<1>5. Early /\ DOMAIN idt = Vector
  BY <1>1 DEF Early, setup_ign_idt
<1>6. ASSUME NEW v \in Vector
      PROVE  GateOf(v)
  <2>1. idt[v].seg = KERNEL_CS /\ idt[v].entry = Place("ignore_int")
    BY <1>1 DEF setup_ign_idt, Gate, Place
  <2> QED
    BY <2>1, <1>5 DEF GateOf
<1>7. NeverAstray
  <2>1. Segs(regs)
    BY <1>2 DEF Regs
  <2> QED
    BY <2>1, <1>1, SelectorFacts DEF NeverAstray
<1> QED
  BY <1>1, <1>3, <1>4, <1>5, <1>6, <1>7 DEF IInv, Runs, Bottom

(* An event enters a gate of the table.                                      *)
LEMMA EventStep ==
  ASSUME IInv, Event
  PROVE  \E v \in Vector : Enter(v)
PROOF
<1>1. CASE NonMaskable
  <2>1. NMI \in Vector
    BY DEF NMI, Vector
  <2> QED
    BY <2>1, <1>1 DEF NonMaskable
<1>2. CASE \E i \in Irq : Interrupt(i)
  <2>1. PICK i \in Irq : Interrupt(i)
    BY <1>2
  <2>2. FIRST_EXTERNAL_VECTOR + i \in Vector
    BY TrapAssumption DEF FIRST_EXTERNAL_VECTOR, Vector
  <2> QED
    BY <2>1, <2>2 DEF Interrupt
<1>3. CASE \E v \in Exception : Raise(v)
  <2>1. PICK v \in Exception : Raise(v)
    BY <1>3
  <2>2. v \in Vector
    BY TrapAssumption DEF Vector
  <2> QED
    BY <2>1, <2>2 DEF Raise
<1> QED
  BY <1>1, <1>2, <1>3 DEF Event

LEMMA StepInv ==
  IInv /\ [Next]_vars => IInv'
PROOF
<1> SUFFICES ASSUME IInv, [Next]_vars PROVE IInv'
  OBVIOUS
<1>1. CASE Event
  BY <1>1, EventStep, EnterStep
<1>2. CASE Inside
  BY <1>2, InsideStep
<1>3. CASE Iret
  BY <1>3, IretStep
<1>4. CASE TrapInit
  BY <1>4, TrapInitStep
<1>5. CASE InitIRQ
  BY <1>5, InitIRQStep
<1>6. CASE Enable
  BY <1>6, EnableStep
<1>7. CASE UNCHANGED vars
  <2>1. UNCHANGED <<idt, pc, regs, iflag, stack, contexts, fate>>
    BY <1>7 DEF vars, cpu
  <2> QED
    BY <2>1 DEF IInv, Runs, Typed, Chain, GateOf, Early, Bottom, NeverAstray
<1> QED
  BY <1>1, <1>2, <1>3, <1>4, <1>5, <1>6, <1>7 DEF Next, Cpu, Inside

(* Every context that is interrupted stays whole below the ones above it,    *)
(* word by word of the stack, at every place of the stubs and the handlers.  *)
THEOREM TrapInductive == Spec => []IInv
PROOF
<1> QED
  BY InitInv, StepInv, PTL DEF Spec

(* Control is lost to no iret but one of a time when trap_init had not run,  *)
(* the CPU shuts down for nothing but a double fault, and the segment        *)
(* registers hold selectors of the GDT, for whatever lines and exceptions.   *)
THEOREM ControlNotLost == Spec => []NeverAstray
PROOF
<1>1. IInv => NeverAstray
  BY DEF IInv
<1> QED
  BY <1>1, TrapInductive, PTL

(* regs is the interrupted context wherever a handler starts, field by field *)
(* of struct pt_regs, and the handler is that of the vector.                 *)
THEOREM FramesArePtRegs == Spec => []FrameIsPtRegs
PROOF
<1>1. IInv => FrameIsPtRegs
  <2> SUFFICES ASSUME IInv, Entered PROVE FrameIsPtRegs
    BY DEF FrameIsPtRegs
  <2>1. fate = "runs" /\ pc[1] \in Handlers /\ pc[2] = 0 /\ pc[1] # "kernel_main"
    BY HandlersAre DEF Entered
  <2>2. PICK e, c : e = Early /\ c = Head(contexts)
    OBVIOUS
  <2>3. c \in Context /\ Now(e, c)
    BY <2>1, <2>2, Underneath
  <2>4. /\ stack[1] \in Ways /\ Fields(stack, 1, c) /\ Interrupted(stack, 11, c)
        /\ regs["eax"] = <<"esp", Len(stack) - 1>>
        /\ pc[1] = "do_IRQ" => Requested(c) /\ stack[11] = IrqWord(c)
        /\ pc[1] # "do_IRQ" =>
             Faulted(c) /\ pc[1] = HandlerOf(c) /\ regs["edx"] = ErrorCode(c.vector)
    BY <2>1, <2>3, Phases DEF Now, AtHandler
  <2>5. \A k \in Int : Field(k) = stack[k + 1]
    <3>1. PICK l : l = Len(stack) /\ l \in Nat
      BY <2>3 DEF Now
    <3>2. regs["eax"][2] = l - 1
      BY <3>1, <2>4
    <3>3. \A k \in Int : l - (l - 1) + k = k + 1
      BY <3>1
    <3> QED
      BY <3>1, <3>2, <3>3 DEF Field
  <2>6. ASSUME NEW k \in DOMAIN PtRegs
        PROVE  Field(k) = c.regs[PtRegs[k]]
    <3>1. k \in 1 .. 9
      BY DEF PtRegs
    <3>2. k + 1 \in 2 .. 10 /\ (k + 1) - 1 = k
      BY <3>1
    <3>3. stack[k + 1] = c.regs[PtRegs[(k + 1) - 1]]
      BY <3>2, <2>4 DEF Fields
    <3> QED
      BY <3>1, <3>2, <3>3, <2>5
  <2>7. /\ Field(11) = c.pc /\ Field(12) = KERNEL_CS /\ Field(13) = Flags(c.iflag)
        /\ Field(10) = stack[11]
    BY <2>4, <2>5 DEF Interrupted
  <2>8. CASE pc[1] = "do_IRQ"
    <3>1. PICK v : v = c.vector
      OBVIOUS
    <3>2. v \in 32 .. 47 /\ Field(10)[2] = v - 288
      BY <3>1, <2>4, <2>7, <2>8 DEF Requested, IrqWord
    <3>3. (v - 288) % 256 = v - 32
      BY <3>2
    <3> QED
      BY <3>1, <3>2, <3>3, <2>2, <2>6, <2>7, <2>8 DEF FrameIsPtRegs, At, FIRST_EXTERNAL_VECTOR
  <2>9. CASE pc[1] # "do_IRQ"
    <3>1. TrapNr[pc[1]] = c.vector
      BY <2>4, <2>9, TablesAgree DEF Faulted, HandlerOf
    <3> QED
      BY <3>1, <2>2, <2>4, <2>6, <2>7, <2>9 DEF FrameIsPtRegs, At
  <2> QED
    BY <2>8, <2>9
<1> QED
  BY <1>1, TrapInductive, PTL

(* A context that is gone back to has its place, its registers, its flags    *)
(* and its stack back, through whichever gate it was left.                   *)
THEOREM ContextsComeBack == Spec => ContextRestored
PROOF
<1> DEFINE Restored ==
      LET c == Head(contexts) IN
        <<pc', iflag', stack'>> = <<c.pc, c.iflag, c.stack>> /\ regs' = c.regs
    Back == [Len(contexts') < Len(contexts) => Restored]_vars
<1>1. IInv /\ [Next]_vars => Back
  <2> SUFFICES ASSUME IInv, Next, Len(contexts') < Len(contexts) PROVE Restored
    OBVIOUS
  <2>1. fate = "runs" /\ contexts \in Seq(Context)
    <3>1. fate = "runs"
      BY DEF Next, Event, Cpu, NonMaskable, Interrupt, Raise, Enter, IrqEntry, CommonInterrupt,
             Stub, ErrorSave, ErrorCall, Handler, Return, RetFromException, RetFromIntr,
             RestoreAll, IgnoreInt, Ignored, Step, Iret, TrapInit, InitIRQ, Enable, Boot
    <3> QED
      BY <3>1 DEF IInv, Runs, Typed
  <2>2. contexts' # contexts
    BY <2>1
  <2>3. ~ Event
    <3> SUFFICES ASSUME Event PROVE FALSE
      OBVIOUS
    <3>1. Len(contexts') = Len(contexts) + 1
      BY EventStep, EnterGrows
    <3> QED
      BY <3>1, <2>1
  <2>4. Iret
    BY <2>2, <2>3
    DEF Next, Cpu, IrqEntry, CommonInterrupt, Stub, ErrorSave, ErrorCall, Handler, Return,
        RetFromException, RetFromIntr, RestoreAll, IgnoreInt, Ignored, Step, TrapInit,
        InitIRQ, Enable, Boot
  <2>5. PICK e, c : e = Early /\ c = contexts[1]
    OBVIOUS
  <2>6. pc[1] # "kernel_main"
    BY <2>4 DEF Iret, At
  <2>7. c = Head(contexts) /\ c \in Context /\ Now(e, c)
    BY <2>1, <2>5, <2>6, Underneath
  <2>8. Interrupted(stack, 0, c)
    BY <2>2, <2>4, <2>5, IretCases
  <2> QED
    BY <2>4, <2>7, <2>8, Resumed
<1> QED
  BY <1>1, TrapInductive, PTL DEF Spec, ContextRestored
=============================================================================
