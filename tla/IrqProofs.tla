----------------------------- MODULE IrqProofs -----------------------------
(* Proofs about module Irq: for any lines, any drivers and any boot sequence *)
(* that registers a line's action before the line can fire.                  *)
EXTENDS Irq, SequenceTheorems, TLAPS

MainPcs  == {"main", "enabling", "setup", "startup", "starting", "unlock"}
ServePcs == {"do_irq", "ack", "acking", "handle", "run", "end", "ending",
             "lock", "lostAck", "lostAcking", "iret"}
PicPcs   == {"acking", "ending", "lostAcking", "enabling", "starting"}
SetupPcs == {"setup", "startup", "starting", "unlock"}
UnackedPcs == {"do_irq", "ack", "acking", "lock", "lostAck", "lostAcking"}
LostPcs  == {"lock", "lostAck", "lostAcking"}
(* Where interrupts can be on, and so where a context can be interrupted.    *)
OpenPcs  == {"main", "run"}
(* Where the line is masked, and where it has an action.                     *)
MaskedPcs == {"handle", "run", "end", "ending"}

Frame == [irq : Irq \cup {NoIrq}, pc : MainPcs \cup ServePcs, turn : Nat,
          outer : BOOLEAN, inner : BOOLEAN]
Slot == 1 .. Len(frames)

TypeOK ==
  /\ iflag \in BOOLEAN
  /\ irr \subseteq Irq /\ isr \subseteq Int
  /\ imr \subseteq Pin /\ cached \subseteq Pin
  /\ picLock \in BOOLEAN
  /\ descLock \subseteq Irq
  /\ status \in [Pin -> {"disabled", "idle", "percpu"}]
  /\ action \in [Irq -> Seq(Action)]
  /\ frames \in Seq(Frame) /\ frames # <<>>
  /\ at \in Nat \ {0}
  /\ edges \in [Irq -> Nat]

(* main is at the bottom of the stack, and everything but the frame on top   *)
(* was interrupted where interrupts were on.                                 *)
Stack ==
  /\ frames[1].irq = NoIrq /\ frames[1].pc \in MainPcs
  /\ \A n \in Slot : n > 1 => frames[n].irq \in Irq /\ frames[n].pc \in ServePcs
  /\ \A n \in Slot : n < Len(frames) => frames[n].pc \in OpenPcs
  /\ iflag => Cur.pc \in OpenPcs

(* Where main is, and where the locks are taken.  What a section of          *)
(* __do_IRQ or of setup_irq restores is IF off.                              *)
Where ==
  /\ frames[1].pc \in SetupPcs => at \in DOMAIN Program /\ OpNow.op = "setup"
  /\ frames[1].pc = "enabling" => at \in DOMAIN Program /\ OpNow.op = "enable"
  /\ picLock <=> Cur.pc \in PicPcs
  /\ Cur.pc \in PicPcs \ {"enabling"} => ~Cur.inner
  /\ \A i \in descLock : i \in Spurious \/ (frames[1].pc \in SetupPcs /\ i = MainLine)

(* The controllers mask what the driver thinks they mask; a line that is not *)
(* masked is one that __do_IRQ serves; nobody touches the spurious lines.    *)
Masks ==
  /\ imr = cached
  /\ \A i \in Irq \ cached : status[i] = "percpu"
  /\ \A i \in Irq : status[i] # "disabled" => i \notin Spurious
  /\ Spurious \subseteq cached

(* A frame that has acknowledged its line keeps it masked.                   *)
Served ==
  \A n \in Slot :
    /\ frames[n].pc \in MaskedPcs => frames[n].irq \in cached
    /\ frames[n].pc \in MaskedPcs \cup {"ack", "acking"} => status[frames[n].irq] = "percpu"
    /\ frames[n].pc \in LostPcs => frames[n].irq \in Spurious
    /\ frames[n].pc = "do_irq" /\ frames[n].irq \notin Spurious =>
         status[frames[n].irq] = "percpu"

(* Only the frame on top can still owe an EOI.                               *)
InService ==
  IF Cur.pc \in UnackedPcs THEN isr \subseteq {Cur.irq, MasterPin(Cur.irq)} ELSE isr = {}

IInv == TypeOK /\ Stack /\ Where /\ Masks /\ Served /\ InService /\ NoReentry

(* Every setup_irq main has been through leaves an action, and nothing can   *)
(* interrupt before the sti of the boot sequence.                            *)
StiDone == \E s \in DOMAIN Program : s < at /\ Program[s].op = "sti"
Registered ==
  /\ \A k \in DOMAIN Program :
       k < at /\ Program[k].op = "setup" => action[Program[k].irq] # <<>>
  /\ frames[1].pc \in {"startup", "starting", "unlock"} => action[MainLine] # <<>>
  /\ iflag \/ frames[1].outer \/ frames[1].inner \/ Len(frames) > 1 => StiDone
  /\ \A i \in Irq \ cached :
       \/ action[i] # <<>>
       \/ \E e \in DOMAIN Program :
            e < at /\ Program[e].op = "enable" /\ Program[e].irq = i
  /\ \A n \in Slot :
       /\ frames[n].pc \in MaskedPcs \cup {"ack", "acking"} => action[frames[n].irq] # <<>>
       /\ frames[n].pc = "do_irq" /\ frames[n].irq \notin Spurious =>
            action[frames[n].irq] # <<>>

(* Each spurious line comes at most once: the second would spin for ever.    *)
SpuriousOnce == \A i \in Spurious : MaxEdges[i] <= 1
Once ==
  \A i \in Spurious :
    /\ i \in descLock => edges[i] >= 1
    /\ \A n \in Slot : frames[n].irq = i => edges[i] >= 1
    /\ \A n \in Slot : frames[n].irq = i /\ frames[n].pc \in {"do_irq", "lock"} =>
         i \notin descLock

-----------------------------------------------------------------------------
(* Steps on the stack: the frame on top becomes r; a frame is pushed.        *)
OnTop(r) ==
  /\ r \in Frame
  /\ frames' \in Seq(Frame) /\ frames' # <<>>
  /\ Len(frames') = Len(frames) /\ Cur' = r
  /\ \A n \in Slot : n < Len(frames) => frames'[n] = frames[n]

LEMMA Height ==
  ASSUME frames \in Seq(Frame), frames # <<>>
  PROVE  Len(frames) \in Nat \ {0} /\ Cur \in Frame /\ \A n \in Slot : frames[n] \in Frame
<1>1. Len(frames) \in Nat \ {0}
  BY EmptySeq
<1>2. \A n \in Slot : frames[n] \in Frame
  BY ElementOfSeq DEF Slot
<1>3. QED
  BY <1>1, <1>2 DEF Cur, Slot

LEMMA TopChanges ==
  ASSUME frames \in Seq(Frame), frames # <<>>, NEW r \in Frame,
         frames' = [frames EXCEPT ![Len(frames)] = r]
  PROVE  OnTop(r)
<1>1. Len(frames) \in Nat \ {0}
  BY Height
<1>2. Len(frames) \in 1 .. Len(frames)
  BY <1>1
<1>3. /\ frames' \in Seq(Frame)
      /\ Len(frames') = Len(frames)
      /\ \A j \in 1 .. Len(frames) : frames'[j] = IF j = Len(frames) THEN r ELSE frames[j]
  BY <1>2, ExceptSeq
<1>4. frames' # <<>>
  BY <1>1, <1>3, EmptySeq
<1>5. Cur' = r
  BY <1>2, <1>3 DEF Cur
<1>6. \A n \in Slot : n < Len(frames) => frames'[n] = frames[n]
  <2> TAKE n \in Slot
  <2> HAVE n < Len(frames)
  <2>1. n \in 1 .. Len(frames) /\ n # Len(frames)
    BY <1>1 DEF Slot
  <2>2. QED
    BY <2>1, <1>3
<1>7. QED
  BY <1>3, <1>4, <1>5, <1>6 DEF OnTop

LEMMA GotoTop ==
  ASSUME TypeOK, NEW pc \in MainPcs \cup ServePcs, Goto(pc)
  PROVE  OnTop([Cur EXCEPT !.pc = pc])
<1>1. Cur \in Frame
  BY Height DEF TypeOK
<1>2. [Cur EXCEPT !.pc = pc] \in Frame
  BY <1>1 DEF Frame
<1>3. frames' = [frames EXCEPT ![Len(frames)] = [Cur EXCEPT !.pc = pc]]
  BY DEF Goto, Cur
<1>4. QED
  BY <1>2, <1>3, TopChanges DEF TypeOK

LEMMA PicEnterTop ==
  ASSUME TypeOK, NEW from, NEW to \in MainPcs \cup ServePcs, PicEnter(from, to)
  PROVE  OnTop([Cur EXCEPT !.pc = to, !.inner = iflag])
<1>1. Cur \in Frame
  BY Height DEF TypeOK
<1>2. [Cur EXCEPT !.pc = to, !.inner = iflag] \in Frame
  BY <1>1 DEF Frame, TypeOK
<1>3. frames' = [frames EXCEPT ![Len(frames)] = [Cur EXCEPT !.pc = to, !.inner = iflag]]
  BY Height DEF PicEnter, Cur, TypeOK
<1>4. QED
  BY <1>2, <1>3, TopChanges DEF TypeOK

LEMMA NewFields ==
  ASSUME NEW i, NEW pc
  PROVE  NewFrame(i, pc).irq = i /\ NewFrame(i, pc).pc = pc
BY DEF NewFrame

LEMMA PushFrame ==
  ASSUME TypeOK, NEW i \in Irq, Interrupt(i)
  PROVE  /\ frames' \in Seq(Frame) /\ frames' # <<>>
         /\ Len(frames') = Len(frames) + 1
         /\ Cur' = NewFrame(i, "do_irq")
         /\ \A n \in Slot : frames'[n] = frames[n]
<1>1. NewFrame(i, "do_irq") \in Frame
  BY DEF NewFrame, Frame, ServePcs
<1>2. QED
  BY <1>1, AppendProperties DEF Interrupt, Cur, Slot, TypeOK

LEMMA PopFrame ==
  ASSUME TypeOK, Len(frames) > 1, frames' = SubSeq(frames, 1, Len(frames) - 1)
  PROVE  /\ frames' \in Seq(Frame) /\ frames' # <<>>
         /\ Len(frames') = Len(frames) - 1
         /\ \A n \in 1 .. Len(frames) - 1 : frames'[n] = frames[n]
<1>1. Len(frames) \in Nat /\ \A n \in 1 .. Len(frames) - 1 : frames[n] \in Frame
  BY Height DEF TypeOK, Slot
<1>2. /\ frames' \in Seq(Frame)
      /\ Len(frames') = Len(frames) - 1
      /\ \A n \in 1 .. Len(frames) - 1 : frames'[n] = frames[n]
  BY <1>1, SubSeqProperties
<1>3. Len(frames) - 1 # 0
  BY <1>1
<1>4. frames' # <<>>
  BY <1>2, <1>3, EmptySeq
<1>5. QED
  BY <1>2, <1>4

(* The frames below the top stay as they are.                                *)
LEMMA BelowKept ==
  ASSUME TypeOK, NEW r, OnTop(r)
  PROVE  /\ Slot' = Slot /\ DOMAIN frames = Slot /\ DOMAIN frames' = Slot
         /\ Len(frames) \in Slot /\ 1 \in Slot
         /\ frames'[Len(frames)] = r /\ Cur = frames[Len(frames)]
         /\ \A n \in Slot : n # Len(frames) =>
              n < Len(frames) /\ frames'[n] = frames[n]
<1>1. Len(frames) \in Nat \ {0}
  BY Height DEF TypeOK
<1>2. DOMAIN frames = 1 .. Len(frames) /\ DOMAIN frames' = 1 .. Len(frames')
  BY LenProperties DEF TypeOK, OnTop
<1>3. Slot' = Slot /\ DOMAIN frames = Slot /\ DOMAIN frames' = Slot
  BY <1>2 DEF Slot, OnTop
<1>4. Len(frames) \in Slot /\ 1 \in Slot
  BY <1>1 DEF Slot
<1>5. frames'[Len(frames)] = r /\ Cur = frames[Len(frames)]
  BY DEF OnTop, Cur
<1>6. ASSUME NEW n \in Slot, n # Len(frames)
      PROVE  n < Len(frames) /\ frames'[n] = frames[n]
  <2>1. n < Len(frames)
    BY <1>1, <1>6 DEF Slot
  <2>2. QED
    BY <2>1 DEF OnTop
<1>7. QED
  BY <1>3, <1>4, <1>5, <1>6

(* main or a context of __do_IRQ goes on: the stack keeps its shape.         *)
LEMMA StackKept ==
  ASSUME TypeOK, Stack, NoReentry, NEW r, OnTop(r), r.irq = Cur.irq,
         \/ r.pc \in MainPcs /\ Cur.pc \in MainPcs
         \/ r.pc \in ServePcs /\ Cur.pc \in ServePcs,
         iflag' => r.pc \in OpenPcs
  PROVE  Stack' /\ NoReentry'
<1> USE BelowKept
<1>1. Len(frames) \in Nat \ {0} /\ Len(frames') = Len(frames)
  BY Height DEF TypeOK, OnTop
<1>2. \A n \in Slot : frames'[n].irq = frames[n].irq
  OBVIOUS
<1>3. NoReentry'
  BY <1>2 DEF NoReentry
<1>4. MainPcs \cap ServePcs = {}
  BY DEF MainPcs, ServePcs
<1>5. frames'[1].irq = NoIrq /\ frames'[1].pc \in MainPcs
  BY <1>4 DEF Stack
<1>6. ASSUME NEW n \in Slot, n > 1
      PROVE  frames'[n].irq \in Irq /\ frames'[n].pc \in ServePcs
  BY <1>4, <1>6 DEF Stack
<1>7. ASSUME NEW n \in Slot, n < Len(frames)
      PROVE  frames'[n].pc \in OpenPcs
  BY <1>1, <1>7 DEF Stack, OnTop
<1>8. iflag' => Cur'.pc \in OpenPcs
  BY DEF OnTop
<1>9. QED
  BY <1>1, <1>3, <1>5, <1>6, <1>7, <1>8 DEF Stack

(* Who is on top may mask lines and unmask its own; the frames below keep    *)
(* theirs masked.                                                            *)
LEMMA ServedKept ==
  ASSUME TypeOK, Stack, NoReentry, Served, NEW r, OnTop(r),
         r.pc \in MaskedPcs => r.irq \in cached',
         r.pc \in MaskedPcs \cup {"ack", "acking"} => status'[r.irq] = "percpu",
         r.pc \in LostPcs => r.irq \in Spurious,
         r.pc = "do_irq" /\ r.irq \notin Spurious => status'[r.irq] = "percpu",
         \A i \in Irq : i \in cached /\ i # Cur.irq => i \in cached',
         \A i \in Irq : status[i] = "percpu" => status'[i] = "percpu"
  PROVE  Served'
<1> USE BelowKept
<1>1. ASSUME NEW n \in Slot
      PROVE  /\ frames'[n].pc \in MaskedPcs => frames'[n].irq \in cached'
             /\ frames'[n].pc \in MaskedPcs \cup {"ack", "acking"} =>
                  status'[frames'[n].irq] = "percpu"
             /\ frames'[n].pc \in LostPcs => frames'[n].irq \in Spurious
             /\ frames'[n].pc = "do_irq" /\ frames'[n].irq \notin Spurious =>
                  status'[frames'[n].irq] = "percpu"
  <2>1. CASE n = Len(frames)
    BY <2>1
  <2>2. CASE n # Len(frames)
    <3>1. frames'[n] = frames[n] /\ frames[n].irq # Cur.irq
      BY <2>2 DEF NoReentry
    <3>2. frames[n].pc \in MainPcs \/ frames[n].irq \in Irq
      BY Height DEF Stack, TypeOK, Slot
    <3>3. MainPcs \cap (MaskedPcs \cup LostPcs \cup {"ack", "acking", "do_irq"}) = {}
      BY DEF MainPcs, MaskedPcs, LostPcs
    <3>4. QED
      BY <3>1, <3>2, <3>3 DEF Served
  <2>3. QED
    BY <2>1, <2>2
<1>2. QED
  BY <1>1 DEF Served


(* A context of __do_IRQ on top has a line; main on top is alone.            *)
LEMMA WhoRuns ==
  ASSUME TypeOK, Stack
  PROVE  /\ Cur \in Frame /\ Len(frames) \in Slot
         /\ Cur.pc \in ServePcs => Cur.irq \in Irq /\ Len(frames) > 1
         /\ Cur.pc \in MainPcs => Len(frames) = 1 /\ Cur = frames[1]
<1>1. Len(frames) \in Nat \ {0} /\ Cur \in Frame
  BY Height DEF TypeOK
<1>2. MainPcs \cap ServePcs = {}
  BY DEF MainPcs, ServePcs
<1>3. Len(frames) \in Slot
  BY <1>1 DEF Slot
<1>4. CASE Len(frames) = 1
  BY <1>1, <1>2, <1>3, <1>4 DEF Stack, Cur
<1>5. CASE Len(frames) > 1
  BY <1>1, <1>2, <1>3, <1>5 DEF Stack, Cur
<1>6. Len(frames) = 1 \/ Len(frames) > 1
  BY <1>1
<1>7. QED
  BY <1>1, <1>3, <1>4, <1>5, <1>6

-----------------------------------------------------------------------------
(* One lemma for each action.                                                *)
LEMMA DoIrqStep == ASSUME IInv, DoIrq PROVE IInv'
<1> DEFINE pc == IF status[Cur.irq] = "percpu" THEN "ack" ELSE "lock"
           r == [Cur EXCEPT !.pc = pc]
<1> USE DEF IInv
<1>1. OnTop(r)
  BY GotoTop DEF DoIrq, ServePcs
<1>2. Cur \in Frame /\ Cur.pc = "do_irq" /\ r.irq = Cur.irq /\ r.pc = pc /\ r.inner = Cur.inner
  BY Height DEF DoIrq, At, Frame, TypeOK
<1> HIDE DEF r
<1>3. TypeOK'
  BY <1>1 DEF TypeOK, DoIrq, pic, desc, OnTop
<1>4. Stack' /\ NoReentry'
  BY <1>1, <1>2, StackKept DEF DoIrq, ServePcs, Stack, OpenPcs
<1>5. Where'
  BY <1>1, <1>2, BelowKept DEF Where, DoIrq, pic, desc, OnTop, PicPcs, SetupPcs, MainLine, OpNow
<1>6. Masks'
  BY DEF Masks, DoIrq, pic, desc
<1>7. Served'
  BY <1>1, <1>2, ServedKept, BelowKept DEF Served, DoIrq, pic, desc, MaskedPcs, LostPcs
<1>8. InService'
  BY <1>1, <1>2 DEF InService, DoIrq, pic, desc, UnackedPcs, OnTop
<1>9. QED
  BY <1>3, <1>4, <1>5, <1>6, <1>7, <1>8

LEMMA AckEnterStep == ASSUME IInv, AckEnter PROVE IInv'
<1> DEFINE r == [Cur EXCEPT !.pc = "acking", !.inner = iflag]
<1> USE DEF IInv
<1>1. OnTop(r)
  BY PicEnterTop DEF AckEnter, ServePcs
<1>2. /\ Cur \in Frame /\ Cur.pc = "ack" /\ ~iflag
      /\ r.irq = Cur.irq /\ r.pc = "acking" /\ r.inner = FALSE
  BY Height DEF AckEnter, PicEnter, At, Frame, TypeOK, Stack, OpenPcs
<1> HIDE DEF r
<1> USE DEF AckEnter, PicEnter, pic, desc
<1>3. TypeOK'
  BY <1>1 DEF TypeOK, OnTop
<1>4. Stack' /\ NoReentry'
  BY <1>1, <1>2, StackKept DEF ServePcs
<1>5. Where'
  BY <1>1, <1>2, BelowKept DEF Where, OnTop, PicPcs, SetupPcs, MainLine, OpNow
<1>6. Masks'
  BY DEF Masks
<1>7. Served'
  BY <1>1, <1>2, ServedKept, BelowKept DEF Served, MaskedPcs, LostPcs
<1>8. InService'
  BY <1>1, <1>2 DEF InService, UnackedPcs, OnTop
<1>9. QED
  BY <1>3, <1>4, <1>5, <1>6, <1>7, <1>8

LEMMA AckStep == ASSUME IInv, Ack PROVE IInv'
<1> DEFINE r == [Cur EXCEPT !.pc = "handle"]
<1> USE DEF IInv
<1>1. OnTop(r)
  BY GotoTop DEF Ack, PicLeave, ServePcs
<1>2. /\ Cur \in Frame /\ Cur.pc = "acking" /\ Cur.inner = FALSE /\ Cur.irq \in Irq
      /\ r.irq = Cur.irq /\ r.pc = "handle" /\ r.inner = Cur.inner
  BY WhoRuns DEF Ack, At, Frame, Where, PicPcs, ServePcs
<1> HIDE DEF r
<1> USE DEF Ack, AckBody, PicLeave, pic, desc
<1>3. imr' = cached'
  BY <1>2 DEF WriteMask, Masks, TypeOK
<1>4. TypeOK'
  <2>1. cached' \subseteq Pin /\ isr' \subseteq Int /\ iflag' = FALSE /\ picLock' = FALSE
    BY <1>2 DEF TypeOK, Pin
  <2>2. QED
    BY <1>1, <1>3, <2>1 DEF TypeOK, OnTop
<1>5. Stack' /\ NoReentry'
  BY <1>1, <1>2, StackKept DEF ServePcs
<1>6. Where'
  BY <1>1, <1>2, BelowKept DEF Where, OnTop, PicPcs, SetupPcs, MainLine, OpNow
<1>7. Masks'
  BY <1>2, <1>3 DEF Masks
<1>8. Served'
  BY <1>1, <1>2, ServedKept, BelowKept DEF Served, MaskedPcs, LostPcs
<1>9. InService'
  BY <1>1, <1>2 DEF InService, UnackedPcs, OnTop
<1>10. QED
  BY <1>4, <1>5, <1>6, <1>7, <1>8, <1>9

LEMMA HandleTop ==
  ASSUME TypeOK, Handle
  PROVE  OnTop([Cur EXCEPT !.pc = "run", !.turn = 1])
<1>1. Cur \in Frame
  BY Height DEF TypeOK
<1>2. [Cur EXCEPT !.pc = "run", !.turn = 1] \in Frame
  BY <1>1 DEF Frame, ServePcs
<1>3. frames' = [frames EXCEPT ![Len(frames)] = [Cur EXCEPT !.pc = "run", !.turn = 1]]
  BY Height DEF Handle, Cur, TypeOK
<1>4. QED
  BY <1>2, <1>3, TopChanges DEF TypeOK

LEMMA RunTop ==
  ASSUME TypeOK, RunHandler
  PROVE  OnTop(IF Cur.turn = Len(action[Cur.irq]) THEN [Cur EXCEPT !.pc = "end"]
                 ELSE [Cur EXCEPT !.turn = @ + 1])
<1> DEFINE r == IF Cur.turn = Len(action[Cur.irq]) THEN [Cur EXCEPT !.pc = "end"]
                 ELSE [Cur EXCEPT !.turn = @ + 1]
<1>1. Cur \in Frame
  BY Height DEF TypeOK
<1>2. r \in Frame
  BY <1>1 DEF Frame, ServePcs
<1>3. frames' = [frames EXCEPT ![Len(frames)] = r]
  BY Height DEF RunHandler, Goto, Cur, TypeOK
<1>4. QED
  BY <1>2, <1>3, TopChanges DEF TypeOK

LEMMA HandleStep == ASSUME IInv, Handle PROVE IInv'
<1> DEFINE r == [Cur EXCEPT !.pc = "run", !.turn = 1]
<1> USE DEF IInv
<1>1. OnTop(r)
  BY HandleTop
<1>2. /\ Cur \in Frame /\ Cur.pc = "handle" /\ Cur.irq \in Irq
      /\ r.irq = Cur.irq /\ r.pc = "run" /\ r.inner = Cur.inner
  BY WhoRuns DEF Handle, At, Frame, Where, PicPcs, ServePcs
<1> HIDE DEF r
<1> USE DEF Handle, pic, desc
<1>3. TypeOK'
  BY <1>1, <1>2 DEF TypeOK, OnTop
<1>4. Stack' /\ NoReentry'
  BY <1>1, <1>2, StackKept DEF ServePcs, OpenPcs
<1>5. Where'
  BY <1>1, <1>2, BelowKept, ZenonT(30) DEF Where, OnTop, PicPcs, SetupPcs, MainLine, OpNow
<1>6. Masks'
  BY <1>2 DEF Masks
<1>7. Served'
  BY <1>1, <1>2, ServedKept, BelowKept DEF Served, MaskedPcs, LostPcs
<1>8. InService'
  BY <1>1, <1>2 DEF InService, UnackedPcs, OnTop
<1>9. QED
  BY <1>3, <1>4, <1>5, <1>6, <1>7, <1>8

LEMMA RunHandlerStep == ASSUME IInv, RunHandler PROVE IInv'
<1> DEFINE r == IF Cur.turn = Len(action[Cur.irq]) THEN [Cur EXCEPT !.pc = "end"]
                 ELSE [Cur EXCEPT !.turn = @ + 1]
<1> USE DEF IInv
<1>1. OnTop(r)
  BY RunTop
<1>2. /\ Cur \in Frame /\ Cur.pc = "run" /\ Cur.irq \in Irq
      /\ r.irq = Cur.irq /\ r.pc \in {"run", "end"} /\ r.inner = Cur.inner
      /\ iflag' => r.pc = "run"
  BY WhoRuns DEF RunHandler, At, Frame, Where, PicPcs, ServePcs
<1> HIDE DEF r
<1> USE DEF RunHandler, pic, desc
<1>3. TypeOK'
  BY <1>1, <1>2 DEF TypeOK, OnTop
<1>4. Stack' /\ NoReentry'
  BY <1>1, <1>2, StackKept DEF ServePcs, OpenPcs
<1>5. Where'
  BY <1>1, <1>2, BelowKept DEF Where, OnTop, PicPcs, SetupPcs, MainLine, OpNow
<1>6. Masks'
  BY <1>2 DEF Masks
<1>7. Served'
  BY <1>1, <1>2, ServedKept, BelowKept DEF Served, MaskedPcs, LostPcs
<1>8. InService'
  BY <1>1, <1>2 DEF InService, UnackedPcs, OnTop
<1>9. QED
  BY <1>3, <1>4, <1>5, <1>6, <1>7, <1>8

LEMMA EndEnterStep == ASSUME IInv, EndEnter PROVE IInv'
<1> DEFINE r == IF status[Cur.irq] # "disabled" /\ action[Cur.irq] # <<>>
                 THEN [Cur EXCEPT !.pc = "ending", !.inner = iflag]
                 ELSE [Cur EXCEPT !.pc = "iret"]
<1> USE DEF IInv
<1>1. OnTop(r)
  BY GotoTop, PicEnterTop DEF EndEnter, ServePcs
<1>2. /\ Cur \in Frame /\ Cur.pc = "end" /\ Cur.irq \in Irq
      /\ iflag = FALSE /\ iflag' = FALSE /\ r.irq = Cur.irq /\ picLock = FALSE
      /\ \/ r.pc = "ending" /\ r.inner = FALSE /\ picLock'
         \/ r.pc = "iret" /\ picLock' = FALSE
  BY WhoRuns DEF EndEnter, PicEnter, At, Frame, Where, TypeOK, Stack, OpenPcs, PicPcs, ServePcs
<1> HIDE DEF r
<1> USE DEF EndEnter, PicEnter, pic, desc
<1>3. TypeOK'
  BY <1>1, <1>2 DEF TypeOK, OnTop
<1>4. Stack' /\ NoReentry'
  BY <1>1, <1>2, StackKept DEF ServePcs
<1>5. Where'
  BY <1>1, <1>2, BelowKept DEF Where, OnTop, PicPcs, SetupPcs, MainLine, OpNow
<1>6. Masks'
  BY <1>2 DEF Masks
<1>7. Served'
  BY <1>1, <1>2, ServedKept, BelowKept DEF Served, MaskedPcs, LostPcs
<1>8. InService'
  BY <1>1, <1>2 DEF InService, UnackedPcs, OnTop
<1>9. QED
  BY <1>3, <1>4, <1>5, <1>6, <1>7, <1>8

LEMMA EndStep == ASSUME IInv, End PROVE IInv'
<1> DEFINE r == [Cur EXCEPT !.pc = "iret"]
<1> USE DEF IInv
<1>1. OnTop(r)
  BY GotoTop DEF End, PicLeave, ServePcs
<1>2. /\ Cur \in Frame /\ Cur.pc = "ending" /\ Cur.irq \in Irq
      /\ Cur.inner = FALSE /\ r.irq = Cur.irq /\ r.pc = "iret"
      /\ status[Cur.irq] = "percpu" /\ Cur.irq \notin Spurious
  <2>1. Cur.pc = "ending"
    BY DEF End, At
  <2>2. status[Cur.irq] = "percpu"
    BY <2>1, WhoRuns DEF Cur, Served, MaskedPcs
  <2>3. QED
    BY <2>1, <2>2, WhoRuns DEF Frame, Where, PicPcs, ServePcs, Masks
<1> HIDE DEF r
<1> USE DEF End, EnableBody, PicLeave, pic, desc
<1>3. imr' = cached'
  BY <1>2 DEF WriteMask, Masks, TypeOK
<1>4. TypeOK'
  <2>1. cached' \subseteq Pin /\ iflag' = FALSE /\ picLock' = FALSE
         /\ status' \in [Pin -> {"disabled", "idle", "percpu"}]
    BY <1>2, <1>3 DEF TypeOK, Pin
  <2>2. QED
    BY <1>1, <1>3, <2>1 DEF TypeOK, OnTop
<1>5. Stack' /\ NoReentry'
  BY <1>1, <1>2, StackKept DEF ServePcs
<1>6. Where'
  BY <1>1, <1>2, BelowKept DEF Where, OnTop, PicPcs, SetupPcs, MainLine, OpNow
<1>7. Masks'
  BY <1>2, <1>3 DEF Masks
<1>8. Served'
  BY <1>1, <1>2, ServedKept, BelowKept DEF Served, MaskedPcs, LostPcs
<1>9. InService'
  BY <1>1, <1>2 DEF InService, UnackedPcs, OnTop
<1>10. QED
  BY <1>4, <1>5, <1>6, <1>7, <1>8, <1>9

LEMMA LockLineStep == ASSUME IInv, LockLine PROVE IInv'
<1> DEFINE r == [Cur EXCEPT !.pc = "lostAck"]
<1> USE DEF IInv
<1>1. OnTop(r)
  BY GotoTop DEF LockLine, ServePcs
<1>2. /\ Cur \in Frame /\ Cur.pc = "lock" /\ Cur.irq \in Irq
      /\ r.irq = Cur.irq /\ r.pc = "lostAck" /\ r.inner = Cur.inner
      /\ Cur.irq \in Spurious
  BY WhoRuns, Height DEF LockLine, At, Frame, Served, LostPcs, ServePcs, Slot, TypeOK, Cur
<1> HIDE DEF r
<1> USE DEF LockLine, SpinLock, pic, desc
<1>3. TypeOK'
  BY <1>1, <1>2 DEF TypeOK, OnTop
<1>4. Stack' /\ NoReentry'
  BY <1>1, <1>2, StackKept DEF ServePcs, Stack, OpenPcs
<1>5. Where'
  BY <1>1, <1>2, BelowKept DEF Where, OnTop, PicPcs, SetupPcs, MainLine, OpNow
<1>6. Masks'
  BY <1>2 DEF Masks
<1>7. Served'
  BY <1>1, <1>2, ServedKept, BelowKept DEF Served, MaskedPcs, LostPcs
<1>8. InService'
  BY <1>1, <1>2 DEF InService, UnackedPcs, OnTop
<1>9. QED
  BY <1>3, <1>4, <1>5, <1>6, <1>7, <1>8

LEMMA LostAckEnterStep == ASSUME IInv, LostAckEnter PROVE IInv'
<1> DEFINE r == [Cur EXCEPT !.pc = "lostAcking", !.inner = iflag]
<1> USE DEF IInv
<1>1. OnTop(r)
  BY PicEnterTop DEF LostAckEnter, ServePcs
<1>2. /\ Cur \in Frame /\ Cur.pc = "lostAck" /\ Cur.irq \in Irq
      /\ ~iflag
      /\ r.irq = Cur.irq /\ r.pc = "lostAcking" /\ r.inner = FALSE
  BY WhoRuns DEF LostAckEnter, PicEnter, At, Frame, TypeOK, Stack, OpenPcs, ServePcs
<1> HIDE DEF r
<1> USE DEF LostAckEnter, PicEnter, pic, desc
<1>3. TypeOK'
  BY <1>1, <1>2 DEF TypeOK, OnTop
<1>4. Stack' /\ NoReentry'
  BY <1>1, <1>2, StackKept DEF ServePcs
<1>5. Where'
  BY <1>1, <1>2, BelowKept DEF Where, OnTop, PicPcs, SetupPcs, MainLine, OpNow
<1>6. Masks'
  BY <1>2 DEF Masks
<1>7. Served'
  BY <1>1, <1>2, ServedKept, BelowKept DEF Served, MaskedPcs, LostPcs
<1>8. InService'
  BY <1>1, <1>2 DEF InService, UnackedPcs, OnTop
<1>9. QED
  BY <1>3, <1>4, <1>5, <1>6, <1>7, <1>8

LEMMA LostAckStep == ASSUME IInv, LostAck PROVE IInv'
<1> DEFINE r == [Cur EXCEPT !.pc = "iret"]
<1> USE DEF IInv
<1>1. OnTop(r)
  BY GotoTop DEF LostAck, PicLeave, ServePcs
<1>2. /\ Cur \in Frame /\ Cur.pc = "lostAcking" /\ Cur.irq \in Irq
      /\ Cur.inner = FALSE /\ r.irq = Cur.irq /\ r.pc = "iret"
  BY WhoRuns DEF LostAck, At, Frame, Where, PicPcs, ServePcs
<1> HIDE DEF r
<1> USE DEF LostAck, AckBody, PicLeave, pic, desc
<1>3. imr' = cached'
  BY <1>2 DEF WriteMask, Masks, TypeOK
<1>4. TypeOK'
  <2>1. cached' \subseteq Pin /\ isr' \subseteq Int /\ iflag' = FALSE /\ picLock' = FALSE
    BY <1>2, <1>3 DEF TypeOK, Pin
  <2>2. QED
    BY <1>1, <1>3, <2>1 DEF TypeOK, OnTop
<1>5. Stack' /\ NoReentry'
  BY <1>1, <1>2, StackKept DEF ServePcs
<1>6. Where'
  BY <1>1, <1>2, BelowKept DEF Where, OnTop, PicPcs, SetupPcs, MainLine, OpNow
<1>7. Masks'
  BY <1>2, <1>3 DEF Masks
<1>8. Served'
  BY <1>1, <1>2, ServedKept, BelowKept DEF Served, MaskedPcs, LostPcs
<1>9. InService'
  BY <1>1, <1>2 DEF InService, UnackedPcs, OnTop
<1>10. QED
  BY <1>4, <1>5, <1>6, <1>7, <1>8, <1>9

LEMMA SetupEnterTop ==
  ASSUME TypeOK, SetupEnter
  PROVE  OnTop([Cur EXCEPT !.pc = "setup", !.outer = iflag])
<1>1. Cur \in Frame
  BY Height DEF TypeOK
<1>2. [Cur EXCEPT !.pc = "setup", !.outer = iflag] \in Frame
  BY <1>1 DEF Frame, MainPcs, TypeOK
<1>3. frames' = [frames EXCEPT ![Len(frames)] = [Cur EXCEPT !.pc = "setup", !.outer = iflag]]
  BY Height DEF SetupEnter, Cur, TypeOK
<1>4. QED
  BY <1>2, <1>3, TopChanges DEF TypeOK

(* The operation main is at names a line of a device, or enables the cascade.*)
LEMMA NamedLine ==
  ASSUME at \in DOMAIN Program, OpNow.op # "sti"
  PROVE  /\ MainLine = OpNow.irq /\ OpNow.irq \in Pin \ Spurious
         /\ OpNow.op = "setup" => OpNow.irq \in Irq /\ OpNow.act \in Action
<1>1. OpNow \in Op
  BY IrqAssumption, ElementOfSeq, LenProperties DEF OpNow
<1>2. OpNow.irq \notin Spurious
  BY BootAssumption DEF OpNow
<1>3. QED
  BY <1>1, <1>2 DEF Op, MainLine, Pin

LEMMA EnableEnterStep == ASSUME IInv, EnableEnter PROVE IInv'
<1> DEFINE r == [Cur EXCEPT !.pc = "enabling", !.inner = iflag]
<1> USE DEF IInv
<1>1. OnTop(r)
  BY PicEnterTop DEF EnableEnter, MainPcs
<1>2. /\ Cur \in Frame /\ Cur.pc = "main" /\ Len(frames) = 1 /\ Cur = frames[1]
      /\ at \in DOMAIN Program /\ OpNow.op = "enable"
      /\ r.irq = Cur.irq /\ r.pc = "enabling"
  BY WhoRuns DEF EnableEnter, Fetch, At, Frame, Where, PicPcs, SetupPcs, MainPcs, Stack, OpenPcs, TypeOK
<1> HIDE DEF r
<1> USE DEF EnableEnter, PicEnter, pic, desc
<1>3. TypeOK'
  BY <1>1, <1>2 DEF TypeOK, OnTop
<1>4. Stack' /\ NoReentry'
  <2>1. r.irq = Cur.irq /\ r.pc \in MainPcs /\ Cur.pc \in MainPcs /\ iflag' = FALSE
    BY <1>2 DEF MainPcs, TypeOK
  <2>2. QED
    BY <1>1, <2>1, StackKept
<1>5. Where'
  BY <1>1, <1>2, BelowKept DEF Where, OnTop, PicPcs, SetupPcs, MainLine, OpNow
<1>6. Masks'
  BY <1>2 DEF Masks
<1>7. Served'
  BY <1>1, <1>2, ServedKept, BelowKept DEF Served, MaskedPcs, LostPcs
<1>8. InService'
  BY <1>1, <1>2 DEF InService, UnackedPcs, OnTop
<1>9. QED
  BY <1>3, <1>4, <1>5, <1>6, <1>7, <1>8

LEMMA EnableStep == ASSUME IInv, Enable PROVE IInv'
<1> DEFINE r == [Cur EXCEPT !.pc = "main"]
<1> USE DEF IInv
<1>1. OnTop(r)
  BY GotoTop DEF Enable, MainPcs
<1>2. /\ Cur \in Frame /\ Cur.pc = "enabling" /\ Len(frames) = 1 /\ Cur = frames[1]
      /\ MainLine \in Pin \ Spurious /\ Cur.inner \in BOOLEAN
      /\ r.irq = Cur.irq /\ r.pc = "main"
  BY WhoRuns, NamedLine DEF Enable, Fetch, At, Frame, Where, PicPcs, SetupPcs, MainPcs, Stack, OpenPcs, TypeOK
<1> HIDE DEF r
<1> USE DEF Enable, EnableBody, pic, desc
<1>3. imr' = cached'
  BY <1>2 DEF WriteMask, Masks, TypeOK
<1>4. TypeOK'
  <2>1. cached' \subseteq Pin /\ iflag' \in BOOLEAN /\ picLock' = FALSE /\ at' \in Nat \ {0}
         /\ status' \in [Pin -> {"disabled", "idle", "percpu"}]
    BY <1>2, <1>3 DEF TypeOK, Pin
  <2>2. QED
    BY <1>1, <1>3, <2>1 DEF TypeOK, OnTop
<1>5. Stack' /\ NoReentry'
  <2>1. r.irq = Cur.irq /\ r.pc \in MainPcs /\ Cur.pc \in MainPcs /\ r.pc \in OpenPcs
    BY <1>2 DEF MainPcs, OpenPcs
  <2>2. QED
    BY <1>1, <2>1, StackKept
<1>6. Where'
  BY <1>1, <1>2, BelowKept DEF Where, OnTop, PicPcs, SetupPcs, MainLine, OpNow
<1>7. Masks'
  BY <1>2, <1>3 DEF Masks, TypeOK
<1>8. Served'
  BY <1>1, <1>2, ServedKept, BelowKept DEF Served, MaskedPcs, LostPcs
<1>9. InService'
  BY <1>1, <1>2 DEF InService, UnackedPcs, OnTop
<1>10. QED
  BY <1>4, <1>5, <1>6, <1>7, <1>8, <1>9

LEMMA SetupEnterStep == ASSUME IInv, SetupEnter PROVE IInv'
<1> DEFINE r == [Cur EXCEPT !.pc = "setup", !.outer = iflag]
<1> USE DEF IInv
<1>1. OnTop(r)
  BY SetupEnterTop
<1>2. /\ Cur \in Frame /\ Cur.pc = "main" /\ Len(frames) = 1 /\ Cur = frames[1]
      /\ MainLine \in Irq /\ at \in DOMAIN Program /\ OpNow.op = "setup"
      /\ r.irq = Cur.irq /\ r.pc = "setup" /\ picLock = FALSE
  BY WhoRuns, NamedLine DEF SetupEnter, Fetch, At, Frame, Where, PicPcs, SetupPcs, MainPcs, Stack, OpenPcs, TypeOK
<1> HIDE DEF r
<1> USE DEF SetupEnter, SpinLock, pic, desc
<1>3. TypeOK'
  BY <1>1, <1>2 DEF TypeOK, OnTop
<1>4. Stack' /\ NoReentry'
  <2>1. r.irq = Cur.irq /\ r.pc \in MainPcs /\ Cur.pc \in MainPcs /\ iflag' = FALSE
    BY <1>2 DEF MainPcs, TypeOK
  <2>2. QED
    BY <1>1, <2>1, StackKept
<1>5. Where'
  BY <1>1, <1>2, BelowKept DEF Where, OnTop, PicPcs, SetupPcs, MainLine, OpNow
<1>6. Masks'
  BY <1>2 DEF Masks
<1>7. Served'
  BY <1>1, <1>2, ServedKept, BelowKept DEF Served, MaskedPcs, LostPcs
<1>8. InService'
  BY <1>1, <1>2 DEF InService, UnackedPcs, OnTop
<1>9. QED
  BY <1>3, <1>4, <1>5, <1>6, <1>7, <1>8

LEMMA SetupBusyStep == ASSUME IInv, SetupBusy PROVE IInv'
<1> DEFINE r == [Cur EXCEPT !.pc = "unlock"]
<1> USE DEF IInv
<1>1. OnTop(r)
  BY GotoTop DEF SetupBusy, MainPcs
<1>2. /\ Cur \in Frame /\ Cur.pc = "setup" /\ Len(frames) = 1 /\ Cur = frames[1]
      /\ MainLine \in Irq /\ OpNow.op = "setup" /\ ~iflag
      /\ r.irq = Cur.irq /\ r.pc = "unlock" /\ r.inner = Cur.inner
  BY WhoRuns, NamedLine DEF SetupBusy, Fetch, At, Frame, Where, PicPcs, SetupPcs, MainPcs, Stack, OpenPcs, TypeOK
<1> HIDE DEF r
<1> USE DEF SetupBusy, pic, desc
<1>3. TypeOK'
  BY <1>1, <1>2 DEF TypeOK, OnTop
<1>4. Stack' /\ NoReentry'
  <2>1. r.irq = Cur.irq /\ r.pc \in MainPcs /\ Cur.pc \in MainPcs /\ iflag' = FALSE
    BY <1>2 DEF MainPcs, TypeOK
  <2>2. QED
    BY <1>1, <2>1, StackKept
<1>5. Where'
  BY <1>1, <1>2, BelowKept DEF Where, OnTop, PicPcs, SetupPcs, MainLine, OpNow
<1>6. Masks'
  BY <1>2 DEF Masks
<1>7. Served'
  BY <1>1, <1>2, ServedKept, BelowKept DEF Served, MaskedPcs, LostPcs
<1>8. InService'
  BY <1>1, <1>2 DEF InService, UnackedPcs, OnTop
<1>9. QED
  BY <1>3, <1>4, <1>5, <1>6, <1>7, <1>8

LEMMA SetupSharedStep == ASSUME IInv, SetupShared PROVE IInv'
<1> DEFINE r == [Cur EXCEPT !.pc = "unlock"]
<1> USE DEF IInv
<1>1. OnTop(r)
  BY GotoTop DEF SetupShared, MainPcs
<1>2. /\ Cur \in Frame /\ Cur.pc = "setup" /\ Len(frames) = 1 /\ Cur = frames[1]
      /\ MainLine \in Irq /\ OpNow.op = "setup" /\ ~iflag
      /\ r.irq = Cur.irq /\ r.pc = "unlock" /\ r.inner = Cur.inner
  BY WhoRuns, NamedLine DEF SetupShared, Fetch, At, Frame, Where, PicPcs, SetupPcs, MainPcs, Stack, OpenPcs, TypeOK
<1> HIDE DEF r
<1> USE DEF SetupShared, pic, desc
<1>3. TypeOK'
  <2>1. action' \in [Irq -> Seq(Action)]
    BY <1>2, NamedLine, AppendProperties DEF TypeOK, Where, SetupPcs
  <2>2. QED
    BY <1>1, <1>2, <2>1 DEF TypeOK, OnTop
<1>4. Stack' /\ NoReentry'
  <2>1. r.irq = Cur.irq /\ r.pc \in MainPcs /\ Cur.pc \in MainPcs /\ iflag' = FALSE
    BY <1>2 DEF MainPcs, TypeOK
  <2>2. QED
    BY <1>1, <2>1, StackKept
<1>5. Where'
  BY <1>1, <1>2, BelowKept DEF Where, OnTop, PicPcs, SetupPcs, MainLine, OpNow
<1>6. Masks'
  BY <1>2 DEF Masks
<1>7. Served'
  BY <1>1, <1>2, ServedKept, BelowKept DEF Served, MaskedPcs, LostPcs
<1>8. InService'
  BY <1>1, <1>2 DEF InService, UnackedPcs, OnTop
<1>9. QED
  BY <1>3, <1>4, <1>5, <1>6, <1>7, <1>8

LEMMA SetupFirstStep == ASSUME IInv, SetupFirst PROVE IInv'
<1> DEFINE r == [Cur EXCEPT !.pc = "startup"]
<1> USE DEF IInv
<1>1. OnTop(r)
  BY GotoTop DEF SetupFirst, MainPcs
<1>2. /\ Cur \in Frame /\ Cur.pc = "setup" /\ Len(frames) = 1 /\ Cur = frames[1]
      /\ MainLine \in Irq \ Spurious /\ OpNow.op = "setup" /\ ~iflag
      /\ r.irq = Cur.irq /\ r.pc = "startup" /\ r.inner = Cur.inner
  BY WhoRuns, NamedLine DEF SetupFirst, Fetch, At, Frame, Where, PicPcs, SetupPcs, MainPcs, Stack, OpenPcs, TypeOK
<1> HIDE DEF r
<1> USE DEF SetupFirst, pic, desc
<1>3. TypeOK'
  <2>1. action' \in [Irq -> Seq(Action)]
    BY <1>2, NamedLine, AppendProperties DEF TypeOK, Where, SetupPcs
  <2>2. QED
    BY <1>1, <1>2, <2>1 DEF TypeOK, OnTop
<1>4. Stack' /\ NoReentry'
  <2>1. r.irq = Cur.irq /\ r.pc \in MainPcs /\ Cur.pc \in MainPcs /\ iflag' = FALSE
    BY <1>2 DEF MainPcs, TypeOK
  <2>2. QED
    BY <1>1, <2>1, StackKept
<1>5. Where'
  BY <1>1, <1>2, BelowKept DEF Where, OnTop, PicPcs, SetupPcs, MainLine, OpNow
<1>6. Masks'
  BY <1>2 DEF Masks
<1>7. Served'
  BY <1>1, <1>2, ServedKept, BelowKept DEF Served, MaskedPcs, LostPcs
<1>8. InService'
  BY <1>1, <1>2 DEF InService, UnackedPcs, OnTop
<1>9. QED
  BY <1>3, <1>4, <1>5, <1>6, <1>7, <1>8

LEMMA StartupEnterStep == ASSUME IInv, StartupEnter PROVE IInv'
<1> DEFINE r == [Cur EXCEPT !.pc = "starting", !.inner = iflag]
<1> USE DEF IInv
<1>1. OnTop(r)
  BY PicEnterTop DEF StartupEnter, MainPcs
<1>2. /\ Cur \in Frame /\ Cur.pc = "startup" /\ Len(frames) = 1 /\ Cur = frames[1]
      /\ ~iflag
      /\ r.irq = Cur.irq /\ r.pc = "starting" /\ r.inner = FALSE
  BY WhoRuns DEF StartupEnter, Fetch, At, Frame, Where, PicPcs, SetupPcs, MainPcs, Stack, OpenPcs, TypeOK, PicEnter
<1> HIDE DEF r
<1> USE DEF StartupEnter, PicEnter, pic, desc
<1>3. TypeOK'
  BY <1>1, <1>2 DEF TypeOK, OnTop
<1>4. Stack' /\ NoReentry'
  <2>1. r.irq = Cur.irq /\ r.pc \in MainPcs /\ Cur.pc \in MainPcs /\ iflag' = FALSE
    BY <1>2 DEF MainPcs, TypeOK
  <2>2. QED
    BY <1>1, <2>1, StackKept
<1>5. Where'
  BY <1>1, <1>2, BelowKept DEF Where, OnTop, PicPcs, SetupPcs, MainLine, OpNow
<1>6. Masks'
  BY <1>2 DEF Masks
<1>7. Served'
  BY <1>1, <1>2, ServedKept, BelowKept DEF Served, MaskedPcs, LostPcs
<1>8. InService'
  BY <1>1, <1>2 DEF InService, UnackedPcs, OnTop
<1>9. QED
  BY <1>3, <1>4, <1>5, <1>6, <1>7, <1>8

LEMMA StartupStep == ASSUME IInv, Startup PROVE IInv'
<1> DEFINE r == [Cur EXCEPT !.pc = "unlock"]
<1> USE DEF IInv
<1>1. OnTop(r)
  BY GotoTop DEF Startup, PicLeave, MainPcs
<1>2. /\ Cur \in Frame /\ Cur.pc = "starting" /\ Len(frames) = 1 /\ Cur = frames[1]
      /\ MainLine \in Irq \ Spurious /\ Cur.inner = FALSE
      /\ r.irq = Cur.irq /\ r.pc = "unlock" /\ r.inner = Cur.inner
  BY WhoRuns, NamedLine DEF Startup, Fetch, At, Frame, Where, PicPcs, SetupPcs, MainPcs, Stack, OpenPcs, TypeOK
<1> HIDE DEF r
<1> USE DEF Startup, EnableBody, PicLeave, pic, desc
<1>3. imr' = cached'
  BY <1>2 DEF WriteMask, Masks, TypeOK
<1>4. TypeOK'
  <2>1. cached' \subseteq Pin /\ iflag' = FALSE /\ picLock' = FALSE
         /\ status' \in [Pin -> {"disabled", "idle", "percpu"}]
    BY <1>2, <1>3 DEF TypeOK, Pin
  <2>2. QED
    BY <1>1, <1>3, <2>1 DEF TypeOK, OnTop
<1>5. Stack' /\ NoReentry'
  <2>1. r.irq = Cur.irq /\ r.pc \in MainPcs /\ Cur.pc \in MainPcs /\ iflag' = FALSE
    BY <1>2 DEF MainPcs, TypeOK
  <2>2. QED
    BY <1>1, <2>1, StackKept
<1>6. Where'
  BY <1>1, <1>2, BelowKept DEF Where, OnTop, PicPcs, SetupPcs, MainLine, OpNow
<1>7. Masks'
  BY <1>2, <1>3 DEF Masks, TypeOK
<1>8. Served'
  BY <1>1, <1>2, ServedKept, BelowKept DEF Served, MaskedPcs, LostPcs
<1>9. InService'
  BY <1>1, <1>2 DEF InService, UnackedPcs, OnTop
<1>10. QED
  BY <1>4, <1>5, <1>6, <1>7, <1>8, <1>9

LEMMA SetupLeaveStep == ASSUME IInv, SetupLeave PROVE IInv'
<1> DEFINE r == [Cur EXCEPT !.pc = "main"]
<1> USE DEF IInv
<1>1. OnTop(r)
  BY GotoTop DEF SetupLeave, MainPcs
<1>2. /\ Cur \in Frame /\ Cur.pc = "unlock" /\ Len(frames) = 1 /\ Cur = frames[1]
      /\ picLock = FALSE /\ Cur.outer \in BOOLEAN
      /\ r.irq = Cur.irq /\ r.pc = "main"
  BY WhoRuns DEF SetupLeave, Fetch, At, Frame, Where, PicPcs, SetupPcs, MainPcs, Stack, OpenPcs, TypeOK
<1> HIDE DEF r
<1> USE DEF SetupLeave, SpinUnlock, pic, desc
<1>3. TypeOK'
  BY <1>1, <1>2 DEF TypeOK, OnTop
<1>4. Stack' /\ NoReentry'
  <2>1. r.irq = Cur.irq /\ r.pc \in MainPcs /\ Cur.pc \in MainPcs /\ r.pc \in OpenPcs
    BY <1>2 DEF MainPcs, OpenPcs
  <2>2. QED
    BY <1>1, <2>1, StackKept
<1>5. Where'
  BY <1>1, <1>2, BelowKept DEF Where, OnTop, PicPcs, SetupPcs, MainLine, OpNow
<1>6. Masks'
  BY <1>2 DEF Masks
<1>7. Served'
  BY <1>1, <1>2, ServedKept, BelowKept DEF Served, MaskedPcs, LostPcs
<1>8. InService'
  BY <1>1, <1>2 DEF InService, UnackedPcs, OnTop
<1>9. QED
  BY <1>3, <1>4, <1>5, <1>6, <1>7, <1>8

LEMMA IretStep == ASSUME IInv, Iret PROVE IInv'
<1> USE DEF IInv
<1> DEFINE n0 == Len(frames) - 1
<1>1. /\ Cur.pc = "iret" /\ Len(frames) > 1 /\ Len(frames) \in Nat
      /\ isr = {} /\ picLock = FALSE
  BY WhoRuns, Height DEF Iret, At, ServePcs, TypeOK, InService, UnackedPcs, Where, PicPcs
<1>2. /\ frames' \in Seq(Frame) /\ frames' # <<>> /\ Len(frames') = n0
      /\ \A n \in 1 .. n0 : frames'[n] = frames[n]
  BY <1>1, PopFrame DEF Iret
<1>3. Slot = 1 .. Len(frames) /\ Slot' = 1 .. n0 /\ DOMAIN frames = Slot /\ DOMAIN frames' = Slot'
  BY <1>1, <1>2, LenProperties DEF Slot, TypeOK
<1>4. \A n \in Slot' : n \in Slot /\ n < Len(frames) /\ frames'[n] = frames[n]
  BY <1>1, <1>2, <1>3
<1>5. 1 \in Slot' /\ frames'[1] = frames[1] /\ n0 \in Slot' /\ Cur' = frames[n0]
  BY <1>1, <1>2, <1>3 DEF Cur
<1> HIDE DEF n0
<1> USE DEF Iret, pic, desc
<1>6. TypeOK'
  BY <1>2 DEF TypeOK
<1>7. Stack'
  <2>1. frames'[1].irq = NoIrq /\ frames'[1].pc \in MainPcs
    BY <1>5 DEF Stack
  <2>2. \A n \in Slot' : n > 1 => frames'[n].irq \in Irq /\ frames'[n].pc \in ServePcs
    BY <1>4 DEF Stack
  <2>3. \A n \in Slot' : frames'[n].pc \in OpenPcs
    BY <1>4 DEF Stack
  <2>4. Cur'.pc \in OpenPcs
    BY <1>4, <1>5, <2>3
  <2>5. QED
    BY <2>1, <2>2, <2>3, <2>4 DEF Stack
<1>8. NoReentry'
  BY <1>3, <1>4 DEF NoReentry
<1>9. Cur'.pc \in OpenPcs
  BY <1>7 DEF Stack
<1>10. Where'
  BY <1>1, <1>5, <1>9 DEF Where, OpenPcs, PicPcs, MainLine, OpNow
<1>11. Masks'
  BY DEF Masks
<1>12. Served'
  BY <1>4 DEF Served
<1>13. InService'
  BY <1>1, <1>9 DEF InService, OpenPcs, UnackedPcs
<1>14. QED
  BY <1>6, <1>7, <1>8, <1>10, <1>11, <1>12, <1>13

LEMMA StiStep == ASSUME IInv, Sti PROVE IInv'
<1> USE DEF IInv, Sti, pic, desc
<1>1. /\ Cur.pc = "main" /\ Len(frames) = 1 /\ Cur = frames[1] /\ at' \in Nat \ {0}
      /\ picLock = FALSE
  BY WhoRuns DEF Fetch, At, MainPcs, TypeOK, Where, PicPcs
<1>2. TypeOK'
  BY <1>1 DEF TypeOK
<1>3. Stack' /\ NoReentry'
  BY <1>1 DEF Stack, NoReentry, Cur, Slot, OpenPcs
<1>4. Where'
  BY <1>1 DEF Where, Cur, SetupPcs, PicPcs
<1>5. QED
  BY <1>2, <1>3, <1>4 DEF Masks, Served, Slot, InService, Cur

(* An interrupt pushes a frame for a line that no frame serves.              *)
LEMMA InterruptStep ==
  ASSUME IInv, NEW i \in Irq, Interrupt(i),
         i \notin cached \/ i \in Spurious,
         irr' \subseteq Irq, edges' \in [Irq -> Nat],
         isr' \subseteq isr \cup {i, MasterPin(i)},
         UNCHANGED <<imr, cached, picLock, descLock, desc, at>>
  PROVE  IInv'
<1> USE DEF IInv, Interrupt, desc
<1> DEFINE L == Len(frames) + 1
           r == NewFrame(i, "do_irq")
<1>1. /\ Cur.pc \in OpenPcs /\ Len(frames) \in Nat \ {0} /\ Len(frames) \in Slot
      /\ isr = {} /\ picLock = FALSE
  BY WhoRuns, Height DEF TypeOK, Stack, InService, UnackedPcs, OpenPcs, Where, PicPcs
<1>2. /\ frames' \in Seq(Frame) /\ frames' # <<>>
      /\ Len(frames') = L /\ Cur' = r
      /\ \A n \in Slot : frames'[n] = frames[n]
  BY PushFrame
<1>3. /\ Slot = 1 .. Len(frames) /\ Slot' = 1 .. L
      /\ DOMAIN frames = Slot /\ DOMAIN frames' = Slot'
  BY <1>2, LenProperties DEF Slot, TypeOK
<1>4. r.irq = i /\ r.pc = "do_irq"
  BY NewFields
<1>5. frames'[L] = r
  BY <1>2 DEF Cur
<1>6. \A n \in Slot' : n # L => n \in Slot /\ n < L /\ frames'[n] = frames[n]
  BY <1>1, <1>2, <1>3
<1>7. 1 \in Slot /\ 1 # L /\ frames'[1] = frames[1]
  BY <1>1, <1>2, <1>3
<1>8. ASSUME NEW n \in Slot PROVE frames[n].pc \in OpenPcs /\ frames[n].irq # i
  <2>1. frames[n].pc \in OpenPcs
    <3>1. CASE n = Len(frames)
      BY <1>1, <3>1 DEF Cur
    <3>2. CASE n # Len(frames)
      BY <1>1, <1>3, <3>2 DEF Stack
    <3>3. QED
      BY <3>1, <3>2
  <2>2. CASE n = 1
    BY <2>2, <2>1, IrqAssumption DEF Stack, NoIrq
  <2>3. CASE n # 1
    <3>1. frames[n].pc \in ServePcs
      BY <1>1, <1>3, <2>3 DEF Stack
    <3>2. frames[n].pc = "run"
      BY <2>1, <3>1 DEF OpenPcs, ServePcs
    <3>3. frames[n].irq \in cached /\ status[frames[n].irq] = "percpu"
      BY <3>2 DEF Served, MaskedPcs
    <3>4. frames[n].irq \notin Spurious
      BY <3>3, <1>1, <1>3, <2>3 DEF Masks, Stack
    <3>5. QED
      BY <2>1, <3>3, <3>4
  <2>4. QED
    BY <2>2, <2>3
<1> HIDE DEF L, r
<1>9. TypeOK'
  <2>1. i \in Int /\ MasterPin(i) \in Int
    BY IrqAssumption DEF MasterPin, PIC_CASCADE_IR
  <2>2. isr' \subseteq Int
    BY <1>1, <2>1
  <2>3. QED
    BY <1>2, <2>2 DEF TypeOK
<1>10. Stack'
  <2>1. ASSUME NEW n \in Slot', n > 1
        PROVE  frames'[n].irq \in Irq /\ frames'[n].pc \in ServePcs
    BY <1>4, <1>5, <1>6, <2>1 DEF Stack, ServePcs
  <2>2. ASSUME NEW n \in Slot', n < L
        PROVE  frames'[n].pc \in OpenPcs
    BY <1>1, <1>3, <1>6, <1>8, <2>2 DEF L
  <2>3. QED
    BY <1>2, <1>7, <2>1, <2>2 DEF Stack
<1>11. NoReentry'
  <2> SUFFICES ASSUME NEW m \in Slot', NEW n \in Slot', m # n
               PROVE  frames'[m].irq # frames'[n].irq
    BY <1>3 DEF NoReentry
  <2>1. CASE m = L
    BY <2>1, <1>4, <1>5, <1>6, <1>8
  <2>2. CASE n = L
    BY <2>2, <1>4, <1>5, <1>6, <1>8
  <2>3. CASE m # L /\ n # L
    BY <2>3, <1>3, <1>6 DEF NoReentry
  <2>4. QED
    BY <2>1, <2>2, <2>3
<1>12. Where'
  BY <1>1, <1>2, <1>4, <1>7 DEF Where, PicPcs, MainLine, OpNow
<1>13. Masks'
  BY DEF Masks
<1>14. Served'
  <2>1. i \in Spurious \/ status[i] = "percpu"
    BY DEF Masks
  <2>2. "do_irq" \notin MaskedPcs \cup {"ack", "acking"} \cup LostPcs
    BY DEF MaskedPcs, LostPcs
  <2>3. QED
    BY <1>4, <1>5, <1>6, <2>1, <2>2, ZenonT(30) DEF Served
<1>15. InService'
  BY <1>1, <1>2, <1>4 DEF InService, UnackedPcs
<1>16. QED
  BY <1>9, <1>10, <1>11, <1>12, <1>13, <1>14, <1>15

LEMMA DeliverStep == ASSUME IInv, NEW i \in Irq, Deliver(i) PROVE IInv'
<1>1. i \notin cached /\ irr' \subseteq Irq
  BY DEF IInv, Deliver, Requests, Masks, TypeOK
<1>2. QED
  BY <1>1, InterruptStep DEF Deliver, IInv, TypeOK

LEMMA SpuriousStep == ASSUME IInv, NEW i \in Irq, SpuriousIrq(i) PROVE IInv'
<1>1. edges' \in [Irq -> Nat] /\ irr' \subseteq Irq
  BY DEF SpuriousIrq, IInv, TypeOK
<1>2. isr' \subseteq isr \cup {i, MasterPin(i)}
  BY DEF SpuriousIrq, MasterPin
<1>3. QED
  BY <1>1, <1>2, InterruptStep DEF SpuriousIrq

LEMMA EdgeStep == ASSUME IInv, NEW i \in Irq, Edge(i) PROVE IInv'
<1>1. irr' \subseteq Irq /\ edges' \in [Irq -> Nat]
  BY DEF Edge, IInv, TypeOK
<1>2. QED
  BY <1>1 DEF Edge, IInv, TypeOK, Stack, Where, Masks, Served, InService, NoReentry,
              pic, desc, Cur, Slot, MainLine, OpNow

LEMMA InitInv == Init => IInv
<1> SUFFICES ASSUME Init PROVE IInv
  OBVIOUS
<1> USE DEF Init
<1>1. NewFrame(NoIrq, "main") \in Frame
  BY DEF NewFrame, Frame, MainPcs
<1>2. TypeOK
  <2>1. <<>> \in Seq(Action) /\ frames \in Seq(Frame) /\ frames # <<>>
    BY <1>1, EmptySeq
  <2>2. status \in [Pin -> {"disabled", "idle", "percpu"}] /\ action \in [Irq -> Seq(Action)]
    BY <2>1
  <2>3. /\ iflag \in BOOLEAN /\ picLock \in BOOLEAN
        /\ irr \subseteq Irq /\ isr \subseteq Int /\ descLock \subseteq Irq
        /\ imr \subseteq Pin /\ cached \subseteq Pin
    OBVIOUS
  <2>4. edges \in [Irq -> Nat] /\ at \in Nat \ {0}
    OBVIOUS
  <2> HIDE DEF Init
  <2>5. QED
    BY <2>1, <2>2, <2>3, <2>4 DEF TypeOK
<1>3. Len(frames) = 1 /\ Cur.pc = "main" /\ frames[1].pc = "main" /\ frames[1].irq = NoIrq
  BY DEF Cur, NewFrame
<1>4. QED
  BY <1>2, <1>3 DEF IInv, Stack, Where, Masks, Served, InService, NoReentry, Slot, MainPcs,
                    PicPcs, SetupPcs, OpenPcs, MaskedPcs, LostPcs, UnackedPcs, Irq, Pin

LEMMA Inductive == IInv /\ [Next]_vars => IInv'
<1> SUFFICES ASSUME IInv, [Next]_vars PROVE IInv'
  OBVIOUS
<1>1. CASE Serve
  BY <1>1, DoIrqStep, AckEnterStep, AckStep, HandleStep, RunHandlerStep, EndEnterStep,
     EndStep, LockLineStep, LostAckEnterStep, LostAckStep, IretStep DEF Serve
<1>2. CASE Main
  BY <1>2, StiStep, EnableEnterStep, EnableStep, SetupEnterStep, SetupBusyStep,
     SetupSharedStep, SetupFirstStep, StartupEnterStep, StartupStep, SetupLeaveStep DEF Main
<1>3. CASE \E i \in Irq : Deliver(i)
  BY <1>3, DeliverStep
<1>4. CASE \E i \in Irq : Edge(i) \/ SpuriousIrq(i)
  BY <1>4, EdgeStep, SpuriousStep
<1>5. CASE UNCHANGED vars
  BY <1>5 DEF IInv, TypeOK, Stack, Where, Masks, Served, InService, NoReentry,
              vars, pic, desc, Cur, Slot, MainLine, OpNow
<1>6. QED
  BY <1>1, <1>2, <1>3, <1>4, <1>5 DEF Next, Cpu, Idle

(* The handlers of a line are never entered again before they return, for    *)
(* any lines, any drivers and handlers that run with interrupts on           *)
(* (mask_and_ack_8259A before handle_IRQ_event, end_8259A_irq after it).     *)
THEOREM HandlersNotReentered == Spec => []NoReentry
<1>1. IInv => NoReentry
  BY DEF IInv
<1>2. QED
  BY <1>1, InitInv, Inductive, PTL DEF Spec

(* No EOI is missing when a context returns, on either controller: what is   *)
(* in service is what the one frame that has still to acknowledge it took.   *)
THEOREM EveryEoiSent == Spec => []EoiPaired
<1>1. IInv => EoiPaired
  <2> SUFFICES ASSUME IInv PROVE EoiPaired
    OBVIOUS
  <2>1. CASE Cur.pc \in UnackedPcs
    <3>1. Len(frames) \in DOMAIN frames
      BY WhoRuns, LenProperties DEF IInv, TypeOK, Slot
    <3>2. Len(frames) \in Unacked
      BY <2>1, <3>1 DEF Unacked, UnackedPcs, Cur
    <3>3. QED
      BY <2>1, <3>2 DEF IInv, InService, EoiPaired, Cur
  <2>2. CASE Cur.pc \notin UnackedPcs
    BY <2>2 DEF IInv, InService, EoiPaired
  <2>3. QED
    BY <2>1, <2>2
<1>2. QED
  BY <1>1, InitInv, Inductive, PTL DEF Spec

-----------------------------------------------------------------------------
(* A context of __do_IRQ goes on: what is registered stays so, if the line   *)
(* it unmasks has an action.                                                 *)
LEMMA ServeKeepsRegistered ==
  ASSUME IInv, Registered, NEW r, OnTop(r), r.irq = Cur.irq, Cur.pc \in ServePcs,
         UNCHANGED <<action, at>>,
         r.pc \in ServePcs \ {"do_irq"},
         r.pc \in MaskedPcs \cup {"ack", "acking"} => action[Cur.irq] # <<>>,
         \A i \in Irq \ cached' : i \notin cached \/ action[i] # <<>>
  PROVE  Registered'
<1> USE DEF IInv
<1>1. Len(frames) > 1 /\ Len(frames') = Len(frames) /\ 1 \in Slot /\ 1 # Len(frames)
  BY WhoRuns, BelowKept, Height DEF OnTop, TypeOK
<1>2. frames'[1] = frames[1] /\ Slot' = Slot
  BY <1>1, BelowKept
<1>3. StiDone' /\ StiDone
  BY <1>1 DEF Registered, StiDone
<1>4. ASSUME NEW n \in Slot
      PROVE  /\ frames'[n].pc \in MaskedPcs \cup {"ack", "acking"} =>
                  action'[frames'[n].irq] # <<>>
             /\ frames'[n].pc = "do_irq" /\ frames'[n].irq \notin Spurious =>
                  action'[frames'[n].irq] # <<>>
  <2>1. CASE n = Len(frames)
    BY <2>1, BelowKept
  <2>2. CASE n # Len(frames)
    BY <2>2, BelowKept DEF Registered
  <2>3. QED
    BY <2>1, <2>2
<1>5. \A i \in Irq \ cached' :
        \/ action'[i] # <<>>
        \/ \E e \in DOMAIN Program :
             e < at' /\ Program[e].op = "enable" /\ Program[e].irq = i
  BY DEF Registered
<1>6. QED
  BY <1>2, <1>3, <1>4, <1>5 DEF Registered, MainLine, OpNow

LEMMA ServeRegistered == ASSUME IInv, Registered, Serve PROVE Registered'
<1> USE DEF IInv, pic, desc
<1>0. /\ Len(frames) \in Slot /\ Cur \in Frame /\ Cur = frames[Len(frames)]
      /\ Cur.pc \in ServePcs => Cur.irq \in Irq
      /\ Cur.pc \in MaskedPcs \cup {"ack", "acking"} => action[Cur.irq] # <<>>
      /\ Cur.pc = "do_irq" /\ Cur.irq \notin Spurious => action[Cur.irq] # <<>>
  BY WhoRuns DEF Registered, Cur
<1>1. CASE DoIrq
  <2> DEFINE r == [Cur EXCEPT !.pc = IF status[Cur.irq] = "percpu" THEN "ack" ELSE "lock"]
  <2>1. OnTop(r)
    BY <1>1, GotoTop DEF DoIrq, ServePcs
  <2>2. Cur.pc = "do_irq" /\ (status[Cur.irq] = "percpu" => Cur.irq \notin Spurious)
    BY <1>0, <1>1 DEF DoIrq, At, Masks, ServePcs
  <2>3. r.irq = Cur.irq /\ r.pc \in {"ack", "lock"}
        /\ (r.pc = "ack" => status[Cur.irq] = "percpu")
    BY <1>0 DEF Frame
  <2> HIDE DEF r
  <2>4. QED
    BY <1>0, <1>1, <2>1, <2>2, <2>3, ServeKeepsRegistered DEF DoIrq, ServePcs, MaskedPcs
<1>2. CASE AckEnter
  <2> DEFINE r == [Cur EXCEPT !.pc = "acking", !.inner = iflag]
  <2>1. OnTop(r) /\ Cur.pc = "ack" /\ r.irq = Cur.irq /\ r.pc = "acking"
    BY <1>0, <1>2, PicEnterTop DEF AckEnter, PicEnter, At, ServePcs, Frame
  <2> HIDE DEF r
  <2>2. QED
    BY <1>0, <1>2, <2>1, ServeKeepsRegistered DEF AckEnter, PicEnter, ServePcs, MaskedPcs
<1>3. CASE Ack
  <2> DEFINE r == [Cur EXCEPT !.pc = "handle"]
  <2>1. OnTop(r) /\ Cur.pc = "acking" /\ r.irq = Cur.irq /\ r.pc = "handle"
    BY <1>0, <1>3, GotoTop DEF Ack, PicLeave, At, ServePcs, Frame
  <2> HIDE DEF r
  <2>2. QED
    BY <1>0, <1>3, <2>1, ServeKeepsRegistered DEF Ack, AckBody, PicLeave, ServePcs, MaskedPcs
<1>4. CASE Handle
  <2> DEFINE r == [Cur EXCEPT !.pc = "run", !.turn = 1]
  <2>1. OnTop(r) /\ Cur.pc = "handle" /\ r.irq = Cur.irq /\ r.pc = "run"
    BY <1>0, <1>4, HandleTop DEF Handle, At, Frame
  <2> HIDE DEF r
  <2>2. QED
    BY <1>0, <1>4, <2>1, ServeKeepsRegistered DEF Handle, ServePcs, MaskedPcs
<1>5. CASE RunHandler
  <2> DEFINE r == IF Cur.turn = Len(action[Cur.irq]) THEN [Cur EXCEPT !.pc = "end"]
                    ELSE [Cur EXCEPT !.turn = @ + 1]
  <2>1. OnTop(r) /\ Cur.pc = "run" /\ r.irq = Cur.irq /\ r.pc \in {"run", "end"}
    BY <1>0, <1>5, RunTop DEF RunHandler, At, Frame
  <2> HIDE DEF r
  <2>2. QED
    BY <1>0, <1>5, <2>1, ServeKeepsRegistered DEF RunHandler, ServePcs, MaskedPcs
<1>6. CASE EndEnter
  <2> DEFINE r == IF status[Cur.irq] # "disabled" /\ action[Cur.irq] # <<>>
                    THEN [Cur EXCEPT !.pc = "ending", !.inner = iflag]
                    ELSE [Cur EXCEPT !.pc = "iret"]
  <2>1. OnTop(r) /\ Cur.pc = "end" /\ r.irq = Cur.irq /\ r.pc \in {"ending", "iret"}
    BY <1>0, <1>6, GotoTop, PicEnterTop DEF EndEnter, At, ServePcs, Frame
  <2> HIDE DEF r
  <2>2. QED
    BY <1>0, <1>6, <2>1, ServeKeepsRegistered DEF EndEnter, PicEnter, ServePcs, MaskedPcs
<1>7. CASE End
  <2> DEFINE r == [Cur EXCEPT !.pc = "iret"]
  <2>1. OnTop(r) /\ Cur.pc = "ending" /\ r.irq = Cur.irq /\ r.pc = "iret"
    BY <1>0, <1>7, GotoTop DEF End, PicLeave, At, ServePcs, Frame
  <2> HIDE DEF r
  <2>2. QED
    BY <1>0, <1>7, <2>1, ServeKeepsRegistered DEF End, EnableBody, PicLeave, ServePcs, MaskedPcs
<1>8. CASE LockLine
  <2> DEFINE r == [Cur EXCEPT !.pc = "lostAck"]
  <2>1. OnTop(r) /\ Cur.pc = "lock" /\ r.irq = Cur.irq /\ r.pc = "lostAck"
    BY <1>0, <1>8, GotoTop DEF LockLine, At, ServePcs, Frame
  <2> HIDE DEF r
  <2>2. QED
    BY <1>0, <1>8, <2>1, ServeKeepsRegistered DEF LockLine, ServePcs, MaskedPcs
<1>9. CASE LostAckEnter
  <2> DEFINE r == [Cur EXCEPT !.pc = "lostAcking", !.inner = iflag]
  <2>1. OnTop(r) /\ Cur.pc = "lostAck" /\ r.irq = Cur.irq /\ r.pc = "lostAcking"
    BY <1>0, <1>9, PicEnterTop DEF LostAckEnter, PicEnter, At, ServePcs, Frame
  <2> HIDE DEF r
  <2>2. QED
    BY <1>0, <1>9, <2>1, ServeKeepsRegistered DEF LostAckEnter, PicEnter, ServePcs, MaskedPcs
<1>10. CASE LostAck
  <2> DEFINE r == [Cur EXCEPT !.pc = "iret"]
  <2>1. OnTop(r) /\ Cur.pc = "lostAcking" /\ r.irq = Cur.irq /\ r.pc = "iret"
    BY <1>0, <1>10, GotoTop DEF LostAck, PicLeave, At, ServePcs, Frame
  <2> HIDE DEF r
  <2>2. QED
    BY <1>0, <1>10, <2>1, ServeKeepsRegistered DEF LostAck, AckBody, PicLeave, ServePcs, MaskedPcs
<1>11. CASE Iret
  <2>1. Len(frames) > 1 /\ Len(frames) \in Nat
    BY <1>11, WhoRuns, Height DEF Iret, At, ServePcs, TypeOK
  <2>2. /\ Len(frames') = Len(frames) - 1
        /\ \A n \in 1 .. Len(frames) - 1 : frames'[n] = frames[n]
    BY <1>11, <2>1, PopFrame DEF Iret
  <2>3. \A n \in Slot' : n \in Slot /\ frames'[n] = frames[n]
    BY <2>1, <2>2 DEF Slot
  <2>4. frames'[1] = frames[1] /\ StiDone
    BY <2>1, <2>2 DEF Registered
  <2>5. StiDone'
    BY <1>11, <2>4 DEF StiDone, Iret
  <2>6. QED
    BY <1>11, <2>3, <2>4, <2>5 DEF Registered, Iret, MainLine, OpNow
<1>12. QED
  BY <1>1, <1>2, <1>3, <1>4, <1>5, <1>6, <1>7, <1>8, <1>9, <1>10, <1>11 DEF Serve

(* main has finished the operation it is at: the positions before the new    *)
(* one are those before the old one and that one.                            *)
LEMMA Advance ==
  ASSUME TypeOK, at \in DOMAIN Program, at' = at + 1
  PROVE  \A k \in DOMAIN Program : k < at' <=> k < at \/ k = at
BY LenProperties, IrqAssumption DEF TypeOK

(* A step of main.  No frame serves a line while main runs.                  *)
LEMMA MainKeepsRegistered ==
  ASSUME IInv, Registered, NEW r, OnTop(r), r.irq = Cur.irq,
         Cur.pc \in MainPcs, r.pc \in MainPcs,
         \A i \in Irq : action[i] # <<>> => action'[i] # <<>>,
         \/ at' = at
         \/ /\ at \in DOMAIN Program /\ at' = at + 1
            /\ OpNow.op = "setup" => action'[OpNow.irq] # <<>>,
         r.pc \in {"startup", "starting", "unlock"} => at' = at /\ action'[MainLine] # <<>>,
         iflag' \/ r.outer \/ r.inner => iflag \/ Cur.outer \/ Cur.inner,
         \A i \in Irq \ cached' :
           \/ i \notin cached \/ action'[i] # <<>>
           \/ OpNow.op = "enable" /\ OpNow.irq = i /\ at' = at + 1
  PROVE  Registered'
<1> USE DEF IInv
<1>1. Len(frames) = 1 /\ Len(frames') = 1 /\ Cur = frames[1] /\ frames'[1] = r /\ Slot' = {1}
  BY WhoRuns, BelowKept DEF OnTop, Slot
<1>2. \A k \in DOMAIN Program : k < at => k < at'
  BY Advance
<1>3. ASSUME NEW k \in DOMAIN Program, k < at', Program[k].op = "setup"
      PROVE  action'[Program[k].irq] # <<>>
  <2>1. Program[k].irq \in Irq
    <3>1. Program[k] \in Op
      BY IrqAssumption, ElementOfSeq, LenProperties
    <3>2. QED
      BY <1>3, <3>1 DEF Op
  <2>2. CASE k < at
    BY <2>1, <2>2, <1>3 DEF Registered
  <2>3. CASE ~(k < at)
    BY <2>3, <1>3, Advance DEF OpNow
  <2>4. QED
    BY <2>2, <2>3
<1>4. frames'[1].pc \in {"startup", "starting", "unlock"} => action'[MainLine'] # <<>>
  BY <1>1 DEF MainLine, OpNow
<1>5. iflag' \/ frames'[1].outer \/ frames'[1].inner \/ Len(frames') > 1 => StiDone'
  BY <1>1, <1>2 DEF Registered, StiDone
<1>6. ASSUME NEW i \in Irq \ cached', action'[i] = <<>>
      PROVE  \E e \in DOMAIN Program :
               e < at' /\ Program[e].op = "enable" /\ Program[e].irq = i
  <2>1. CASE i \notin cached
    BY <2>1, <1>2, <1>6 DEF Registered
  <2>2. CASE OpNow.op = "enable" /\ OpNow.irq = i /\ at' = at + 1
    BY <2>2, Advance DEF OpNow, TypeOK
  <2>3. QED
    BY <2>1, <2>2, <1>6
<1>7. MainPcs \cap (MaskedPcs \cup {"ack", "acking", "do_irq"}) = {}
  BY DEF MainPcs, MaskedPcs
<1>8. QED
  BY <1>1, <1>3, <1>4, <1>5, <1>6, <1>7 DEF Registered

LEMMA MainRegistered == ASSUME IInv, Registered, Main PROVE Registered'
<1> USE DEF IInv, pic, desc
<1>0. /\ Cur \in Frame
      /\ Cur.pc \in MainPcs => Len(frames) = 1 /\ Cur = frames[1]
  BY WhoRuns
<1>1. CASE Sti
  <2>1. Cur.pc = "main" /\ Len(frames) = 1 /\ Cur = frames[1] /\ at \in DOMAIN Program
        /\ OpNow.op = "sti"
    BY <1>0, <1>1 DEF Sti, Fetch, At, MainPcs
  <2>2. \A k \in DOMAIN Program : k < at' <=> k < at \/ k = at
    BY <1>1, <2>1, Advance DEF Sti
  <2>3. StiDone'
    BY <2>1, <2>2 DEF StiDone, OpNow
  <2>4. QED
    BY <1>1, <2>1, <2>2, <2>3 DEF Sti, Registered, OpNow, Slot
<1>2. CASE EnableEnter
  <2> DEFINE r == [Cur EXCEPT !.pc = "enabling", !.inner = iflag]
  <2>1. /\ OnTop(r) /\ Cur.pc = "main"
        /\ r.irq = Cur.irq /\ r.pc = "enabling" /\ r.inner = iflag /\ r.outer = Cur.outer
    BY <1>0, <1>2, PicEnterTop DEF EnableEnter, PicEnter, At, MainPcs, Frame
  <2> HIDE DEF r
  <2>2. QED
    BY <1>0, <1>2, <2>1, MainKeepsRegistered DEF EnableEnter, PicEnter, MainPcs
<1>3. CASE Enable
  <2> DEFINE r == [Cur EXCEPT !.pc = "main"]
  <2>1. /\ OnTop(r) /\ Cur.pc = "enabling"
        /\ r.irq = Cur.irq /\ r.pc = "main" /\ r.inner = Cur.inner /\ r.outer = Cur.outer
    BY <1>0, <1>3, GotoTop DEF Enable, At, MainPcs, Frame
  <2>2. at \in DOMAIN Program /\ OpNow.op = "enable" /\ MainLine = OpNow.irq
    BY <1>0, <2>1, NamedLine DEF Where, MainPcs
  <2> HIDE DEF r
  <2>3. QED
    BY <1>0, <1>3, <2>1, <2>2, MainKeepsRegistered DEF Enable, EnableBody, MainPcs
<1>4. CASE SetupEnter
  <2> DEFINE r == [Cur EXCEPT !.pc = "setup", !.outer = iflag]
  <2>1. /\ OnTop(r) /\ Cur.pc = "main"
        /\ r.irq = Cur.irq /\ r.pc = "setup" /\ r.inner = Cur.inner /\ r.outer = iflag
    BY <1>0, <1>4, SetupEnterTop DEF SetupEnter, Fetch, At, Frame
  <2> HIDE DEF r
  <2>2. QED
    BY <1>0, <1>4, <2>1, MainKeepsRegistered DEF SetupEnter, MainPcs
<1>5. CASE SetupBusy \/ SetupShared
  <2> DEFINE r == [Cur EXCEPT !.pc = "unlock"]
  <2>1. /\ OnTop(r) /\ Cur.pc = "setup"
        /\ r.irq = Cur.irq /\ r.pc = "unlock" /\ r.inner = Cur.inner /\ r.outer = Cur.outer
    BY <1>0, <1>5, GotoTop DEF SetupBusy, SetupShared, At, MainPcs, Frame
  <2>2. MainLine \in Irq /\ OpNow.act \in Action
    BY <1>0, <2>1, NamedLine DEF Where, MainPcs, SetupPcs
  <2>3. action'[MainLine] # <<>> /\ \A i \in Irq : action[i] # <<>> => action'[i] # <<>>
    <3>1. CASE SetupBusy
      BY <3>1 DEF SetupBusy
    <3>2. CASE SetupShared
      <4>1. action[MainLine] \in Seq(Action)
        BY <2>2 DEF TypeOK
      <4>2. Append(action[MainLine], OpNow.act) # <<>>
        BY <2>2, <4>1, AppendProperties
      <4>3. QED
        BY <2>2, <3>2, <4>2 DEF SetupShared, TypeOK
    <3>3. QED
      BY <1>5, <3>1, <3>2
  <2> HIDE DEF r
  <2>4. QED
    BY <1>0, <1>5, <2>1, <2>3, MainKeepsRegistered DEF SetupBusy, SetupShared, MainPcs
<1>6. CASE SetupFirst
  <2> DEFINE r == [Cur EXCEPT !.pc = "startup"]
  <2>1. /\ OnTop(r) /\ Cur.pc = "setup"
        /\ r.irq = Cur.irq /\ r.pc = "startup" /\ r.inner = Cur.inner /\ r.outer = Cur.outer
    BY <1>0, <1>6, GotoTop DEF SetupFirst, At, MainPcs, Frame
  <2>2. MainLine \in Irq
    BY <1>0, <2>1, NamedLine DEF Where, MainPcs, SetupPcs
  <2>3. action'[MainLine] # <<>> /\ \A i \in Irq : action[i] # <<>> => action'[i] # <<>>
    BY <1>6, <2>2 DEF SetupFirst, TypeOK
  <2> HIDE DEF r
  <2>4. QED
    BY <1>0, <1>6, <2>1, <2>3, MainKeepsRegistered DEF SetupFirst, MainPcs
<1>7. CASE StartupEnter
  <2> DEFINE r == [Cur EXCEPT !.pc = "starting", !.inner = iflag]
  <2>1. /\ OnTop(r) /\ Cur.pc = "startup"
        /\ r.irq = Cur.irq /\ r.pc = "starting" /\ r.inner = iflag /\ r.outer = Cur.outer
    BY <1>0, <1>7, PicEnterTop DEF StartupEnter, PicEnter, At, MainPcs, Frame
  <2>2. action[MainLine] # <<>>
    BY <1>0, <2>1 DEF Registered, MainPcs
  <2> HIDE DEF r
  <2>3. QED
    BY <1>0, <1>7, <2>1, <2>2, MainKeepsRegistered DEF StartupEnter, PicEnter, MainPcs
<1>8. CASE Startup
  <2> DEFINE r == [Cur EXCEPT !.pc = "unlock"]
  <2>1. /\ OnTop(r) /\ Cur.pc = "starting"
        /\ r.irq = Cur.irq /\ r.pc = "unlock" /\ r.inner = Cur.inner /\ r.outer = Cur.outer
    BY <1>0, <1>8, GotoTop DEF Startup, PicLeave, At, MainPcs, Frame
  <2>2. action[MainLine] # <<>>
    BY <1>0, <2>1 DEF Registered, MainPcs
  <2> HIDE DEF r
  <2>3. QED
    BY <1>0, <1>8, <2>1, <2>2, MainKeepsRegistered DEF Startup, EnableBody, PicLeave, MainPcs
<1>9. CASE SetupLeave
  <2> DEFINE r == [Cur EXCEPT !.pc = "main"]
  <2>1. /\ OnTop(r) /\ Cur.pc = "unlock"
        /\ r.irq = Cur.irq /\ r.pc = "main" /\ r.inner = Cur.inner /\ r.outer = Cur.outer
    BY <1>0, <1>9, GotoTop DEF SetupLeave, At, MainPcs, Frame
  <2>2. at \in DOMAIN Program /\ MainLine = OpNow.irq /\ action[MainLine] # <<>>
    BY <1>0, <2>1, NamedLine DEF Where, Registered, MainPcs, SetupPcs
  <2> HIDE DEF r
  <2>3. QED
    BY <1>0, <1>9, <2>1, <2>2, MainKeepsRegistered DEF SetupLeave, MainPcs
<1>10. QED
  BY <1>1, <1>2, <1>3, <1>4, <1>5, <1>6, <1>7, <1>8, <1>9 DEF Main

(* A line that can fire has an action: interrupts are on, so that main has   *)
(* been through an sti, and the line was enabled before or after its action  *)
(* was registered, but not without it (BootAssumption).                      *)
LEMMA InterruptRegistered ==
  ASSUME IInv, Registered, NEW i \in Irq, Interrupt(i), i \notin cached \/ i \in Spurious,
         UNCHANGED <<cached, desc, at>>
  PROVE  Registered'
<1> USE DEF IInv, Interrupt, desc
<1>0. action' = action
  OBVIOUS
<1>1. StiDone /\ StiDone'
  BY DEF Registered, StiDone
<1>2. i \in Spurious \/ action[i] # <<>>
  <2> SUFFICES ASSUME i \notin cached, action[i] = <<>> PROVE FALSE
    OBVIOUS
  <2>1. PICK s \in DOMAIN Program : s < at /\ Program[s].op = "sti"
    BY <1>1 DEF StiDone
  <2>2. PICK e \in DOMAIN Program :
          e < at /\ Program[e].op = "enable" /\ Program[e].irq = i
    BY DEF Registered
  <2>3. PICK k \in DOMAIN Program :
          /\ Program[k].op = "setup" /\ Program[k].irq = Program[e].irq
          /\ k < e \/ k < s
    <3>1. Program[e].irq # PIC_CASCADE_IR
      BY <2>2, IrqAssumption
    <3>2. QED
      BY <2>1, <2>2, <3>1, BootAssumption
  <2>4. k < at
    BY <2>1, <2>2, <2>3, LenProperties, IrqAssumption DEF TypeOK
  <2>5. QED
    BY <2>2, <2>3, <2>4 DEF Registered
<1>3. /\ Len(frames) \in Nat \ {0} /\ Len(frames') = Len(frames) + 1
      /\ Cur' = NewFrame(i, "do_irq")
      /\ \A n \in Slot : frames'[n] = frames[n]
  BY Height, PushFrame DEF TypeOK
<1>4. frames'[1] = frames[1]
  BY <1>3 DEF Slot
<1>5. ASSUME NEW n \in Slot'
      PROVE  /\ frames'[n].pc \in MaskedPcs \cup {"ack", "acking"} =>
                  action'[frames'[n].irq] # <<>>
             /\ frames'[n].pc = "do_irq" /\ frames'[n].irq \notin Spurious =>
                  action'[frames'[n].irq] # <<>>
  <2>1. CASE n \in Slot
    BY <2>1, <1>3 DEF Registered
  <2>2. CASE n \notin Slot
    <3>1. frames'[n] = NewFrame(i, "do_irq")
      BY <2>2, <1>3 DEF Slot, Cur
    <3> HIDE DEF Interrupt
    <3>2. frames'[n].irq = i /\ frames'[n].pc = "do_irq"
      BY <3>1, NewFields
    <3>3. QED
      BY <3>2, <1>2, <1>0 DEF MaskedPcs
  <2>3. QED
    BY <2>1, <2>2
<1>6. QED
  BY <1>1, <1>4, <1>5 DEF Registered, MainLine, OpNow

LEMMA RegisteredStep == IInv /\ Registered /\ [Next]_vars => Registered'
<1> SUFFICES ASSUME IInv, Registered, [Next]_vars PROVE Registered'
  OBVIOUS
<1>1. CASE Serve
  BY <1>1, ServeRegistered
<1>2. CASE Main
  BY <1>2, MainRegistered
<1>3. ASSUME NEW i \in Irq, Deliver(i) PROVE Registered'
  BY <1>3, InterruptRegistered DEF Deliver, Requests, IInv, Masks
<1>4. ASSUME NEW i \in Irq, SpuriousIrq(i) PROVE Registered'
  BY <1>4, InterruptRegistered DEF SpuriousIrq
<1>5. ASSUME UNCHANGED <<iflag, cached, desc, frames, at>> PROVE Registered'
  BY <1>5 DEF Registered, StiDone, Slot, MainLine, OpNow, desc
<1>6. QED
  BY <1>1, <1>2, <1>3, <1>4, <1>5 DEF Next, Cpu, Idle, Edge, vars, pic

(* handle_IRQ_event never runs with no action to call: although init_IRQ     *)
(* unmasks lines nobody has registered for, sti comes after (handle.c:52     *)
(* reads action->flags before it looks whether there is an action).          *)
THEOREM ActionBeforeInterrupt == Spec => []NeverNull
<1>1. Init => Registered
  BY IrqAssumption, LenProperties
     DEF Init, Registered, StiDone, Slot, NewFrame, MaskedPcs, Pin
<1>2. IInv /\ Registered => NeverNull
  BY WhoRuns DEF IInv, Registered, NeverNull, At, Cur, MaskedPcs
<1>3. QED
  BY <1>1, <1>2, InitInv, Inductive, RegisteredStep, PTL DEF Spec

-----------------------------------------------------------------------------
(* The lock of a spurious line is taken by the one frame that serves it.     *)
LEMMA TopKeepsOnce ==
  ASSUME IInv, Once, NEW r, OnTop(r), r.irq = Cur.irq, UNCHANGED edges,
         r.pc = "lock" => Cur.pc = "do_irq", r.pc # "do_irq",
         \/ \A i \in Spurious : i \in descLock' => i \in descLock
         \/ /\ descLock' = descLock \cup {Cur.irq}
            /\ r.pc # "lock"
  PROVE  Once'
<1> USE DEF IInv
<1>1. \A n \in Slot : n # Len(frames) => frames[n].irq # Cur.irq
  BY BelowKept DEF NoReentry
<1>2. \A n \in Slot : frames'[n].irq = frames[n].irq
  BY BelowKept
<1>3. ASSUME NEW i \in Spurious
      PROVE  /\ i \in descLock' => edges[i] >= 1
             /\ \A n \in Slot : frames'[n].irq = i => edges[i] >= 1
  BY <1>2, BelowKept DEF Once
<1>4. ASSUME NEW i \in Spurious, NEW n \in Slot,
             frames'[n].irq = i, frames'[n].pc \in {"do_irq", "lock"}
      PROVE  i \notin descLock'
  <2>1. CASE n = Len(frames)
    <3>1. frames'[n] = r /\ Cur = frames[n]
      BY <2>1, BelowKept
    <3>2. frames[n].irq = i /\ frames[n].pc = "do_irq" /\ r.pc = "lock"
      BY <3>1, <1>4
    <3>3. i \notin descLock
      BY <3>2 DEF Once
    <3>4. QED
      BY <3>2, <3>3
  <2>2. CASE n # Len(frames)
    <3>1. frames'[n] = frames[n] /\ frames[n].irq # Cur.irq
      BY <2>2, <1>1, BelowKept
    <3>2. i \notin descLock
      BY <3>1, <1>4 DEF Once
    <3>3. QED
      BY <3>1, <3>2, <1>4
  <2>3. QED
    BY <2>1, <2>2
<1>5. QED
  BY <1>3, <1>4, BelowKept DEF Once

LEMMA InterruptOnce ==
  ASSUME IInv, Once, NEW i \in Irq, Interrupt(i), UNCHANGED <<cached, descLock>>,
         \/ i \notin cached /\ edges' = edges
         \/ i \in Spurious /\ edges[i] = 0 /\ edges' = [edges EXCEPT ![i] = @ + 1]
  PROVE  Once'
<1> USE DEF IInv
<1>1. /\ Len(frames) \in Nat \ {0} /\ Len(frames') = Len(frames) + 1
      /\ Cur' = NewFrame(i, "do_irq")
      /\ \A n \in Slot : frames'[n] = frames[n]
  BY Height, PushFrame DEF TypeOK
<1>2. ASSUME NEW n \in Slot' PROVE n \in Slot \/ frames'[n] = NewFrame(i, "do_irq")
  BY <1>1 DEF Slot, Cur
<1>3. \A n \in Slot' : n \in Slot \/ frames'[n].irq = i
  BY <1>2, NewFields
<1>4. \A s \in Spurious : edges'[s] \in Nat /\ edges[s] \in Nat /\ edges'[s] >= edges[s]
  BY DEF TypeOK, Irq
<1>5. i \in Spurious => edges[i] = 0 /\ edges'[i] = 1 /\ i \notin descLock
  BY DEF Masks, Once, TypeOK
<1>6. ASSUME NEW s \in Spurious, NEW n \in Slot', frames'[n].irq = s
      PROVE  edges'[s] >= 1 /\ (frames'[n].pc \in {"do_irq", "lock"} => s \notin descLock)
  <2>1. CASE n \in Slot
    <3>1. frames[n] = frames'[n] /\ edges[s] >= 1
      BY <2>1, <1>1, <1>6 DEF Once
    <3>2. QED
      BY <2>1, <3>1, <1>4, <1>6 DEF Once
  <2>2. CASE n \notin Slot
    BY <2>2, <1>3, <1>5, <1>6
  <2>3. QED
    BY <2>1, <2>2
<1>7. \A s \in Spurious : s \in descLock => edges'[s] >= 1
  BY <1>4 DEF Once
<1>8. QED
  BY <1>6, <1>7 DEF Once

LEMMA OnceStep == SpuriousOnce /\ IInv /\ Once /\ [Next]_vars => Once'
<1> SUFFICES ASSUME SpuriousOnce, IInv, Once, [Next]_vars PROVE Once'
  OBVIOUS
<1> USE DEF IInv, pic, desc
<1>1. Cur \in Frame
  BY WhoRuns
<1>2. CASE DoIrq
  <2> DEFINE r == [Cur EXCEPT !.pc = IF status[Cur.irq] = "percpu" THEN "ack" ELSE "lock"]
  <2>1. OnTop(r) /\ Cur.pc = "do_irq" /\ r.irq = Cur.irq /\ r.pc \in {"ack", "lock"}
    BY <1>1, <1>2, GotoTop DEF DoIrq, At, ServePcs, Frame
  <2> HIDE DEF r
  <2>2. QED
    BY <1>2, <2>1, TopKeepsOnce DEF DoIrq
<1>3. ASSUME NEW pc \in (MainPcs \cup ServePcs) \ {"do_irq", "lock"}, Goto(pc),
             UNCHANGED edges, \A i \in Spurious : i \in descLock' => i \in descLock
      PROVE  Once'
  <2> DEFINE r == [Cur EXCEPT !.pc = pc]
  <2>1. OnTop(r) /\ r.irq = Cur.irq /\ r.pc = pc
    BY <1>1, <1>3, GotoTop DEF Frame
  <2> HIDE DEF r
  <2>2. QED
    BY <1>3, <2>1, TopKeepsOnce
<1>4. ASSUME NEW from, NEW to \in (MainPcs \cup ServePcs) \ {"do_irq", "lock"}, PicEnter(from, to)
      PROVE  Once'
  <2> DEFINE r == [Cur EXCEPT !.pc = to, !.inner = iflag]
  <2>1. OnTop(r) /\ r.irq = Cur.irq /\ r.pc = to
    BY <1>1, <1>4, PicEnterTop DEF Frame
  <2> HIDE DEF r
  <2>2. UNCHANGED <<edges, descLock>>
    BY <1>4 DEF PicEnter
  <2>3. QED
    BY <1>4, <2>1, <2>2, TopKeepsOnce
<1>5. CASE AckEnter \/ LostAckEnter \/ EnableEnter \/ StartupEnter
  BY <1>4, <1>5 DEF AckEnter, LostAckEnter, EnableEnter, StartupEnter, MainPcs, ServePcs
<1>6. CASE Ack \/ End \/ LostAck \/ Startup
  <2>1. UNCHANGED <<edges, descLock>>
    BY <1>6 DEF Ack, End, LostAck, Startup, PicLeave
  <2>2. Goto("handle") \/ Goto("iret") \/ Goto("unlock")
    BY <1>6 DEF Ack, End, LostAck, Startup, PicLeave
  <2>3. QED
    BY <1>3, <2>1, <2>2 DEF MainPcs, ServePcs
<1>7. CASE EndEnter
  BY <1>3, <1>4, <1>7 DEF EndEnter, ServePcs
<1>8. CASE Enable \/ SetupBusy \/ SetupShared \/ SetupFirst \/ SetupLeave
  <2>1. UNCHANGED edges /\ \A i \in Spurious : i \in descLock' => i \in descLock
    BY <1>8 DEF Enable, SetupBusy, SetupShared, SetupFirst, SetupLeave, SpinUnlock
  <2>2. Goto("main") \/ Goto("unlock") \/ Goto("startup")
    BY <1>8 DEF Enable, SetupBusy, SetupShared, SetupFirst, SetupLeave
  <2>3. QED
    BY <1>3, <2>1, <2>2 DEF MainPcs
<1>9. CASE Handle
  <2> DEFINE r == [Cur EXCEPT !.pc = "run", !.turn = 1]
  <2>1. OnTop(r) /\ r.irq = Cur.irq /\ r.pc = "run"
    BY <1>1, <1>9, HandleTop DEF Frame
  <2> HIDE DEF r
  <2>2. QED
    BY <1>9, <2>1, TopKeepsOnce DEF Handle
<1>10. CASE RunHandler
  <2> DEFINE r == IF Cur.turn = Len(action[Cur.irq]) THEN [Cur EXCEPT !.pc = "end"]
                    ELSE [Cur EXCEPT !.turn = @ + 1]
  <2>1. OnTop(r) /\ r.irq = Cur.irq /\ r.pc \in {"run", "end"}
    BY <1>1, <1>10, RunTop DEF RunHandler, At, Frame
  <2> HIDE DEF r
  <2>2. QED
    BY <1>10, <2>1, TopKeepsOnce DEF RunHandler
<1>11. CASE LockLine
  <2> DEFINE r == [Cur EXCEPT !.pc = "lostAck"]
  <2>1. OnTop(r) /\ r.irq = Cur.irq /\ r.pc = "lostAck"
    BY <1>1, <1>11, GotoTop DEF LockLine, ServePcs, Frame
  <2> HIDE DEF r
  <2>2. QED
    BY <1>11, <2>1, TopKeepsOnce DEF LockLine, SpinLock
<1>12. CASE SetupEnter
  <2> DEFINE r == [Cur EXCEPT !.pc = "setup", !.outer = iflag]
  <2>1. OnTop(r) /\ r.irq = Cur.irq /\ r.pc = "setup"
    BY <1>1, <1>12, SetupEnterTop DEF Frame
  <2>2. MainLine \notin Spurious
    BY <1>12, NamedLine DEF SetupEnter, Fetch
  <2> HIDE DEF r
  <2>3. QED
    BY <1>12, <2>1, <2>2, TopKeepsOnce DEF SetupEnter, SpinLock
<1>13. CASE Iret
  <2>1. Len(frames) > 1 /\ Len(frames) \in Nat
    BY <1>13, WhoRuns, Height DEF Iret, At, ServePcs, TypeOK
  <2>2. /\ Len(frames') = Len(frames) - 1
        /\ \A n \in 1 .. Len(frames) - 1 : frames'[n] = frames[n]
    BY <1>13, <2>1, PopFrame DEF Iret
  <2>3. \A n \in Slot' : n \in Slot /\ frames'[n] = frames[n]
    BY <2>1, <2>2 DEF Slot
  <2>4. QED
    BY <1>13, <2>3 DEF Once, Iret
<1>14. CASE Sti \/ UNCHANGED vars
  BY <1>14 DEF Sti, vars, Once, Slot
<1>15. ASSUME NEW i \in Irq, Deliver(i) PROVE Once'
  BY <1>15, InterruptOnce DEF Deliver, Requests, Masks
<1>16. ASSUME NEW i \in Irq, SpuriousIrq(i) PROVE Once'
  <2>1. edges[i] = 0
    <3>1. edges[i] \in Nat /\ MaxEdges[i] \in Nat
      BY IrqAssumption DEF TypeOK
    <3>2. edges[i] < MaxEdges[i] /\ MaxEdges[i] <= 1
      BY <1>16 DEF SpuriousIrq, SpuriousOnce
    <3>3. QED
      BY <3>1, <3>2
  <2>2. QED
    BY <1>16, <2>1, InterruptOnce DEF SpuriousIrq
<1>17. ASSUME NEW i \in Irq, Edge(i) PROVE Once'
  <2>1. \A s \in Spurious : edges'[s] \in Nat /\ edges[s] \in Nat /\ edges'[s] >= edges[s]
    BY <1>17 DEF Edge, TypeOK, Irq
  <2>2. QED
    BY <1>17, <2>1 DEF Edge, Once, Slot
<1>18. QED
  BY <1>2, <1>5, <1>6, <1>7, <1>8, <1>9, <1>10, <1>11, <1>12, <1>13, <1>14, <1>15, <1>16, <1>17
     DEF Next, Cpu, Idle, Serve, Main

(* No context spins on a lock that it, or the code it interrupted, holds, as *)
(* long as no line is spurious twice: the lock __do_IRQ keeps at the first   *)
(* time (handle.c:76) is the only one that is ever kept.                     *)
THEOREM NobodySpins == ASSUME SpuriousOnce PROVE Spec => []NoSelfDeadlock
<1>1. Init => Once
  <2> SUFFICES ASSUME Init PROVE Once
    OBVIOUS
  <2>1. \A n \in Slot : frames[n].irq = NoIrq
    BY NewFields DEF Init, Slot
  <2>2. NoIrq \notin Spurious
    BY IrqAssumption DEF NoIrq, Irq
  <2>3. QED
    BY <2>1, <2>2 DEF Init, Once
<1>2. IInv /\ Once => NoSelfDeadlock
  <2> SUFFICES ASSUME IInv, Once PROVE NoSelfDeadlock
    OBVIOUS
  <2> USE DEF IInv
  <2>1. /\ Cur.pc \in PicPcs \/ ~picLock
        /\ Len(frames) \in Slot /\ Cur = frames[Len(frames)]
    BY WhoRuns DEF Where, Cur
  <2>2. At("ack") \/ At("end") \/ At("lostAck") \/ At("startup") => ~picLock
    BY <2>1 DEF At, PicPcs
  <2>3. At("lock") => Cur.irq \notin descLock
    BY <2>1 DEF At, Served, LostPcs, Once
  <2>4. Fetch("enable") => ~picLock
    BY <2>1 DEF Fetch, At, PicPcs
  <2>5. Fetch("setup") => MainLine \notin descLock
    <3>1. SUFFICES ASSUME Fetch("setup") PROVE MainLine \notin descLock
      OBVIOUS
    <3>2. MainLine \notin Spurious /\ frames[1].pc = "main"
      BY <3>1, WhoRuns, NamedLine DEF Fetch, At, MainPcs
    <3>3. QED
      BY <3>2 DEF Where, SetupPcs
  <2>6. QED
    BY <2>2, <2>3, <2>4, <2>5 DEF NoSelfDeadlock
<1>3. QED
  BY <1>1, <1>2, InitInv, Inductive, OnceStep, PTL DEF Spec
=============================================================================
