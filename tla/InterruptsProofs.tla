--------------------------- MODULE InterruptsProofs ---------------------------
(***************************************************************************)
(* Proofs about the kernel's interrupts, for any set of devices and any    *)
(* depth of the stack.  The invariant says which contexts can be on the    *)
(* stack together: at most one IRQ, with exceptions below it that have not *)
(* come to their cli, and exceptions above it, which never return; and it  *)
(* ties what the controllers hold to how far that IRQ's handler is.        *)
(***************************************************************************)
EXTENDS Interrupts, SequenceTheorems, TLAPS

OfIrqs == {"entry", "dispatch", "slave", "master", "return"}
OfExceptions == {"entry", "print", "halted"}

(* What is in service while c, an IRQ, is handled; 39 and 47 may be spurious. *)
Held(c, served) ==
  IF c.at = "return" THEN served = {}
  ELSE IF c.vector < 40 THEN served = {c.vector - 32} \/ (c.vector = 39 /\ served = {})
  ELSE IF c.at = "master" THEN served = {Cascade}
  ELSE served = {c.vector - 32, Cascade} \/ (c.vector = 47 /\ served = {Cascade})

GateInv ==
  /\ crashed => phase \in {"idt", "isr"}
  /\ phase \in {"irq", "sti", "loop"} => \A v \in Exceptions : idt[v] = "Trap"
  /\ phase \in {"sti", "loop"} => \A q \in Irqs : idt[32 + q] = "Interrupt"

(* The IRQ at place i of the stack. *)
IrqInv(i) ==
  /\ stack[i].at \in OfIrqs /\ stack[i].flag /\ ~enabled /\ phase = "loop"
  /\ stack[i].at = "slave" => stack[i].vector >= 40
  /\ Held(stack[i], inService)
  /\ \A j \in DOMAIN stack : j # i => ~IsIrq(stack[j])
  /\ \A j \in DOMAIN stack : j > i => stack[j].at = "entry"

StackInv ==
  \A i \in DOMAIN stack :
    /\ IsIrq(stack[i]) => IrqInv(i)
    /\ ~IsIrq(stack[i]) => stack[i].at \in OfExceptions

QuietInv ==
  /\ enabled => phase = "loop" /\ \A i \in DOMAIN stack : ~IsIrq(stack[i]) /\ stack[i].at = "entry"
  /\ (\A i \in DOMAIN stack : ~IsIrq(stack[i])) => inService = {}

IInv == TypeOK /\ GateInv /\ StackInv /\ QuietInv

-----------------------------------------------------------------------------
(* The stack after a push, a change of its head, and a pop. *)

LEMMA Pushing ==
  ASSUME TypeOK, NEW v \in Vectors, Enter(v)
  PROVE  /\ stack' \in Seq(Context) /\ Len(stack') = Len(stack) + 1
         /\ stack'[1] = [vector |-> v, at |-> "entry", flag |-> enabled]
         /\ \A i \in 1 .. Len(stack) : stack'[i + 1] = stack[i]
         /\ Len(stack') <= MaxDepth
<1> DEFINE c == [vector |-> v, at |-> "entry", flag |-> enabled]
<1>1. c \in Context /\ <<c>> \in Seq(Context) /\ Len(<<c>>) = 1 /\ <<c>>[1] = c
  BY DEF TypeOK, Context, Places
<1>2. stack \in Seq(Context) /\ stack' = <<c>> \o stack
  BY DEF TypeOK, Enter
<1> HIDE DEF c
<1>3. stack' \in Seq(Context) /\ Len(stack') = Len(<<c>>) + Len(stack)
  BY <1>1, <1>2, ConcatProperties
<1>4. \A i \in 1 .. (Len(<<c>>) + Len(stack)) :
        stack'[i] = IF i <= Len(<<c>>) THEN <<c>>[i] ELSE stack[i - Len(<<c>>)]
  BY <1>1, <1>2, ConcatProperties
<1>5. Len(stack) \in Nat
  BY <1>2, LenProperties
<1>6. stack'[1] = c /\ \A i \in 1 .. Len(stack) : stack'[i + 1] = stack[i]
  BY <1>1, <1>4, <1>5
<1>7. Len(stack') <= MaxDepth
  BY <1>1, <1>3, <1>5, LinesAssumption DEF Enter
<1> QED
  BY <1>1, <1>3, <1>5, <1>6, <1>7 DEF c

LEMMA Going ==
  ASSUME TypeOK, stack # <<>>, NEW place \in Places, Goto(place)
  PROVE  /\ stack' \in Seq(Context) /\ Len(stack') = Len(stack) /\ Len(stack) \in Nat \ {0}
         /\ stack'[1] = [stack[1] EXCEPT !.at = place]
         /\ \A i \in 2 .. Len(stack) : stack'[i] = stack[i]
<1> DEFINE c == [stack[1] EXCEPT !.at = place]
<1>1. stack \in Seq(Context) /\ Len(stack) \in Nat \ {0} /\ Head(stack) = stack[1] /\ stack[1] \in Context
  BY EmptySeq, ElementOfSeq DEF TypeOK
<1>2. c \in Context
  BY <1>1 DEF Context
<1>3. <<c>> \in Seq(Context) /\ Len(<<c>>) = 1 /\ <<c>>[1] = c
  BY <1>2
<1>4. stack' = <<c>> \o Tail(stack)
  BY <1>1 DEF Goto
<1> HIDE DEF c
<1>5. /\ Tail(stack) \in Seq(Context) /\ Len(Tail(stack)) = Len(stack) - 1
      /\ \A i \in 1 .. Len(Tail(stack)) : Tail(stack)[i] = stack[i + 1]
  BY <1>1, HeadTailProperties
<1>6. /\ stack' \in Seq(Context) /\ Len(stack') = 1 + Len(Tail(stack))
      /\ \A i \in 1 .. (1 + Len(Tail(stack))) : stack'[i] = IF i <= 1 THEN c ELSE Tail(stack)[i - 1]
  BY <1>3, <1>4, <1>5, ConcatProperties
<1>7. stack'[1] = c
  BY <1>1, <1>5, <1>6
<1>8. ASSUME NEW i \in 2 .. Len(stack) PROVE stack'[i] = stack[i]
  <2>1. i - 1 \in 1 .. Len(Tail(stack)) /\ i \in 1 .. (1 + Len(Tail(stack))) /\ ~(i <= 1)
    BY <1>1, <1>5
  <2> QED
    BY <2>1, <1>5, <1>6
<1> QED
  BY <1>1, <1>5, <1>6, <1>7, <1>8 DEF c

-----------------------------------------------------------------------------
(* Each kind of step. *)

LEMMA InitInv == Init => IInv
<1> SUFFICES ASSUME Init PROVE IInv
  OBVIOUS
<1>1. TypeOK
  <2>1. stack = <<>> /\ stack \in Seq(Context) /\ Len(stack) = 0
    BY DEF Init
  <2>2. stack \in Seq(Context) /\ Len(stack) <= MaxDepth
    BY <2>1, LinesAssumption
  <2>3. idt \in [Vectors -> GateTypes]
    BY DEF Init, GateTypes
  <2> QED
    BY <2>2, <2>3, Zenon DEF Init, TypeOK
<1>2. DOMAIN stack = {}
  BY DEF Init
<1> QED
  BY <1>1, <1>2 DEF Init, IInv, GateInv, StackInv, QuietInv

(* kmain, while nothing is on the stack. *)
LEMMA KmainStep == IInv /\ (IdtInstall \/ IsrInstall \/ IrqInstall \/ Sti) => IInv'
<1> SUFFICES ASSUME IInv, IdtInstall \/ IsrInstall \/ IrqInstall \/ Sti PROVE IInv'
  OBVIOUS
<1>1. stack = <<>> /\ stack' = <<>> /\ ~crashed /\ ~crashed' /\ DOMAIN stack = {} /\ inService = {} /\ inService' = {}
  <2>1. stack = <<>> /\ stack' = <<>> /\ ~crashed /\ ~crashed' /\ DOMAIN stack = {}
    BY DEF IInv, TypeOK, InKmain, IdtInstall, IsrInstall, IrqInstall, Sti
  <2> QED
    BY <2>1 DEF IInv, QuietInv, InKmain, IdtInstall, IsrInstall, IrqInstall, Sti, controllers
<1>2. TypeOK'
  <2>1. idt' \in [Vectors -> GateTypes]
    BY DEF IInv, TypeOK, GateTypes, IdtInstall, IsrInstall, IrqInstall, Sti, Vectors
  <2>2. phase' \in {"idt", "isr", "irq", "sti", "loop"} /\ enabled' \in BOOLEAN /\ requests' \subseteq Lines
                 /\ crashed' \in BOOLEAN
    BY Zenon DEF IInv, TypeOK, IdtInstall, IsrInstall, IrqInstall, Sti, controllers
  <2>3. stack' \in Seq(Context) /\ Len(stack') <= MaxDepth
    BY <1>1 DEF IInv, TypeOK
  <2> QED
    BY <1>1, <2>1, <2>2, <2>3, Zenon DEF TypeOK
<1>3. GateInv'
  <2>1. CASE IdtInstall
    BY <1>1, <2>1 DEF IInv, GateInv, IdtInstall
  <2>2. CASE IsrInstall
    BY <1>1, <2>2 DEF IInv, TypeOK, GateInv, IsrInstall, Exceptions, Vectors
  <2>3. CASE IrqInstall
    <3>1. \A v \in Exceptions : idt'[v] = "Trap"
      <4> SUFFICES ASSUME NEW v \in Exceptions PROVE idt'[v] = "Trap"
        OBVIOUS
      <4>1. v \in Vectors /\ v - 32 \notin Irqs
        BY DEF Exceptions, Vectors, Irqs
      <4>2. idt[v] = "Trap"
        BY <2>3 DEF IInv, GateInv, IrqInstall
      <4> QED
        BY <2>3, <4>1, <4>2 DEF IrqInstall
    <3>2. \A q \in Irqs : idt'[32 + q] = "Interrupt"
      <4> SUFFICES ASSUME NEW q \in Irqs PROVE idt'[32 + q] = "Interrupt"
        OBVIOUS
      <4>1. 32 + q \in Vectors /\ (32 + q) - 32 = q
        BY DEF Vectors, Irqs
      <4> QED
        BY <2>3, <4>1 DEF IrqInstall
    <3> QED
      BY <1>1, <2>3, <3>1, <3>2 DEF GateInv, IrqInstall
  <2>4. CASE Sti
    BY <1>1, <2>4 DEF IInv, GateInv, Sti
  <2> QED
    BY <2>1, <2>2, <2>3, <2>4
<1>4. enabled' => phase' = "loop"
  BY DEF IInv, QuietInv, IdtInstall, IsrInstall, IrqInstall, Sti
<1> QED
  BY <1>1, <1>2, <1>3, <1>4 DEF IInv, StackInv, QuietInv

(* The head of the stack changes its place. *)
LEMMA IrqGoes ==
  ASSUME IInv, stack # <<>>, IsIrq(stack[1]), NEW place \in OfIrqs, Goto(place),
         place = "slave" => stack[1].vector >= 40,
         Held([stack[1] EXCEPT !.at = place], inService'), inService' \subseteq Irqs, enabled' = FALSE,
         UNCHANGED <<phase, idt, requests, crashed>>
  PROVE  IInv'
<1>1. TypeOK /\ place \in Places
  BY DEF IInv, OfIrqs, Places
<1>2. /\ stack' \in Seq(Context) /\ Len(stack') = Len(stack) /\ Len(stack) \in Nat \ {0}
      /\ stack'[1] = [stack[1] EXCEPT !.at = place]
      /\ \A i \in 2 .. Len(stack) : stack'[i] = stack[i]
  BY <1>1, Going
<1>3. stack \in Seq(Context) /\ stack[1] \in Context /\ 1 \in DOMAIN stack /\ 1 \in DOMAIN stack'
  BY <1>1, <1>2, ElementOfSeq DEF TypeOK
<1>4. stack'[1].vector = stack[1].vector /\ stack'[1].at = place /\ stack'[1].flag = stack[1].flag
  BY <1>2, <1>3 DEF Context
<1>5. DOMAIN stack = 1 .. Len(stack) /\ DOMAIN stack' = 1 .. Len(stack)
  BY <1>2, <1>3
<1>6. IrqInv(1)
  BY <1>3 DEF IInv, StackInv
<1>7. TypeOK'
  <2>1. Len(stack') <= MaxDepth /\ requests' \subseteq Lines /\ phase' \in {"idt", "isr", "irq", "sti", "loop"}
        /\ idt' \in [Vectors -> GateTypes] /\ crashed' \in BOOLEAN /\ enabled' \in BOOLEAN
    BY <1>1, <1>2 DEF TypeOK
  <2> QED
    BY <1>2, <2>1, Zenon DEF TypeOK
<1>8. IsIrq(stack'[1]) /\ \A i \in 2 .. Len(stack) : ~IsIrq(stack'[i]) /\ stack'[i].at = "entry"
  BY <1>2, <1>3, <1>4, <1>5, <1>6 DEF IrqInv, IsIrq
<1>9. IrqInv(1)'
  <2>1. stack'[1].at \in OfIrqs /\ stack'[1].flag /\ ~enabled' /\ phase' = "loop"
    BY <1>4, <1>6 DEF IrqInv
  <2>2. stack'[1].at = "slave" => stack'[1].vector >= 40
    BY <1>4
  <2>3. Held(stack'[1], inService')
    BY <1>2
  <2>4. \A j \in DOMAIN stack' : (j # 1 => ~IsIrq(stack'[j])) /\ (j > 1 => stack'[j].at = "entry")
    BY <1>2, <1>5, <1>8
  <2> QED
    BY <2>1, <2>2, <2>3, <2>4 DEF IrqInv, IsIrq
<1>10. GateInv'
  BY DEF IInv, GateInv
<1>11. StackInv'
  <2> SUFFICES ASSUME NEW i \in DOMAIN stack'
               PROVE  /\ IsIrq(stack'[i]) => IrqInv(i)'
                      /\ ~IsIrq(stack'[i]) => stack'[i].at \in OfExceptions
    BY DEF StackInv, IsIrq
  <2>1. CASE i = 1
    BY <1>8, <1>9, <2>1
  <2>2. CASE i # 1
    BY <1>2, <1>5, <1>8, <2>2 DEF OfExceptions
  <2> QED
    BY <2>1, <2>2
<1>12. QuietInv'
  BY <1>3, <1>8 DEF QuietInv, IsIrq
<1> QED
  BY <1>7, <1>10, <1>11, <1>12 DEF IInv

LEMMA ExceptionGoes ==
  ASSUME IInv, stack # <<>>, ~IsIrq(stack[1]), NEW place \in {"print", "halted"}, Goto(place),
         enabled' = FALSE, UNCHANGED <<phase, idt, controllers, crashed>>
  PROVE  IInv'
<1>1. TypeOK /\ place \in Places
  BY DEF IInv, Places
<1>2. /\ stack' \in Seq(Context) /\ Len(stack') = Len(stack) /\ Len(stack) \in Nat \ {0}
      /\ stack'[1] = [stack[1] EXCEPT !.at = place]
      /\ \A i \in 2 .. Len(stack) : stack'[i] = stack[i]
  BY <1>1, Going
<1>3. stack \in Seq(Context) /\ stack[1] \in Context
  BY <1>1, <1>2, ElementOfSeq DEF TypeOK
<1>4. stack'[1].vector = stack[1].vector /\ stack'[1].at = place
  BY <1>2, <1>3 DEF Context
<1>5. DOMAIN stack = 1 .. Len(stack) /\ DOMAIN stack' = 1 .. Len(stack)
  BY <1>2, <1>3
<1>6. ~IsIrq(stack'[1])
  BY <1>4 DEF IsIrq
<1>7. TypeOK'
  <2>1. Len(stack') <= MaxDepth /\ enabled' \in BOOLEAN
    BY <1>1, <1>2 DEF TypeOK
  <2> QED
    BY <1>1, <1>2, <2>1, Zenon DEF TypeOK, controllers
<1>8. GateInv'
  BY DEF IInv, GateInv
<1>9. ASSUME NEW i \in DOMAIN stack', IsIrq(stack'[i]) PROVE IrqInv(i)'
  <2>1. i # 1 /\ stack'[i] = stack[i] /\ i \in DOMAIN stack /\ i > 1
    BY <1>2, <1>5, <1>6, <1>9
  <2>2. IrqInv(i)
    BY <1>9, <2>1 DEF IInv, StackInv, IsIrq
  <2>3. \A j \in DOMAIN stack' : /\ j # i => ~IsIrq(stack'[j])
                                 /\ j > i => stack'[j].at = "entry"
    <3> SUFFICES ASSUME NEW j \in DOMAIN stack'
                 PROVE  (j # i => ~IsIrq(stack'[j])) /\ (j > i => stack'[j].at = "entry")
      OBVIOUS
    <3>1. CASE j = 1
      BY <1>5, <1>6, <2>1, <3>1
    <3>2. CASE j # 1
      BY <1>2, <1>5, <2>2, <3>2 DEF IrqInv
    <3> QED
      BY <3>1, <3>2
  <2> QED
    BY <2>1, <2>2, <2>3 DEF IrqInv, IsIrq, controllers
<1>10. StackInv'
  <2>1. ASSUME NEW i \in DOMAIN stack', ~IsIrq(stack'[i]) PROVE stack'[i].at \in OfExceptions
    <3>1. CASE i = 1
      BY <1>4, <3>1 DEF OfExceptions
    <3>2. CASE i # 1
      BY <1>2, <1>5, <2>1, <3>2 DEF IInv, StackInv, IsIrq
    <3> QED
      BY <3>1, <3>2
  <2> QED
    BY <1>9, <2>1 DEF StackInv, IsIrq
<1>11. QuietInv'
  <2>1. ASSUME \A i \in DOMAIN stack' : ~IsIrq(stack'[i]) PROVE inService' = {}
    <3>1. \A i \in DOMAIN stack : ~IsIrq(stack[i])
      BY <1>2, <1>5, <2>1 DEF IsIrq
    <3> QED
      BY <3>1 DEF IInv, QuietInv, controllers
  <2> QED
    BY <2>1 DEF QuietInv, IsIrq
<1> QED
  BY <1>7, <1>8, <1>10, <1>11 DEF IInv

(* An exception comes on top of anything. *)
LEMMA FaultStep == ASSUME IInv, NEW v \in Faults, Fault(v) PROVE IInv'
<1>1. TypeOK /\ v \in Vectors /\ v \in Exceptions /\ Enter(v)
  BY LinesAssumption DEF IInv, Fault, Exceptions, Vectors
<1>2. /\ stack' \in Seq(Context) /\ Len(stack') = Len(stack) + 1
      /\ stack'[1] = [vector |-> v, at |-> "entry", flag |-> enabled]
      /\ \A i \in 1 .. Len(stack) : stack'[i + 1] = stack[i]
      /\ Len(stack') <= MaxDepth
  BY <1>1, Pushing
<1>3. /\ Len(stack) \in Nat /\ DOMAIN stack = 1 .. Len(stack) /\ DOMAIN stack' = 1 .. (Len(stack) + 1)
      /\ ~IsIrq(stack'[1]) /\ stack'[1].at = "entry"
  BY <1>1, <1>2, LenProperties DEF TypeOK, IsIrq
<1>4. \A i \in DOMAIN stack' : i # 1 => i - 1 \in DOMAIN stack /\ stack'[i] = stack[i - 1]
  BY <1>2, <1>3
<1>5. TypeOK'
  <2>1. enabled' \in BOOLEAN /\ crashed' \in BOOLEAN
    BY <1>1 DEF Enter
  <2> QED
    BY <1>1, <1>2, <2>1, Zenon DEF TypeOK, Fault, controllers
<1>6. GateInv'
  <2>1. crashed' => phase \in {"idt", "isr"}
    BY <1>1 DEF IInv, GateInv, TypeOK, Enter
  <2> QED
    BY <2>1 DEF IInv, GateInv, Fault
<1>7. ASSUME NEW i \in DOMAIN stack', IsIrq(stack'[i]) PROVE IrqInv(i)'
  <2>1. i # 1 /\ i - 1 \in DOMAIN stack /\ stack'[i] = stack[i - 1] /\ i > 1
    BY <1>3, <1>4, <1>7
  <2>2. IrqInv(i - 1)
    BY <1>7, <2>1 DEF IInv, StackInv, IsIrq
  <2>3. \A j \in DOMAIN stack' : (j # i => ~IsIrq(stack'[j])) /\ (j > i => stack'[j].at = "entry")
    <3> SUFFICES ASSUME NEW j \in DOMAIN stack'
                 PROVE  (j # i => ~IsIrq(stack'[j])) /\ (j > i => stack'[j].at = "entry")
      OBVIOUS
    <3>1. CASE j = 1
      BY <1>3, <2>1, <3>1
    <3>2. CASE j # 1
      <4>1. j - 1 \in DOMAIN stack /\ stack'[j] = stack[j - 1]
        BY <1>4, <3>2
      <4>2. (j # i => j - 1 # i - 1) /\ (j > i => j - 1 > i - 1)
        BY <1>3, <2>1
      <4> QED
        BY <2>2, <4>1, <4>2 DEF IrqInv
    <3> QED
      BY <3>1, <3>2
  <2>4. ~enabled' /\ inService' = inService /\ phase' = phase
    BY <1>1, <2>2 DEF Enter, IrqInv, Fault, controllers
  <2> QED
    BY <2>1, <2>2, <2>3, <2>4 DEF IrqInv, IsIrq
<1>8. StackInv'
  <2>1. ASSUME NEW i \in DOMAIN stack', ~IsIrq(stack'[i]) PROVE stack'[i].at \in OfExceptions
    BY <1>3, <1>4, <2>1 DEF IInv, StackInv, IsIrq, OfExceptions
  <2> QED
    BY <1>7, <2>1 DEF StackInv, IsIrq
<1>9. QuietInv'
  <2>1. ASSUME enabled' PROVE phase' = "loop" /\ \A i \in DOMAIN stack' : ~IsIrq(stack'[i]) /\ stack'[i].at = "entry"
    <3>1. enabled
      BY <1>1, <2>1 DEF Enter
    <3> QED
      BY <1>3, <1>4, <3>1 DEF IInv, QuietInv, Fault, IsIrq
  <2>2. ASSUME \A i \in DOMAIN stack' : ~IsIrq(stack'[i]) PROVE inService' = {}
    <3>1. \A i \in DOMAIN stack : i + 1 \in DOMAIN stack' /\ stack'[i + 1] = stack[i]
      BY <1>2, <1>3
    <3>2. \A i \in DOMAIN stack : ~IsIrq(stack[i])
      BY <2>2, <3>1 DEF IsIrq
    <3> QED
      BY <3>2 DEF IInv, QuietInv, Fault, controllers
  <2> QED
    BY <2>1, <2>2 DEF QuietInv, IsIrq
<1> QED
  BY <1>5, <1>6, <1>8, <1>9 DEF IInv

(* An interrupt comes on top of kmain and of exceptions at their entry. *)
LEMMA DeliverStep == ASSUME IInv, NEW q \in Lines, Deliver(q) PROVE IInv'
<1>1. TypeOK /\ enabled /\ phase = "loop" /\ inService = {} /\ q \in Irqs /\ q # Cascade
      /\ \A i \in DOMAIN stack : ~IsIrq(stack[i]) /\ stack[i].at = "entry"
  BY LinesAssumption DEF IInv, QuietInv, Deliver
<1>2. PICK v \in {32 + q, 32 + Spurious(q)} :
        /\ Enter(v)
        /\ \/ v = 32 + q /\ inService' = {q, Through(q)}
           \/ v = 32 + Spurious(q) /\ inService' = {Through(q)} \cap {Cascade}
  BY <1>1 DEF Deliver
<1>3. v \in Vectors /\ v >= 32 /\ v - 32 \in Irqs /\ v \notin Exceptions
  BY <1>1 DEF Spurious, Irqs, Slave, Vectors, Exceptions
<1>4. Held([vector |-> v, at |-> "entry", flag |-> enabled], inService') /\ inService' \subseteq Irqs
  <2>1. CASE q \in Slave
    <3>1. Through(q) = Cascade /\ Spurious(q) = 15 /\ q >= 8 /\ Cascade \in Irqs
      BY <2>1 DEF Through, Spurious, Slave, Cascade, Irqs
    <3>2. CASE v = 32 + q /\ inService' = {q, Cascade}
      <4>1. v >= 40 /\ v - 32 = q
        BY <1>1, <3>1, <3>2 DEF Irqs
      <4>2. inService' = {v - 32, Cascade} /\ ~(v < 40)
        BY <1>1, <3>2, <4>1 DEF Irqs
      <4>3. Held([vector |-> v, at |-> "entry", flag |-> enabled], inService')
        BY <4>2 DEF Held
      <4> QED
        BY <1>1, <3>1, <3>2, <4>3
    <3>3. CASE v = 47 /\ inService' = {Cascade}
      BY <3>1, <3>3 DEF Held
    <3> QED
      BY <1>2, <3>1, <3>2, <3>3
  <2>2. CASE q \notin Slave
    <3>1. Through(q) = q /\ Spurious(q) = 7 /\ q < 8 /\ q # Cascade
      BY <1>1, <2>2 DEF Through, Spurious, Slave, Irqs
    <3>2. CASE v = 32 + q /\ inService' = {q}
      <4>1. v < 40 /\ v - 32 = q
        BY <1>1, <3>1, <3>2 DEF Irqs
      <4> QED
        BY <1>1, <3>2, <4>1 DEF Held
    <3>3. CASE v = 39 /\ inService' = {}
      BY <3>3 DEF Held
    <3> QED
      BY <1>2, <3>1, <3>2, <3>3
  <2> QED
    BY <2>1, <2>2
<1>5. /\ stack' \in Seq(Context) /\ Len(stack') = Len(stack) + 1
      /\ stack'[1] = [vector |-> v, at |-> "entry", flag |-> enabled]
      /\ \A i \in 1 .. Len(stack) : stack'[i + 1] = stack[i]
      /\ Len(stack') <= MaxDepth
  BY <1>1, <1>2, <1>3, Pushing
<1>6. Len(stack) \in Nat /\ DOMAIN stack = 1 .. Len(stack) /\ DOMAIN stack' = 1 .. (Len(stack) + 1)
  BY <1>1, <1>5, LenProperties DEF TypeOK
<1>7. \A i \in DOMAIN stack' : i # 1 => ~IsIrq(stack'[i]) /\ stack'[i].at = "entry"
  <2> SUFFICES ASSUME NEW i \in DOMAIN stack', i # 1 PROVE ~IsIrq(stack'[i]) /\ stack'[i].at = "entry"
    OBVIOUS
  <2>1. i - 1 \in DOMAIN stack /\ stack'[i] = stack[i - 1]
    BY <1>5, <1>6
  <2> QED
    BY <1>1, <2>1
<1>8. enabled' = FALSE /\ crashed' = FALSE
  <2>1. idt[v] = "Interrupt"
    <3>1. v = 32 + (v - 32)
      BY <1>3 DEF Vectors
    <3>2. \A p \in Irqs : idt[32 + p] = "Interrupt"
      BY <1>1 DEF IInv, GateInv
    <3> QED
      BY <1>3, <3>1, <3>2
  <2> QED
    BY <1>2, <2>1 DEF Enter
<1>9. TypeOK'
  <2>1. requests' \subseteq Lines
    BY <1>1 DEF TypeOK, Deliver
  <2>2. enabled' \in BOOLEAN /\ crashed' \in BOOLEAN
    BY <1>8
  <2> QED
    BY <1>1, <1>4, <1>5, <2>1, <2>2, Zenon DEF TypeOK, Deliver
<1>10. GateInv'
  BY <1>8 DEF IInv, GateInv, Deliver
<1>11. IrqInv(1)'
  BY <1>1, <1>4, <1>5, <1>6, <1>7, <1>8 DEF IrqInv, IsIrq, OfIrqs, Deliver
<1>12. StackInv'
  BY <1>3, <1>5, <1>7, <1>11 DEF StackInv, IsIrq, OfExceptions
<1>13. QuietInv'
  <2>1. IsIrq(stack'[1]) /\ 1 \in DOMAIN stack'
    BY <1>3, <1>5, <1>6 DEF IsIrq
  <2> QED
    BY <1>8, <2>1 DEF QuietInv, IsIrq
<1> QED
  BY <1>9, <1>10, <1>12, <1>13 DEF IInv

(* The end of an IRQ's handler. *)
LEMMA IretqStep == IInv /\ Iretq => IInv'
<1> SUFFICES ASSUME IInv, Iretq PROVE IInv'
  OBVIOUS
<1>1. stack \in Seq(Context) /\ stack # <<>> /\ Head(stack) = stack[1] /\ stack[1].at = "return" /\ TypeOK
      /\ Len(stack) \in Nat \ {0} /\ DOMAIN stack = 1 .. Len(stack)
  BY EmptySeq DEF IInv, TypeOK, Iretq, At
<1>2. /\ stack' \in Seq(Context) /\ Len(stack') = Len(stack) - 1
      /\ \A i \in 1 .. Len(stack') : stack'[i] = stack[i + 1]
  BY <1>1, HeadTailProperties DEF Iretq
<1>3. IrqInv(1)
  BY <1>1 DEF IInv, StackInv, OfExceptions
<1>4. DOMAIN stack' = 1 .. (Len(stack) - 1)
  BY <1>1, <1>2, LenProperties
<1>5. \A i \in DOMAIN stack' : ~IsIrq(stack'[i]) /\ stack'[i].at = "entry"
  <2> SUFFICES ASSUME NEW i \in DOMAIN stack' PROVE ~IsIrq(stack'[i]) /\ stack'[i].at = "entry"
    OBVIOUS
  <2>1. stack'[i] = stack[i + 1] /\ i + 1 \in DOMAIN stack /\ i + 1 # 1 /\ i + 1 > 1
    BY <1>1, <1>2, <1>4
  <2> QED
    BY <1>3, <2>1 DEF IrqInv
<1>6. inService' = {} /\ phase' = "loop"
  BY <1>1, <1>3 DEF IrqInv, Held, Iretq, controllers
<1>7. TypeOK'
  <2>1. Len(stack') <= MaxDepth
    BY <1>1, <1>2, LinesAssumption DEF TypeOK
  <2>2. enabled' \in BOOLEAN
    <3>1. stack[1] \in Context
      BY <1>1, ElementOfSeq
    <3> QED
      BY <1>1, <3>1 DEF Iretq, Context
  <2> QED
    BY <1>1, <1>2, <2>1, <2>2, Zenon DEF TypeOK, Iretq, controllers
<1>8. GateInv'
  BY DEF IInv, GateInv, Iretq
<1>9. StackInv'
  BY <1>5 DEF StackInv, IsIrq, OfExceptions
<1>10. QuietInv'
  BY <1>5, <1>6 DEF QuietInv, IsIrq
<1> QED
  BY <1>7, <1>8, <1>9, <1>10 DEF IInv

LEMMA RaiseStep == ASSUME IInv, NEW q \in Lines, Raise(q) PROVE IInv'
<1>1. TypeOK'
  <2>1. requests' \subseteq Lines
    BY DEF IInv, TypeOK, Raise
  <2> QED
    BY <2>1, Zenon DEF IInv, TypeOK, Raise
<1> QED
  BY <1>1 DEF IInv, GateInv, StackInv, QuietInv, IrqInv, IsIrq, Raise

(* An EOI at its place ends what the handler is for, if anything. *)
LEMMA HandlerStep == IInv /\ (Cli \/ Halt \/ Dispatch \/ EoiSlave \/ EoiMaster) => IInv'
<1> SUFFICES ASSUME IInv, Cli \/ Halt \/ Dispatch \/ EoiSlave \/ EoiMaster PROVE IInv'
  OBVIOUS
<1>1. stack # <<>> /\ stack \in Seq(Context) /\ Head(stack) = stack[1] /\ 1 \in DOMAIN stack /\ stack[1] \in Context
  <2>1. stack # <<>> /\ stack \in Seq(Context) /\ Head(stack) = stack[1]
    BY DEF IInv, TypeOK, Cli, Halt, Dispatch, EoiSlave, EoiMaster, At
  <2>2. Len(stack) \in Nat \ {0}
    BY <2>1, EmptySeq
  <2> QED
    BY <2>1, <2>2, ElementOfSeq
<1>2. /\ IsIrq(stack[1]) => IrqInv(1)
      /\ ~IsIrq(stack[1]) => stack[1].at \in OfExceptions
  BY <1>1 DEF IInv, StackInv
<1>3. inService \subseteq Irqs
  BY DEF IInv, TypeOK
<1>4. ASSUME NEW p \in OfIrqs
      PROVE  /\ [stack[1] EXCEPT !.at = p].at = p
             /\ [stack[1] EXCEPT !.at = p].vector = stack[1].vector
  BY <1>1 DEF Context
<1>5. stack[1].vector \in Vectors
  BY <1>1 DEF Context
<1>6. CASE Cli
  <2>1. CASE IsIrq(stack[1])
    <3>1. "dispatch" \in OfIrqs /\ Goto("dispatch") /\ enabled' = FALSE /\ stack[1].at = "entry"
          /\ UNCHANGED <<phase, idt, requests, crashed, inService>>
      BY <1>1, <1>6, <2>1 DEF Cli, At, OfIrqs, controllers
    <3>2. Held([stack[1] EXCEPT !.at = "dispatch"], inService')
      BY <1>2, <1>4, <2>1, <3>1 DEF IrqInv, Held
    <3> QED
      BY <1>1, <1>3, <2>1, <3>1, <3>2, IrqGoes
  <2>2. CASE ~IsIrq(stack[1])
    <3>1. "print" \in {"print", "halted"} /\ Goto("print") /\ enabled' = FALSE
          /\ UNCHANGED <<phase, idt, controllers, crashed>>
      BY <1>1, <1>6, <2>2 DEF Cli
    <3> QED
      BY <1>1, <2>2, <3>1, ExceptionGoes
  <2> QED
    BY <2>1, <2>2
<1>7. CASE Halt
  <2>1. "halted" \in {"print", "halted"} /\ Goto("halted") /\ enabled' = FALSE /\ ~IsIrq(stack[1])
        /\ UNCHANGED <<phase, idt, controllers, crashed>>
    BY <1>1, <1>2, <1>7 DEF Halt, At, IrqInv, OfIrqs
  <2> QED
    BY <1>1, <2>1, ExceptionGoes
<1>8. CASE Dispatch
  <2>1. IsIrq(stack[1]) /\ stack[1].at = "dispatch"
    BY <1>1, <1>2, <1>8 DEF Dispatch, At, OfExceptions
  <2>2. PICK p \in {"slave", "master"} : Goto(p) /\ (p = "slave" <=> stack[1].vector >= 40)
    BY <1>1, <1>8 DEF Dispatch
  <2>3. p \in OfIrqs /\ enabled' = FALSE /\ UNCHANGED <<phase, idt, requests, crashed, inService>>
    <3>1. enabled = FALSE
      BY <1>2, <2>1 DEF IrqInv, IInv, TypeOK
    <3> QED
      BY <1>8, <3>1 DEF Dispatch, OfIrqs, controllers
  <2>4. Held([stack[1] EXCEPT !.at = p], inService')
    <3>1. stack[1].vector \in Int
      BY <1>5 DEF Vectors
    <3> QED
      BY <1>2, <1>4, <2>1, <2>2, <2>3, <3>1 DEF IrqInv, Held
  <2> QED
    BY <1>1, <1>3, <2>1, <2>2, <2>3, <2>4, IrqGoes
<1>9. CASE EoiSlave
  <2>1. IsIrq(stack[1]) /\ stack[1].at = "slave"
    BY <1>1, <1>2, <1>9 DEF EoiSlave, At, OfExceptions
  <2>2. "master" \in OfIrqs /\ Goto("master") /\ enabled' = FALSE /\ UNCHANGED <<phase, idt, requests, crashed>>
    <3>1. enabled = FALSE
      BY <1>2, <2>1 DEF IrqInv, IInv, TypeOK
    <3> QED
      BY <1>9, <3>1 DEF EoiSlave, OfIrqs
  <2>3. stack[1].vector \in 40 .. 47
    BY <1>2, <1>5, <2>1 DEF IrqInv, Vectors
  <2>4. inService' = {Cascade} /\ inService' \subseteq Irqs
    BY <1>2, <1>9, <2>1, <2>3 DEF IrqInv, Held, EoiSlave, Ended, Slave, Cascade, Irqs
  <2>5. Held([stack[1] EXCEPT !.at = "master"], inService')
    BY <1>4, <2>2, <2>3, <2>4 DEF Held
  <2> QED
    BY <1>1, <2>1, <2>2, <2>4, <2>5, IrqGoes
<1>10. CASE EoiMaster
  <2>1. IsIrq(stack[1]) /\ stack[1].at = "master"
    BY <1>1, <1>2, <1>10 DEF EoiMaster, At, OfExceptions
  <2>2. "return" \in OfIrqs /\ Goto("return") /\ enabled' = FALSE /\ UNCHANGED <<phase, idt, requests, crashed>>
    <3>1. enabled = FALSE
      BY <1>2, <2>1 DEF IrqInv, IInv, TypeOK
    <3> QED
      BY <1>10, <3>1 DEF EoiMaster, OfIrqs
  <2>3. stack[1].vector \in 32 .. 47
    BY <1>5, <2>1 DEF IsIrq, Exceptions, Vectors
  <2>4. inService' = {}
    BY <1>2, <1>10, <2>1, <2>3 DEF IrqInv, Held, EoiMaster, Ended, Master, Cascade
  <2>5. Held([stack[1] EXCEPT !.at = "return"], inService')
    BY <1>4, <2>2, <2>4 DEF Held
  <2> QED
    BY <1>1, <2>1, <2>2, <2>4, <2>5, IrqGoes
<1> QED
  BY <1>6, <1>7, <1>8, <1>9, <1>10

LEMMA NextInv == IInv /\ [Next]_vars => IInv'
<1> SUFFICES ASSUME IInv, [Next]_vars PROVE IInv'
  OBVIOUS
<1>1. CASE UNCHANGED vars
  <2>1. TypeOK'
    BY <1>1, Zenon DEF IInv, TypeOK, vars, controllers
  <2> QED
    BY <1>1, <2>1 DEF IInv, GateInv, StackInv, QuietInv, IrqInv, IsIrq, vars, controllers
<1>2. CASE Processor
  BY <1>2, KmainStep, HandlerStep, IretqStep, DeliverStep DEF Processor
<1>3. CASE Devices
  BY <1>3, RaiseStep DEF Devices
<1>4. CASE \E v \in Faults : Fault(v)
  BY <1>4, FaultStep
<1> QED
  BY <1>1, <1>2, <1>3, <1>4 DEF Next

LEMMA AlwaysIInv == Spec => []IInv
  BY InitInv, NextInv, PTL DEF Spec

-----------------------------------------------------------------------------
(* The theorems. *)

(* The stack holds contexts only, and no more than its bound.               *)
THEOREM InterruptsTypeCorrect == Spec => []TypeOK
<1>1. IInv => TypeOK
  BY DEF IInv
<1> QED
  BY <1>1, AlwaysIInv, PTL

(* Whatever interrupts whenever, once Isr::install has run there is a gate. *)
THEOREM GatesThere == Spec => []GatesComplete
<1>1. IInv => GatesComplete
  BY DEF IInv, GateInv, GatesComplete
<1> QED
  BY <1>1, AlwaysIInv, PTL

(* An IRQ's handler interrupts neither another one nor an exception that is *)
(* past its cli, for any devices and exceptions, however deep the stack is. *)
THEOREM NoIrqOnTop == Spec => []HandlersUndisturbed
<1>1. IInv => HandlersUndisturbed
  <2> SUFFICES ASSUME IInv, NEW i \in DOMAIN stack, NEW j \in DOMAIN stack, i < j, IsIrq(stack[i])
               PROVE  ~IsIrq(stack[j]) /\ stack[j].at \notin {"print", "halted"}
    BY DEF HandlersUndisturbed
  <2>1. IrqInv(i)
    BY DEF IInv, StackInv
  <2>2. j # i /\ j > i
    BY DEF IInv, TypeOK
  <2> QED
    BY <2>1, <2>2 DEF IrqInv
<1> QED
  BY <1>1, AlwaysIInv, PTL

(* Every interrupt has been acknowledged at every controller it came by     *)
(* when interrupts are on and none is handled.                              *)
THEOREM NothingLeftInService == Spec => []AllAcknowledged
<1>1. IInv => AllAcknowledged
  BY DEF IInv, QuietInv, AllAcknowledged
<1> QED
  BY <1>1, AlwaysIInv, PTL

(* No EOI, not even one for a spurious interrupt, ends what another handler *)
(* deals with.                                                              *)
THEOREM EoisAreOurs == Spec => EoiIsOurs
<1> DEFINE Ours == \A q \in inService \ (inService' \cup {Cascade}) :
                     phase = "loop" => Head(stack).vector = 32 + q
<1>1. IInv /\ [Next]_vars => [Ours]_vars
  <2> SUFFICES ASSUME IInv, Next, NEW q \in inService \ (inService' \cup {Cascade}), phase = "loop"
               PROVE  Head(stack).vector = 32 + q
    OBVIOUS
  <2>1. EoiSlave \/ EoiMaster
    BY Zenon DEF Next, Processor, Devices, IdtInstall, IsrInstall, IrqInstall, Sti, Cli, Halt, Dispatch,
                 Iretq, Deliver, Raise, Fault, controllers
  <2>2. stack # <<>> /\ stack \in Seq(Context) /\ Head(stack) = stack[1] /\ 1 \in DOMAIN stack
    BY <2>1, EmptySeq DEF IInv, TypeOK, EoiSlave, EoiMaster, At
  <2>3. IrqInv(1) /\ stack[1].at \in {"slave", "master"}
    BY <2>1, <2>2 DEF IInv, StackInv, OfExceptions, EoiSlave, EoiMaster, At
  <2>4. stack[1].vector \in Int
    <3>1. stack[1] \in Context
      BY <2>2, ElementOfSeq
    <3> QED
      BY <3>1 DEF Context, Vectors
  <2>5. q \in Irqs
    BY DEF IInv, TypeOK
  <2> QED
    BY <2>2, <2>3, <2>4, <2>5 DEF IrqInv, Held, Irqs
<1> QED
  BY <1>1, AlwaysIInv, PTL DEF Spec, EoiIsOurs
===============================================================================
