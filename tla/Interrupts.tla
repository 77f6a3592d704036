------------------------------ MODULE Interrupts ------------------------------
(***************************************************************************)
(* Interrupts in the kernel (kernel/src/idt.cpp, isr.cpp, irq.cpp and the  *)
(* stubs in isr.asm and irq.asm) on the one processor that runs kmain:     *)
(* kmain fills the interrupt descriptor table, moves the two interrupt     *)
(* controllers to vectors 32 to 47 and enables interrupts; from then on a  *)
(* device interrupts it, or an exception does, between any two steps.      *)
(*                                                                         *)
(* The controllers are the 8259s of a PC: a request is taken when nothing  *)
(* of its priority or above is in service, and stays in service until an   *)
(* end-of-interrupt (EOI) clears the most urgent one of that controller.   *)
(* A request that goes away too late shows as IRQ 7 or 15, not in service. *)
(***************************************************************************)
EXTENDS Integers, Sequences

CONSTANTS
  Lines,       \* IRQs that devices raise
  Faults,      \* exceptions that can happen
  MaxDepth     \* bound on contexts on the stack

Irqs == 0 .. 15
Cascade == 2
Slave == 8 .. 15
Master == 0 .. 7
Exceptions == 0 .. 31
Vectors == 0 .. 47
GateTypes == {"none", "Interrupt", "Trap"}

ASSUME LinesAssumption ==
  Lines \subseteq Irqs \ {Cascade} /\ Faults \subseteq Exceptions /\ MaxDepth \in Nat

VARIABLES
  phase,       \* how far kmain is
  idt,         \* type of every gate
  enabled,     \* the interrupt flag
  stack,       \* what the processor is in, the latest first
  requests,    \* IRQs the controllers hold
  inService,   \* IRQs not yet acknowledged
  crashed      \* an interrupt came for which there is no gate

controllers == <<requests, inService>>
vars == <<phase, idt, enabled, stack, controllers, crashed>>

Places == {"entry", "print", "dispatch", "slave", "master", "return", "halted"}
Context == [vector : Vectors, at : Places, flag : BOOLEAN]

TypeOK ==
  /\ phase \in {"idt", "isr", "irq", "sti", "loop"}
  /\ idt \in [Vectors -> GateTypes]
  /\ enabled \in BOOLEAN
  /\ stack \in Seq(Context) /\ Len(stack) <= MaxDepth
  /\ requests \subseteq Lines
  /\ inService \subseteq Irqs
  /\ crashed \in BOOLEAN

Init ==
  /\ phase = "idt"
  /\ idt = [v \in Vectors |-> "none"]
  /\ enabled = FALSE
  /\ stack = <<>>
  /\ requests = {}
  /\ inService = {}
  /\ crashed = FALSE

IsIrq(context) == context.vector \notin Exceptions

(* The code runs in kmain, or in the latest context. *)
InKmain == stack = <<>> /\ ~crashed
At(place) == stack # <<>> /\ ~crashed /\ Head(stack).at = place
Goto(place) == stack' = <<[Head(stack) EXCEPT !.at = place]>> \o Tail(stack)

-----------------------------------------------------------------------------
(* kmain *)

IdtInstall ==
  /\ InKmain /\ phase = "idt" /\ phase' = "isr"
  /\ UNCHANGED <<idt, enabled, stack, controllers, crashed>>

(* Isr::install *)
IsrInstall ==
  /\ InKmain /\ phase = "isr" /\ phase' = "irq"
  /\ idt' = [v \in Vectors |-> IF v \in Exceptions THEN "Trap" ELSE idt[v]]
  /\ UNCHANGED <<enabled, stack, controllers, crashed>>

(* Mutants of IrqInstall: trap gates, as for the exceptions; the second     *)
(* controller's gates are forgotten.                                        *)
IrqInstallTrap ==
  /\ InKmain /\ phase = "irq" /\ phase' = "sti"
  /\ requests' = {} /\ inService' = {}
  /\ idt' = [v \in Vectors |-> IF v - 32 \in Irqs THEN "Trap" ELSE idt[v]]
  /\ UNCHANGED <<enabled, stack, crashed>>

IrqInstallHalf ==
  /\ InKmain /\ phase = "irq" /\ phase' = "sti"
  /\ requests' = {} /\ inService' = {}
  /\ idt' = [v \in Vectors |-> IF v - 32 \in Master THEN "Interrupt" ELSE idt[v]]
  /\ UNCHANGED <<enabled, stack, crashed>>

(* Irq::Install: irq_remap starts the controllers anew and unmasks all. *)
IrqInstall ==
  /\ InKmain /\ phase = "irq" /\ phase' = "sti"
  /\ requests' = {} /\ inService' = {}
  /\ idt' = [v \in Vectors |-> IF v - 32 \in Irqs THEN "Interrupt" ELSE idt[v]]
  /\ UNCHANGED <<enabled, stack, crashed>>

Sti ==
  /\ InKmain /\ phase = "sti" /\ phase' = "loop"
  /\ enabled' = TRUE
  /\ UNCHANGED <<idt, stack, controllers, crashed>>

-----------------------------------------------------------------------------
(* The processor and the controllers. *)

(* An interrupt gate clears the interrupt flag, a trap gate leaves it; with *)
(* no gate the processor resets.                                            *)
Enter(vector) ==
  /\ Len(stack) < MaxDepth
  /\ stack' = <<[vector |-> vector, at |-> "entry", flag |-> enabled]>> \o stack
  /\ enabled' = (enabled /\ idt[vector] = "Trap")
  /\ crashed' = (idt[vector] = "none")

(* A controller holds one request of a device, however often it raises it. *)
Raise(q) ==
  /\ requests' = requests \cup {q}
  /\ UNCHANGED <<phase, idt, enabled, stack, inService, crashed>>

(* The second controller is the first one's IRQ 2. *)
Through(q) == IF q \in Slave THEN Cascade ELSE q
Rank(q) == 16 * Through(q) + q
Spurious(q) == IF q \in Slave THEN 15 ELSE 7

(* Nothing as urgent is in service at the controllers q goes through. *)
Takes(q) ==
  \A p \in inService : IF p \in Slave THEN q \in Slave => q < p ELSE Through(q) < p

(* The controllers offer the most urgent request they may. *)
Outranked(q) == \E p \in requests : Takes(p) /\ Rank(p) < Rank(q)

Deliver(q) ==
  /\ enabled /\ ~crashed /\ phase = "loop"
  /\ q \in requests /\ Takes(q) /\ ~Outranked(q)
  /\ requests' = requests \ {q}
  /\ \/ Enter(32 + q) /\ inService' = inService \cup {q, Through(q)}
     \/ Enter(32 + Spurious(q)) /\ inService' = inService \cup ({Through(q)} \cap {Cascade})
  /\ UNCHANGED <<phase, idt>>

(* An exception, also of kmain before there are gates for it. *)
Fault(v) ==
  /\ ~crashed /\ ~At("halted")
  /\ Enter(v)
  /\ UNCHANGED <<phase, idt, controllers>>

-----------------------------------------------------------------------------
(* The stubs, irq_dispatcher and isr_handler. *)

(* Mutant of Cli: the stubs leave the flag alone. *)
CliNot ==
  /\ At("entry")
  /\ UNCHANGED enabled
  /\ Goto(IF IsIrq(Head(stack)) THEN "dispatch" ELSE "print")
  /\ UNCHANGED <<phase, idt, controllers, crashed>>

(* Both stubs start with cli. *)
Cli ==
  /\ At("entry")
  /\ enabled' = FALSE
  /\ Goto(IF IsIrq(Head(stack)) THEN "dispatch" ELSE "print")
  /\ UNCHANGED <<phase, idt, controllers, crashed>>

(* isr_handler prints, and halts for good. *)
Halt ==
  /\ At("print")
  /\ enabled' = FALSE
  /\ Goto("halted")
  /\ UNCHANGED <<phase, idt, controllers, crashed>>

(* Mutant of Dispatch: the comment's "greater than 40". *)
DispatchAbove40 ==
  /\ At("dispatch")
  /\ Goto(IF Head(stack).vector > 40 THEN "slave" ELSE "master")
  /\ UNCHANGED <<phase, idt, enabled, controllers, crashed>>

(* irq_dispatcher; kmain installs no routine of its own. *)
Dispatch ==
  /\ At("dispatch")
  /\ Goto(IF Head(stack).vector >= 40 THEN "slave" ELSE "master")
  /\ UNCHANGED <<phase, idt, enabled, controllers, crashed>>

(* An EOI ends what is most urgent. *)
Ended(chip) == {q \in inService \cap chip : \A p \in inService \cap chip : q <= p}

(* Mutant of EoiSlave: an IRQ of the second controller gets only that EOI. *)
EoiSlaveOnly ==
  /\ At("slave")
  /\ Goto("return")
  /\ inService' = inService \ Ended(Slave)
  /\ UNCHANGED <<phase, idt, enabled, requests, crashed>>

EoiSlave ==
  /\ At("slave")
  /\ Goto("master")
  /\ inService' = inService \ Ended(Slave)
  /\ UNCHANGED <<phase, idt, enabled, requests, crashed>>

EoiMaster ==
  /\ At("master")
  /\ Goto("return")
  /\ inService' = inService \ Ended(Master)
  /\ UNCHANGED <<phase, idt, enabled, requests, crashed>>

Iretq ==
  /\ At("return")
  /\ stack' = Tail(stack)
  /\ enabled' = Head(stack).flag
  /\ UNCHANGED <<phase, idt, controllers, crashed>>

-----------------------------------------------------------------------------

Processor ==
  \/ IdtInstall \/ IsrInstall \/ IrqInstall \/ Sti
  \/ Cli \/ Halt \/ Dispatch \/ EoiSlave \/ EoiMaster \/ Iretq
  \/ \E q \in Lines : Deliver(q)

Devices == \E q \in Lines : Raise(q)

Next == Processor \/ Devices \/ \E v \in Faults : Fault(v)

(* The processor executes, and takes an interrupt when it can. *)
Spec == Init /\ [][Next]_vars
FairSpec == Spec /\ WF_vars(Processor)

-----------------------------------------------------------------------------

(* Once Isr::install has run nothing comes for which there is no gate: what *)
(* happens before it resets the machine, and every IRQ waits for the sti.   *)
GatesComplete == crashed => phase \in {"idt", "isr"}

(* IRQ handlers do not nest, though they need not be alone on the stack:    *)
(* one may come before the cli of an exception, and an exception in it.     *)
(* From its cli on no IRQ interrupts the handler of an exception either,    *)
(* nor the machine it halts: what it prints stays the last on the screen.   *)
HandlersUndisturbed ==
  \A i, j \in DOMAIN stack :
    (i < j /\ IsIrq(stack[i])) => ~IsIrq(stack[j]) /\ stack[j].at \notin {"print", "halted"}

(* Whenever interrupts are on and no IRQ is being handled, nothing is left  *)
(* in service, spurious interrupts included: an EOI has been sent to every  *)
(* controller that waits for one.                                          *)
AllAcknowledged ==
  (enabled /\ \A i \in DOMAIN stack : ~IsIrq(stack[i])) => inService = {}

(* An EOI never ends an interrupt that another handler is dealing with, a   *)
(* spurious interrupt, which gets an EOI though it needs none, included.    *)
EoiIsOurs ==
  [][\A q \in inService \ (inService' \cup {Cascade}) :
       phase = "loop" => Head(stack).vector = 32 + q]_vars

(* No request of the most urgent device waits for ever, unless an exception *)
(* halts the machine: whatever was in service before, the EOIs let the      *)
(* controllers offer it.                                                    *)
MostUrgentServed ==
  \A q \in Lines :
    (\A p \in Lines : Rank(q) <= Rank(p)) =>
      (phase = "loop" /\ q \in requests)
        ~> (q \notin requests \/ \E i \in DOMAIN stack : ~IsIrq(stack[i]))
=============================================================================
