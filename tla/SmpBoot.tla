------------------------------- MODULE SmpBoot -------------------------------
(***************************************************************************)
(* How the processors come up: the bootstrap processor (BSP) runs the      *)
(* loader, copies the trampoline below 1MB, sends INIT and one STARTUP to  *)
(* all others and waits for them, gives the trampoline's page back, loads  *)
(* the kernel and opens a gate; the application processors (APs) run the   *)
(* trampoline, wait at the gate and follow.  In the kernel the first one   *)
(* to arrive, whichever it is, runs kmain and the others halt.             *)
(*                                                                         *)
(* Between two steps of one processor any steps of the others may happen.  *)
(* A start-up message may be late, or never arrive.                        *)
(***************************************************************************)
EXTENDS Integers, FiniteSets

CONSTANTS
  Bsp,         \* the processor the boot loader started
  Aps,         \* the other processors
  Listed,      \* local APIC entries of the MADT, disabled ones included
  Patience,    \* polls of cpu_count before the BSP gives up: 0xffffff
  Entry        \* address of the kernel's entry point

Cpus == Aps \cup {Bsp}
NoAddress == 0

ASSUME CpusAssumption == IsFiniteSet(Aps) /\ Bsp \notin Aps
ASSUME NumbersAssumption ==
  /\ Listed \in Nat
  /\ Patience \in Nat
  /\ Entry \in Nat \ {0}

VARIABLES
  pc,             \* what every processor does next
  lent,           \* the trampoline's page is allocated
  page,           \* what the page holds: "unset", "trampoline" or "other"
  cpu_count,      \* Trampoline::cpu_count, in the page
  counter,        \* polls the BSP has left
  sipi,           \* the STARTUP message was sent
  KernelAddress,  \* where the gate leads
  KernelReady,    \* the gate is open
  target,         \* ebx of every processor: the address it jumps to
  g_cpu_count,    \* processors the kernel has seen
  old_count,      \* kmain's local copy of g_cpu_count
  shown           \* the count on the screen: what printf was given last

bootVars == <<lent, page, cpu_count, counter, sipi>>
gateVars == <<KernelAddress, KernelReady>>
kernelVars == <<g_cpu_count, old_count, shown>>
vars == <<pc, bootVars, gateVars, target, kernelVars>>

(* Places in the code.  An AP in InPage fetches its next instruction, its   *)
(* far pointer or a segment descriptor from the trampoline's page.  In      *)
(* kmain a processor is before the first copy of the count ("main"), prints *)
(* its copy ("print"), compares the two ("poll"), or has found them         *)
(* different and is to copy again ("copy").                                 *)
BspOnly == {"madt", "prepare", "ipi", "wait", "free", "load", "address", "ready", "stopped"}
InPage == {"start", "counted", "gdt", "segments"}
ApOnly == InPage \cup {"off", "gate", "lost"}
Running == {"main", "print", "poll", "copy"}
InKernel == Running \cup {"parked"}
Anyone == {"paging", "jump"} \cup InKernel

TypeOK ==
  /\ pc \in [Cpus -> BspOnly \cup ApOnly \cup Anyone]
  /\ lent \in BOOLEAN
  /\ page \in {"unset", "trampoline", "other"}
  /\ cpu_count \in Nat
  /\ counter \in 0 .. Patience
  /\ sipi \in BOOLEAN
  /\ KernelAddress \in {NoAddress, Entry}
  /\ KernelReady \in BOOLEAN
  /\ target \in [Cpus -> {NoAddress, Entry}]
  /\ g_cpu_count \in Nat
  /\ old_count \in Nat
  /\ shown \in Nat

Init ==
  /\ pc = [c \in Cpus |-> IF c = Bsp THEN "madt" ELSE "off"]
  /\ lent = FALSE
  /\ page = "unset"
  /\ cpu_count = 0
  /\ counter = Patience
  /\ sipi = FALSE
  /\ KernelAddress = NoAddress
  /\ KernelReady = FALSE
  /\ target = [c \in Cpus |-> NoAddress]
  /\ g_cpu_count = 0
  /\ old_count = 0
  /\ shown = 0

At(c, here) == pc[c] = here
Goto(c, there) == pc' = [pc EXCEPT ![c] = there]

-----------------------------------------------------------------------------
(* The bootstrap processor: Acpi::ParseMadt. *)

(* No processor listed, or no trampoline.bin in the ram disk. *)
SkipAps ==
  /\ At(Bsp, "madt")
  /\ Goto(Bsp, "load")
  /\ UNCHANGED <<bootVars, gateVars, target, kernelVars>>

FindTrampoline ==
  /\ At(Bsp, "madt")
  /\ Listed > 0
  /\ Goto(Bsp, "prepare")
  /\ lent' = TRUE
  /\ UNCHANGED <<page, cpu_count, counter, sipi, gateVars, target, kernelVars>>

(* Copy the code, count the BSP, fill in the GDT's address and the far      *)
(* pointer.                                                                 *)
PrepareTrampoline ==
  /\ At(Bsp, "prepare")
  /\ Goto(Bsp, "ipi")
  /\ page' = "trampoline"
  /\ cpu_count' = 1
  /\ UNCHANGED <<lent, counter, sipi, gateVars, target, kernelVars>>

(* INIT, then STARTUP, to all but self.  SendApicCommand gives up polling   *)
(* the delivery bit after 65535 reads, so it always returns.                *)
SendIpis ==
  /\ At(Bsp, "ipi")
  /\ Goto(Bsp, "wait")
  /\ sipi' = TRUE
  /\ UNCHANGED <<lent, page, cpu_count, counter, gateVars, target, kernelVars>>

(* Mutants of PollCount: the polls are not counted; the BSP does not wait   *)
(* for itself.                                                              *)
PollUncounted ==
  /\ At(Bsp, "wait")
  /\ cpu_count = Listed
  /\ Goto(Bsp, "free")
  /\ UNCHANGED <<lent, page, cpu_count, counter, sipi, gateVars, target, kernelVars>>

PollOneLess ==
  /\ At(Bsp, "wait")
  /\ IF cpu_count = Listed - 1 \/ counter = 0
     THEN Goto(Bsp, "free") /\ UNCHANGED counter
     ELSE counter' = counter - 1 /\ UNCHANGED pc
  /\ UNCHANGED <<lent, page, cpu_count, sipi, gateVars, target, kernelVars>>

(* One turn of the waiting loop. *)
PollCount ==
  /\ At(Bsp, "wait")
  /\ IF cpu_count = Listed \/ counter = 0
     THEN Goto(Bsp, "free") /\ UNCHANGED counter
     ELSE counter' = counter - 1 /\ UNCHANGED pc
  /\ UNCHANGED <<lent, page, cpu_count, sipi, gateVars, target, kernelVars>>

FreeTrampoline ==
  /\ At(Bsp, "free")
  /\ Goto(Bsp, "load")
  /\ lent' = FALSE
  /\ UNCHANGED <<page, cpu_count, counter, sipi, gateVars, target, kernelVars>>

-----------------------------------------------------------------------------
(* The bootstrap processor: loading the kernel and opening the gate. *)

(* Elf::Load allocates segments and page tables.  Alloc searches its table  *)
(* from the end, where the row of the trampoline was added, so the page is  *)
(* among the first to be lent again, and cleared or copied over.            *)
ReusePage ==
  /\ At(Bsp, "load")
  /\ ~lent
  /\ page' = "other"
  /\ UNCHANGED <<pc, lent, cpu_count, counter, sipi, gateVars, target, kernelVars>>

(* Mutant of LoadKernel: the gate opens before the address is stored. *)
LoadKernelReady ==
  /\ At(Bsp, "load")
  /\ Goto(Bsp, "address")
  /\ KernelReady' = TRUE
  /\ UNCHANGED <<bootVars, KernelAddress, target, kernelVars>>

LoadKernel ==
  /\ At(Bsp, "load")
  /\ Goto(Bsp, "address")
  /\ UNCHANGED <<bootVars, gateVars, target, kernelVars>>

(* kmain returned 0: no kernel.bin, not an ELF64 file, no memory. *)
KernelNotLoaded ==
  /\ At(Bsp, "load")
  /\ Goto(Bsp, "stopped")
  /\ UNCHANGED <<bootVars, gateVars, target, kernelVars>>

StoreAddress ==
  /\ At(Bsp, "address")
  /\ Goto(Bsp, "ready")
  /\ KernelAddress' = Entry
  /\ UNCHANGED <<bootVars, KernelReady, target, kernelVars>>

OpenGate ==
  /\ At(Bsp, "ready")
  /\ Goto(Bsp, "paging")
  /\ KernelReady' = TRUE
  /\ UNCHANGED <<bootVars, KernelAddress, target, kernelVars>>

-----------------------------------------------------------------------------
(* An application processor. *)

(* It gets the STARTUP message, at any time after it was sent. *)
Start(ap) ==
  /\ At(ap, "off")
  /\ sipi
  /\ Goto(ap, "start")
  /\ UNCHANGED <<bootVars, gateVars, target, kernelVars>>

(* An instruction, a far pointer or a descriptor that is not there any      *)
(* more: the processor runs wild.                                           *)
RunWild(ap) ==
  /\ pc[ap] \in InPage
  /\ page # "trampoline"
  /\ Goto(ap, "lost")
  /\ UNCHANGED <<bootVars, gateVars, target, kernelVars>>

(* lock xadd [cs:.CPU_Count] *)
CountIn(ap) ==
  /\ At(ap, "start")
  /\ page = "trampoline"
  /\ Goto(ap, "counted")
  /\ cpu_count' = cpu_count + 1
  /\ UNCHANGED <<lent, page, counter, sipi, gateVars, target, kernelVars>>

LoadGdt(ap) ==
  /\ At(ap, "counted")
  /\ page = "trampoline"
  /\ Goto(ap, "gdt")
  /\ UNCHANGED <<bootVars, gateVars, target, kernelVars>>

(* jmp far dword [cs:.location], to ApplicationProcessor in the loader. *)
LeaveTrampoline(ap) ==
  /\ At(ap, "gdt")
  /\ page = "trampoline"
  /\ Goto(ap, "segments")
  /\ UNCHANGED <<bootVars, gateVars, target, kernelVars>>

(* mov ds, 0x10: the descriptor is read from the trampoline's GDT. *)
LoadSegments(ap) ==
  /\ At(ap, "segments")
  /\ page = "trampoline"
  /\ Goto(ap, "gate")
  /\ UNCHANGED <<bootVars, gateVars, target, kernelVars>>

(* Mutant of PassGate: the test is the wrong way round. *)
PassGateShut(ap) ==
  /\ At(ap, "gate")
  /\ ~KernelReady
  /\ Goto(ap, "paging")
  /\ UNCHANGED <<bootVars, gateVars, target, kernelVars>>

PassGate(ap) ==
  /\ At(ap, "gate")
  /\ KernelReady
  /\ Goto(ap, "paging")
  /\ UNCHANGED <<bootVars, gateVars, target, kernelVars>>

-----------------------------------------------------------------------------
(* Every processor: start32.DoAPEntry, and start64 in the kernel. *)

EnablePaging(c) ==
  /\ At(c, "paging")
  /\ Goto(c, "jump")
  /\ target' = [target EXCEPT ![c] = KernelAddress]
  /\ UNCHANGED <<bootVars, gateVars, kernelVars>>

(* Mutants of EnterKernel: two processors are first; the count is stored    *)
(* instead of added to.                                                     *)
EnterTwo(c) ==
  /\ At(c, "jump")
  /\ g_cpu_count' = g_cpu_count + 1
  /\ Goto(c, IF g_cpu_count <= 1 THEN "main" ELSE "parked")
  /\ UNCHANGED <<bootVars, gateVars, target, old_count, shown>>

EnterStores(c) ==
  /\ At(c, "jump")
  /\ g_cpu_count' = 1
  /\ Goto(c, IF g_cpu_count = 0 THEN "main" ELSE "parked")
  /\ UNCHANGED <<bootVars, gateVars, target, old_count, shown>>

(* lock xadd [g_cpu_count]: the first one goes on, the others halt. *)
EnterKernel(c) ==
  /\ At(c, "jump")
  /\ g_cpu_count' = g_cpu_count + 1
  /\ Goto(c, IF g_cpu_count = 0 THEN "main" ELSE "parked")
  /\ UNCHANGED <<bootVars, gateVars, target, old_count, shown>>

(* kmain reads the count twice for every message, to compare it and to copy *)
(* it, and prints the copy.  Other processors enter between any two of the  *)
(* three, and during the printing.                                          *)
ReadCount(c) ==
  /\ pc[c] \in {"main", "copy"}
  /\ Goto(c, "print")
  /\ old_count' = g_cpu_count
  /\ UNCHANGED <<bootVars, gateVars, target, g_cpu_count, shown>>

(* Mutant of PrintCount: the copy is brought up to date after printing, so  *)
(* that a processor that came in between is never told of.                  *)
PrintThenCopy(c) ==
  /\ At(c, "print")
  /\ Goto(c, "poll")
  /\ shown' = old_count
  /\ old_count' = g_cpu_count
  /\ UNCHANGED <<bootVars, gateVars, target, g_cpu_count>>

PrintCount(c) ==
  /\ At(c, "print")
  /\ Goto(c, "poll")
  /\ shown' = old_count
  /\ UNCHANGED <<bootVars, gateVars, target, g_cpu_count, old_count>>

(* Equal counts leave kmain where it is, so only a difference is a step.    *)
CompareCount(c) ==
  /\ At(c, "poll")
  /\ old_count # g_cpu_count
  /\ Goto(c, "copy")
  /\ UNCHANGED <<bootVars, gateVars, target, kernelVars>>

-----------------------------------------------------------------------------

Common(c) ==
  \/ EnablePaging(c) \/ EnterKernel(c)
  \/ ReadCount(c) \/ PrintCount(c) \/ CompareCount(c)

Boot ==
  \/ SkipAps \/ FindTrampoline \/ PrepareTrampoline \/ SendIpis \/ PollCount
  \/ FreeTrampoline \/ LoadKernel \/ KernelNotLoaded
  \/ StoreAddress \/ OpenGate

Trampoline(ap) ==
  \/ CountIn(ap) \/ LoadGdt(ap) \/ LeaveTrampoline(ap) \/ LoadSegments(ap)
  \/ RunWild(ap) \/ PassGate(ap)

Next ==
  \/ Boot
  \/ ReusePage
  \/ \E ap \in Aps : Start(ap) \/ Trampoline(ap)
  \/ \E c \in Cpus : Common(c)

(* A processor that runs goes on running.  Nothing makes a start-up message *)
(* arrive; loading the kernel ends, but need not reuse the page.            *)
Fairness ==
  /\ WF_vars(Boot)
  /\ \A ap \in Aps : WF_vars(Trampoline(ap))
  /\ \A c \in Cpus : WF_vars(Common(c))

Spec == Init /\ [][Next]_vars
FairSpec == Spec /\ Fairness

-----------------------------------------------------------------------------

(* At most one processor runs kmain: there is one stack, one console and    *)
(* one interrupt table, and nobody locks them.                              *)
OneMain ==
  \A c, d \in Cpus : {pc[c], pc[d]} \subseteq Running => c = d

(* Nobody leaves the loader before the gate is open, and everybody who      *)
(* leaves jumps to the kernel.                                              *)
GateHolds ==
  \A c \in Cpus :
    /\ pc[c] \in Anyone => KernelReady
    /\ pc[c] \in {"jump"} \cup InKernel => target[c] = Entry

(* The kernel's count is the number of processors that entered it. *)
CountsEntered ==
  g_cpu_count = Cardinality({c \in Cpus : pc[c] \in InKernel})

(* When every processor is listed, and the BSP did not run out of patience, *)
(* the page is only given back after every AP was counted.                  *)
FreedAfterCounted ==
  (Listed = Cardinality(Aps) + 1 /\ sipi /\ ~lent /\ counter > 0)
    => \A ap \in Aps : pc[ap] \notin {"off", "start"}

(* The BSP comes to an end whatever the others do: it enters the kernel or  *)
(* stops with an error.                                                     *)
BspGetsOn == <>(pc[Bsp] \in {"poll", "parked", "stopped"})

(* An AP at the gate gets into the kernel, if one was loaded. *)
WaitingApEnters ==
  \A ap \in Aps : (At(ap, "gate") /\ KernelReady) ~> pc[ap] \in InKernel

(* The count on the screen ends up right, although processors enter between *)
(* kmain's comparison, its copy and the printing of the copy: one that is   *)
(* too late for the copy is found by the next comparison.                   *)
CountShown == <>[](g_cpu_count > 0 => shown = g_cpu_count)

-----------------------------------------------------------------------------

(* acpi.h:171 "# of CPU's that have run this code", and the BSP frees the   *)
(* page on the strength of it: once all have been counted, nobody needs the *)
(* page any more.                                                           *)
CountedHaveRun ==
  (sipi /\ ~lent /\ cpu_count = Listed) => \A ap \in Aps : pc[ap] \notin InPage
=============================================================================
