---------------------------- MODULE SmpBootProofs ----------------------------
(* Proofs about the start-up of any number of processors. *)
EXTENDS SmpBoot, FiniteSetTheorems, TLAPS

(* Why only one processor runs kmain: the ticket 0 is drawn once.           *)
TicketInv ==
  /\ \A c \in Cpus : pc[c] \in Running => g_cpu_count > 0
  /\ \A c, d \in Cpus : pc[c] \in Running /\ pc[d] \in Running => c = d

(* Why the gate holds: the address is there before the gate opens.          *)
GateInv ==
  /\ pc[Bsp] = "ready" => KernelAddress = Entry
  /\ KernelReady => KernelAddress = Entry
  /\ GateHolds

Inv == TypeOK /\ TicketInv /\ GateInv

USE DEF BspOnly, InPage, ApOnly, InKernel, Anyone, Running

LEMMA InitInv == Init => Inv
<1> SUFFICES ASSUME Init PROVE Inv
  OBVIOUS
<1>1. pc \in [Cpus -> {"madt", "off"}] /\ target \in [Cpus -> {NoAddress, Entry}]
  BY DEF Init
<1>2. TypeOK
  <2>1. pc \in [Cpus -> BspOnly \cup ApOnly \cup Anyone]
    BY <1>1
  <2>2. counter \in 0 .. Patience
    BY NumbersAssumption DEF Init
  <2> QED
    BY <2>1, <2>2, <1>1 DEF Init, TypeOK
<1>3. Bsp \in Cpus
  BY DEF Cpus
<1> QED
  BY <1>1, <1>2, <1>3 DEF Init, Inv, TicketInv, GateInv, GateHolds

LEMMA BootInv ==
  ASSUME Inv, Boot \/ ReusePage
  PROVE  Inv'
<1> USE DEF At, Goto, bootVars, gateVars, kernelVars
<1>1. Bsp \in Cpus
  BY DEF Cpus
<1>2. TypeOK'
  <2>1. CASE SkipAps
    BY <1>1, <2>1 DEF Inv, TypeOK, SkipAps
  <2>2. CASE FindTrampoline
    BY <1>1, <2>2 DEF Inv, TypeOK, FindTrampoline
  <2>3. CASE PrepareTrampoline
    BY <1>1, <2>3 DEF Inv, TypeOK, PrepareTrampoline
  <2>4. CASE SendIpis
    BY <1>1, <2>4 DEF Inv, TypeOK, SendIpis
  <2>5. CASE PollCount
    BY <1>1, <2>5, NumbersAssumption DEF Inv, TypeOK, PollCount
  <2>6. CASE FreeTrampoline
    BY <1>1, <2>6 DEF Inv, TypeOK, FreeTrampoline
  <2>7. CASE ReusePage
    BY <1>1, <2>7 DEF Inv, TypeOK, ReusePage
  <2>8. CASE LoadKernel
    BY <1>1, <2>8 DEF Inv, TypeOK, LoadKernel
  <2>9. CASE KernelNotLoaded
    BY <1>1, <2>9 DEF Inv, TypeOK, KernelNotLoaded
  <2>10. CASE StoreAddress
    BY <1>1, <2>10 DEF Inv, TypeOK, StoreAddress
  <2>11. CASE OpenGate
    BY <1>1, <2>11 DEF Inv, TypeOK, OpenGate
  <2> QED
    BY <2>1, <2>2, <2>3, <2>4, <2>5, <2>6, <2>7, <2>8, <2>9, <2>10, <2>11 DEF Boot
<1>3. TicketInv'
  BY <1>1
  DEF Inv, TypeOK, TicketInv, Boot, SkipAps, FindTrampoline, PrepareTrampoline, SendIpis,
      PollCount, FreeTrampoline, ReusePage, LoadKernel, KernelNotLoaded, StoreAddress, OpenGate
<1>4. GateInv'
  BY <1>1
  DEF Inv, TypeOK, GateInv, GateHolds, Boot, SkipAps, FindTrampoline, PrepareTrampoline,
      SendIpis, PollCount, FreeTrampoline, ReusePage, LoadKernel, KernelNotLoaded,
      StoreAddress, OpenGate
<1> QED
  BY <1>2, <1>3, <1>4 DEF Inv

LEMMA ApInv ==
  ASSUME Inv, NEW ap \in Aps, Start(ap) \/ Trampoline(ap)
  PROVE  Inv'
<1> USE DEF At, Goto, bootVars, gateVars, kernelVars
<1>1. ap \in Cpus
  BY DEF Cpus
<1>2. TypeOK'
  BY <1>1
  DEF Inv, TypeOK, Start, Trampoline, CountIn, LoadGdt, LeaveTrampoline, LoadSegments,
      RunWild, PassGate
<1>3. TicketInv'
  BY <1>1
  DEF Inv, TypeOK, TicketInv, Start, Trampoline, CountIn, LoadGdt, LeaveTrampoline,
      LoadSegments, RunWild, PassGate
<1>4. GateInv'
  <2>1. ap # Bsp
    BY CpusAssumption
  <2>2. CASE PassGate(ap)
    BY <1>1, <2>1, <2>2 DEF Inv, TypeOK, GateInv, GateHolds, PassGate
  <2>3. ASSUME NEW there \in InPage \cup {"gate", "lost"}, Goto(ap, there),
               UNCHANGED <<gateVars, target>>
        PROVE  GateInv'
    <3>1. there \notin Anyone
      BY <2>3
    <3>2. pc'[Bsp] = pc[Bsp] /\ pc'[ap] = there /\ \A c \in Cpus : c # ap => pc'[c] = pc[c]
      BY <1>1, <2>1, <2>3 DEF Inv, TypeOK, Cpus
    <3> QED
      BY <2>3, <3>1, <3>2 DEF Inv, GateInv, GateHolds
  <2>4. CASE Start(ap) \/ RunWild(ap) \/ CountIn(ap)
    BY <2>3, <2>4 DEF Start, RunWild, CountIn
  <2>5. CASE LoadGdt(ap) \/ LeaveTrampoline(ap) \/ LoadSegments(ap)
    BY <2>3, <2>5 DEF LoadGdt, LeaveTrampoline, LoadSegments
  <2> QED
    BY <2>2, <2>4, <2>5 DEF Trampoline
<1> QED
  BY <1>2, <1>3, <1>4 DEF Inv

LEMMA CommonInv ==
  ASSUME Inv, NEW c \in Cpus, Common(c)
  PROVE  Inv'
<1> USE DEF At, Goto, bootVars, gateVars, kernelVars
<1>1. TypeOK'
  BY DEF Inv, TypeOK, Common, EnablePaging, EnterKernel, ReadCount, PrintCount, CompareCount
<1>2. TicketInv'
  <2>1. CASE EnterKernel(c)
    <3>1. CASE g_cpu_count = 0
      BY <2>1, <3>1 DEF Inv, TypeOK, TicketInv, EnterKernel
    <3>2. CASE g_cpu_count > 0
      BY <2>1, <3>2 DEF Inv, TypeOK, TicketInv, EnterKernel
    <3> QED
      BY <3>1, <3>2 DEF Inv, TypeOK
  <2>2. CASE EnablePaging(c) \/ ReadCount(c) \/ PrintCount(c) \/ CompareCount(c)
    BY <2>2 DEF Inv, TypeOK, TicketInv, EnablePaging, ReadCount, PrintCount, CompareCount
  <2> QED
    BY <2>1, <2>2 DEF Common
<1>3. GateInv'
  BY DEF Inv, TypeOK, GateInv, GateHolds, Common, EnablePaging, EnterKernel, ReadCount,
         PrintCount, CompareCount
<1> QED
  BY <1>1, <1>2, <1>3 DEF Inv

LEMMA NextInv == Inv /\ [Next]_vars => Inv'
<1>1. CASE UNCHANGED vars
  BY <1>1 DEF vars, bootVars, gateVars, kernelVars, Inv, TypeOK, TicketInv, GateInv, GateHolds
<1> QED
  BY <1>1, BootInv, ApInv, CommonInv DEF Next

(* However many processors there are and however their start-up messages    *)
(* arrive, at most one runs kmain, and whoever enters the kernel came       *)
(* through the open gate with the kernel's address.                         *)
THEOREM OneMainThroughTheGate == Spec => [](TypeOK /\ OneMain /\ GateHolds)
<1>1. Inv => TypeOK /\ OneMain /\ GateHolds
  BY DEF Inv, TicketInv, GateInv, OneMain
<1> QED
  BY InitInv, NextInv, <1>1, PTL DEF Spec

(* Whoever leaves the loader does so after KernelReady was set, and jumps   *)
(* to the kernel's entry: start32 stores the address before the flag.       *)
THEOREM GateStaysShut == Spec => []GateHolds
<1>1. TypeOK /\ OneMain /\ GateHolds => GateHolds
  OBVIOUS
<1> QED
  BY OneMainThroughTheGate, <1>1, PTL

-----------------------------------------------------------------------------
(* The kernel's count. *)

Entered == {c \in Cpus : pc[c] \in InKernel}

LEMMA EnteredFinite == IsFiniteSet(Entered)
<1>1. IsFiniteSet(Cpus)
  BY CpusAssumption, FS_AddElement DEF Cpus
<1> QED
  BY <1>1, FS_Subset DEF Entered

(* A processor that does not pass the kernel's door leaves the set alone.   *)
LEMMA EnteredStays ==
  ASSUME TypeOK, NEW c \in Cpus, NEW there, Goto(c, there),
         pc[c] \in InKernel <=> there \in InKernel
  PROVE  Entered' = Entered
<1>1. \A d \in Cpus : pc'[d] \in InKernel <=> pc[d] \in InKernel
  BY DEF TypeOK, Goto
<1> QED
  BY <1>1 DEF Entered

LEMMA StepCounts ==
  ASSUME Inv, CountsEntered, [Next]_vars
  PROVE  CountsEntered'
<1> USE DEF At, bootVars, gateVars, kernelVars
<1>1. SUFFICES ASSUME TRUE
               PROVE  \/ Entered' = Entered /\ g_cpu_count' = g_cpu_count
                      \/ \E c \in Cpus : EnterKernel(c)
  <2>1. g_cpu_count = Cardinality(Entered)
    BY DEF CountsEntered, Entered
  <2>2. CASE Entered' = Entered /\ g_cpu_count' = g_cpu_count
    BY <2>1, <2>2 DEF CountsEntered, Entered
  <2>3. ASSUME NEW c \in Cpus, EnterKernel(c)
        PROVE  CountsEntered'
    <3>1. pc[c] \notin InKernel /\ c \notin Entered
      BY <2>3 DEF EnterKernel, Entered
    <3>2. \A d \in Cpus : pc'[d] \in InKernel <=> (d = c \/ pc[d] \in InKernel)
      BY <2>3 DEF EnterKernel, Goto, Inv, TypeOK
    <3>3. Entered' = Entered \cup {c}
      BY <3>2 DEF Entered
    <3>4. Cardinality(Entered \cup {c}) = Cardinality(Entered) + 1
      BY <3>1, EnteredFinite, FS_AddElement
    <3>5. g_cpu_count' = g_cpu_count + 1
      BY <2>3 DEF EnterKernel
    <3> QED
      BY <2>1, <3>3, <3>4, <3>5 DEF CountsEntered, Entered
  <2> QED
    BY <1>1, <2>2, <2>3
<1>2. Bsp \in Cpus /\ \A ap \in Aps : ap \in Cpus
  BY DEF Cpus
<1>3. CASE UNCHANGED vars
  BY <1>3 DEF vars, Entered
<1>4. CASE ReusePage
  BY <1>4 DEF ReusePage, Entered
<1>5. CASE Boot
  <2>1. g_cpu_count' = g_cpu_count
    BY <1>5 DEF Boot, SkipAps, FindTrampoline, PrepareTrampoline, SendIpis, PollCount,
                FreeTrampoline, LoadKernel, KernelNotLoaded, StoreAddress, OpenGate
  <2>2. CASE pc' = pc
    BY <2>1, <2>2 DEF Entered
  <2>3. CASE pc' # pc
    <3>1. pc[Bsp] \in BspOnly /\ \E there \in BspOnly \cup {"paging"} : Goto(Bsp, there)
      BY <1>5, <2>3
      DEF Boot, SkipAps, FindTrampoline, PrepareTrampoline, SendIpis, PollCount,
          FreeTrampoline, LoadKernel, KernelNotLoaded, StoreAddress, OpenGate
    <3>2. PICK there \in BspOnly \cup {"paging"} : Goto(Bsp, there)
      BY <3>1
    <3>3. pc[Bsp] \notin InKernel /\ there \notin InKernel
      BY <3>1, <3>2
    <3>4. Entered' = Entered
      BY <1>2, <3>2, <3>3, EnteredStays DEF Inv
    <3> QED
      BY <2>1, <3>4
  <2> QED
    BY <2>2, <2>3
<1>6. ASSUME NEW ap \in Aps, Start(ap) \/ Trampoline(ap)
      PROVE  Entered' = Entered /\ g_cpu_count' = g_cpu_count
  <2>1. g_cpu_count' = g_cpu_count /\ pc[ap] \in ApOnly
        /\ \E there \in ApOnly \cup {"paging"} : Goto(ap, there)
    BY <1>6 DEF Start, Trampoline, CountIn, LoadGdt, LeaveTrampoline, LoadSegments, RunWild, PassGate
  <2>2. PICK there \in ApOnly \cup {"paging"} : Goto(ap, there)
    BY <2>1
  <2>3. pc[ap] \notin InKernel /\ there \notin InKernel
    BY <2>1, <2>2
  <2>4. Entered' = Entered
    BY <1>2, <2>2, <2>3, EnteredStays DEF Inv
  <2> QED
    BY <2>1, <2>4
<1>7. ASSUME NEW c \in Cpus, Common(c)
      PROVE  (Entered' = Entered /\ g_cpu_count' = g_cpu_count) \/ EnterKernel(c)
  <2>1. CASE EnablePaging(c)
    BY <2>1, EnteredStays DEF EnablePaging, Inv
  <2>2. CASE ReadCount(c)
    BY <2>2, EnteredStays DEF ReadCount, Inv
  <2>3. CASE PrintCount(c)
    BY <2>3, EnteredStays DEF PrintCount, Inv
  <2>4. CASE CompareCount(c)
    BY <2>4, EnteredStays DEF CompareCount, Inv
  <2> QED
    BY <1>7, <2>1, <2>2, <2>3, <2>4 DEF Common
<1> QED
  BY <1>3, <1>4, <1>5, <1>6, <1>7 DEF Next

(* The kernel's count is exact, for every number of processors: the counter *)
(* that decides who runs kmain is also the count it prints.                 *)
THEOREM CountIsExact == Spec => []CountsEntered
<1>1. Init => CountsEntered
  <2> SUFFICES ASSUME Init PROVE CountsEntered
    OBVIOUS
  <2>1. \A c \in Cpus : pc[c] \notin InKernel
    BY DEF Init
  <2>2. {c \in Cpus : pc[c] \in InKernel} = {}
    BY <2>1
  <2> QED
    BY <2>2, FS_EmptySet DEF Init, CountsEntered
<1>2. Inv /\ CountsEntered /\ [Next]_vars => CountsEntered'
  BY StepCounts
<1> QED
  BY <1>1, <1>2, InitInv, NextInv, PTL DEF Spec

-----------------------------------------------------------------------------
(* What kmain shows. *)

(* The screen is at most as old as the copy, and the copy as old as the     *)
(* count; what is compared with the count is what was printed.              *)
ScreenInv ==
  /\ shown <= old_count
  /\ old_count <= g_cpu_count
  /\ \A c \in Cpus : pc[c] \in {"poll", "copy"} => shown = old_count

(* kmain only rests, its copy equal to the count, when the count is on the  *)
(* screen; and the screen never tells of a processor that did not come.     *)
ScreenFollows ==
  /\ shown <= g_cpu_count
  /\ \A c \in Cpus : At(c, "poll") /\ old_count = g_cpu_count => shown = g_cpu_count

(* A step that leaves the three counts alone, and takes nobody from         *)
(* elsewhere to the comparison. *)
LEMMA ScreenStays ==
  ASSUME TypeOK, ScreenInv, UNCHANGED kernelVars, NEW c \in Cpus, NEW there, Goto(c, there),
         there \in {"poll", "copy"} => pc[c] \in {"poll", "copy"}
  PROVE  ScreenInv'
<1>1. \A d \in Cpus : pc'[d] = IF d = c THEN there ELSE pc[d]
  BY DEF TypeOK, Goto
<1> QED
  BY <1>1 DEF ScreenInv, kernelVars

LEMMA StepScreen ==
  ASSUME Inv, ScreenInv, [Next]_vars
  PROVE  ScreenInv'
<1> USE DEF At
<1>1. Bsp \in Cpus /\ \A ap \in Aps : ap \in Cpus
  BY DEF Cpus
<1>2. CASE UNCHANGED pc /\ UNCHANGED kernelVars
  BY <1>2 DEF ScreenInv, kernelVars
<1>3. CASE Boot /\ ~UNCHANGED pc
  <2>1. UNCHANGED kernelVars /\ \E there \in BspOnly \cup {"paging"} : Goto(Bsp, there)
    BY <1>3
    DEF Boot, SkipAps, FindTrampoline, PrepareTrampoline, SendIpis, PollCount,
        FreeTrampoline, LoadKernel, KernelNotLoaded, StoreAddress, OpenGate
  <2> QED
    BY <1>1, <2>1, ScreenStays DEF Inv
<1>4. ASSUME NEW ap \in Aps, Start(ap) \/ Trampoline(ap)
      PROVE  ScreenInv'
  <2>1. UNCHANGED kernelVars /\ \E there \in ApOnly \cup {"paging"} : Goto(ap, there)
    BY <1>4 DEF Start, Trampoline, CountIn, LoadGdt, LeaveTrampoline, LoadSegments, RunWild, PassGate
  <2> QED
    BY <1>1, <2>1, ScreenStays DEF Inv
<1>5. ASSUME NEW c \in Cpus, EnablePaging(c) \/ CompareCount(c)
      PROVE  ScreenInv'
  <2>1. CASE EnablePaging(c)
    BY <2>1, ScreenStays DEF EnablePaging, Inv
  <2>2. CASE CompareCount(c)
    BY <2>2, ScreenStays DEF CompareCount, Inv
  <2> QED
    BY <1>5, <2>1, <2>2
<1>6. ASSUME NEW c \in Cpus, EnterKernel(c)
      PROVE  ScreenInv'
  <2>1. \A d \in Cpus : pc'[d] \in {"poll", "copy"} => pc[d] = pc'[d]
    BY <1>6 DEF EnterKernel, Goto, Inv, TypeOK
  <2>2. g_cpu_count' = g_cpu_count + 1 /\ UNCHANGED <<old_count, shown>>
    BY <1>6 DEF EnterKernel
  <2> QED
    BY <2>1, <2>2 DEF ScreenInv, Inv, TypeOK
<1>7. ASSUME NEW c \in Cpus, ReadCount(c) \/ PrintCount(c)
      PROVE  ScreenInv'
  <2>1. \A d \in Cpus : d # c => pc[d] \notin Running
    BY <1>7 DEF ReadCount, PrintCount, Inv, TicketInv
  <2>2. \A d \in Cpus : d # c => pc'[d] = pc[d]
    BY <1>7 DEF ReadCount, PrintCount, Goto, Inv, TypeOK
  <2>3. CASE ReadCount(c)
    <3>1. pc'[c] = "print" /\ old_count' = g_cpu_count /\ UNCHANGED <<g_cpu_count, shown>>
      BY <2>3 DEF ReadCount, Goto, Inv, TypeOK
    <3> QED
      BY <2>1, <2>2, <3>1 DEF ScreenInv, Inv, TypeOK
  <2>4. CASE PrintCount(c)
    <3>1. shown' = old_count /\ UNCHANGED <<g_cpu_count, old_count>>
      BY <2>4 DEF PrintCount
    <3> QED
      BY <2>1, <2>2, <3>1 DEF ScreenInv, Inv, TypeOK
  <2> QED
    BY <1>7, <2>3, <2>4
<1>8. CASE ReusePage \/ UNCHANGED vars
  BY <1>2, <1>8 DEF ReusePage, vars
<1>9. CASE Boot
  <2>1. UNCHANGED kernelVars
    BY <1>9
    DEF Boot, SkipAps, FindTrampoline, PrepareTrampoline, SendIpis, PollCount,
        FreeTrampoline, LoadKernel, KernelNotLoaded, StoreAddress, OpenGate
  <2> QED
    BY <1>2, <1>3, <1>9, <2>1
<1> QED
  BY <1>4, <1>5, <1>6, <1>7, <1>8, <1>9 DEF Next, Common

(* Whatever processors enter between kmain's comparison, its copy and the   *)
(* printing: kmain does not rest with an old count on the screen, since it  *)
(* compares with what it printed, and it is the only one to print.          *)
THEOREM ScreenCatchesUp == Spec => []ScreenFollows
<1>1. Init => ScreenInv
  <2> SUFFICES ASSUME Init PROVE ScreenInv
    OBVIOUS
  <2>1. \A c \in Cpus : pc[c] \in {"madt", "off"}
    BY DEF Init
  <2> QED
    BY <2>1 DEF Init, ScreenInv
<1>2. Inv /\ ScreenInv /\ [Next]_vars => ScreenInv'
  BY StepScreen
<1>3. Inv /\ ScreenInv => ScreenFollows
  BY DEF Inv, TypeOK, ScreenInv, ScreenFollows, At
<1> QED
  BY <1>1, <1>2, <1>3, InitInv, NextInv, PTL DEF Spec

-----------------------------------------------------------------------------
(* The trampoline's page. *)

Arrived == {ap \in Aps : pc[ap] \notin {"off", "start"}}

(* cpu_count never runs ahead of the APs that left their first instruction; *)
(* so a count that is complete, seen once, says that all of them have.      *)
CountedInv ==
  /\ cpu_count <= Cardinality(Arrived) + 1
  /\ pc[Bsp] \in {"prepare", "ipi", "wait"} => lent
  /\ (Listed = Cardinality(Aps) + 1 /\ sipi /\ counter > 0 /\ pc[Bsp] # "wait")
       => Arrived = Aps

LEMMA ArrivedFinite ==
  /\ IsFiniteSet(Arrived) /\ Arrived \subseteq Aps
  /\ Cardinality(Arrived) \in Nat /\ Cardinality(Aps) \in Nat
  /\ Cardinality(Arrived) <= Cardinality(Aps)
<1>1. Arrived \subseteq Aps
  BY DEF Arrived
<1> QED
  BY <1>1, CpusAssumption, FS_Subset, FS_CardinalityType

(* Once all who are listed are counted, all have arrived. *)
LEMMA AllCounted ==
  ASSUME cpu_count <= Cardinality(Arrived) + 1, cpu_count = Cardinality(Aps) + 1
  PROVE  Arrived = Aps
<1>1. Cardinality(Arrived) = Cardinality(Aps)
  BY ArrivedFinite
<1> QED
  BY <1>1, ArrivedFinite, CpusAssumption, FS_Subset

(* What follows when one processor goes from one place to another. *)
LEMMA ArrivedGrows ==
  ASSUME TypeOK, NEW c \in Cpus, NEW there, Goto(c, there),
         c = Bsp \/ there \notin {"off", "start"} \/ pc[c] = "off"
  PROVE  /\ Arrived \subseteq Arrived'
         /\ IsFiniteSet(Arrived')
         /\ Cardinality(Arrived) \in Nat /\ Cardinality(Arrived') \in Nat
         /\ Cardinality(Arrived) <= Cardinality(Arrived')
<1>1. \A d \in Aps : pc'[d] = IF d = c THEN there ELSE pc[d]
  BY CpusAssumption DEF TypeOK, Goto, Cpus
<1>2. Arrived \subseteq Arrived' /\ Arrived' \subseteq Aps
  BY <1>1, CpusAssumption DEF Arrived
<1>3. IsFiniteSet(Arrived')
  BY <1>2, CpusAssumption, FS_Subset
<1> QED
  BY <1>2, <1>3, ArrivedFinite, FS_Subset, FS_CardinalityType

(* A step of an AP or in code that all run, other than the one that counts, *)
(* leaves the BSP's part of the invariant as it was.                        *)
LEMMA OthersCounted ==
  ASSUME Inv, CountedInv, NEW c \in Cpus, NEW there, Goto(c, there),
         there \notin {"off", "start", "prepare", "ipi", "wait"}
           \/ (c \in Aps /\ pc[c] = "off"),
         c = Bsp => pc[Bsp] # "wait",
         UNCHANGED <<lent, counter, sipi, cpu_count>>
  PROVE  CountedInv'
<1>1. /\ Arrived \subseteq Arrived' /\ Arrived' \subseteq Aps
      /\ Cardinality(Arrived) \in Nat /\ Cardinality(Arrived') \in Nat
      /\ Cardinality(Arrived) <= Cardinality(Arrived')
  BY ArrivedGrows DEF Inv, Arrived
<1>2. pc'[Bsp] = IF c = Bsp THEN there ELSE pc[Bsp]
  BY DEF Inv, TypeOK, Goto, Cpus
<1>3. cpu_count' <= Cardinality(Arrived') + 1
  BY <1>1 DEF CountedInv, Inv, TypeOK
<1>4. pc'[Bsp] \in {"prepare", "ipi", "wait"} => lent'
  BY <1>2, CpusAssumption DEF CountedInv
<1>5. (Listed = Cardinality(Aps) + 1 /\ sipi' /\ counter' > 0 /\ pc'[Bsp] # "wait")
        => Arrived' = Aps
  BY <1>1, <1>2 DEF CountedInv
<1> QED
  BY <1>3, <1>4, <1>5 DEF CountedInv

LEMMA BootCounted ==
  ASSUME Inv, CountedInv, Boot
  PROVE  CountedInv'
<1> USE DEF At, bootVars, gateVars, kernelVars
<1>1. Bsp \in Cpus /\ Bsp \notin Aps
  BY CpusAssumption DEF Cpus
<1>2. CASE \/ SkipAps \/ LoadKernel \/ KernelNotLoaded \/ StoreAddress \/ OpenGate
  <2>1. PICK there \in {"load", "address", "stopped", "ready", "paging"} : Goto(Bsp, there)
    BY <1>2 DEF SkipAps, LoadKernel, KernelNotLoaded, StoreAddress, OpenGate
  <2>2. UNCHANGED <<lent, counter, sipi, cpu_count>> /\ pc[Bsp] # "wait"
    BY <1>2 DEF SkipAps, LoadKernel, KernelNotLoaded, StoreAddress, OpenGate
  <2> QED
    BY <1>1, <2>1, <2>2, OthersCounted
<1>3. ASSUME NEW there, Goto(Bsp, there)
      PROVE  /\ Arrived' = Arrived
             /\ pc'[Bsp] = there
  BY <1>1, <1>3 DEF Arrived, Goto, Inv, TypeOK
<1>4. CASE FindTrampoline
  BY <1>3, <1>4, ArrivedFinite DEF FindTrampoline, CountedInv
<1>5. CASE PrepareTrampoline
  <2>1. cpu_count' <= Cardinality(Arrived') + 1
    BY <1>3, <1>5, ArrivedFinite DEF PrepareTrampoline
  <2> QED
    BY <1>3, <1>5, <2>1 DEF PrepareTrampoline, CountedInv
<1>6. CASE SendIpis
  BY <1>3, <1>6 DEF SendIpis, CountedInv
<1>7. CASE PollCount
  <2>1. CASE cpu_count = Listed \/ counter = 0
    <3>1. Goto(Bsp, "free") /\ UNCHANGED <<lent, counter, sipi, cpu_count>>
      BY <1>7, <2>1 DEF PollCount
    <3>2. Arrived' = Arrived /\ pc'[Bsp] = "free"
      BY <1>3, <3>1
    <3>3. (Listed = Cardinality(Aps) + 1 /\ counter > 0) => Arrived = Aps
      BY <2>1, AllCounted, NumbersAssumption DEF CountedInv, Inv, TypeOK
    <3> QED
      BY <3>1, <3>2, <3>3 DEF CountedInv
  <2>2. CASE ~(cpu_count = Listed \/ counter = 0)
    BY <1>7, <2>2 DEF PollCount, CountedInv, Arrived
  <2> QED
    BY <2>1, <2>2
<1>8. CASE FreeTrampoline
  BY <1>3, <1>8 DEF FreeTrampoline, CountedInv
<1> QED
  BY <1>2, <1>4, <1>5, <1>6, <1>7, <1>8 DEF Boot

LEMMA StepCounted ==
  ASSUME Inv, CountedInv, [Next]_vars
  PROVE  CountedInv'
<1> USE DEF At, bootVars, gateVars, kernelVars
<1>1. CASE UNCHANGED vars
  BY <1>1 DEF vars, CountedInv, Arrived
<1>2. CASE ReusePage
  BY <1>2 DEF ReusePage, CountedInv, Arrived
<1>3. ASSUME NEW ap \in Aps, CountIn(ap)
      PROVE  CountedInv'
  <2>1. ap \in Cpus /\ ap # Bsp
    BY CpusAssumption DEF Cpus
  <2>2. ap \notin Arrived /\ pc'[Bsp] = pc[Bsp]
    BY <1>3, <2>1 DEF CountIn, Arrived, Goto, Inv, TypeOK
  <2>3. \A d \in Aps : pc'[d] = IF d = ap THEN "counted" ELSE pc[d]
    BY <1>3, <2>1 DEF CountIn, Goto, Inv, TypeOK, Cpus
  <2>4. Arrived' = Arrived \cup {ap}
    BY <2>3 DEF Arrived
  <2>5. Cardinality(Arrived') = Cardinality(Arrived) + 1
    BY <2>2, <2>4, ArrivedFinite, FS_AddElement
  <2>6. Arrived = Aps => Arrived' = Aps
    BY <2>4
  <2>7. cpu_count' = cpu_count + 1 /\ UNCHANGED <<lent, counter, sipi>>
    BY <1>3 DEF CountIn
  <2>8. cpu_count' <= Cardinality(Arrived') + 1
    BY <2>5, <2>7, ArrivedFinite DEF CountedInv, Inv, TypeOK
  <2> QED
    BY <2>2, <2>6, <2>7, <2>8 DEF CountedInv
<1>4. ASSUME NEW ap \in Aps, Start(ap) \/ Trampoline(ap), ~CountIn(ap)
      PROVE  CountedInv'
  <2>1. ap \in Cpus /\ ap # Bsp
    BY CpusAssumption DEF Cpus
  <2>2. CASE Start(ap)
    BY <2>1, <2>2, OthersCounted DEF Start
  <2>3. CASE ~Start(ap)
    <3>1. PICK there \in {"gdt", "segments", "gate", "lost", "paging"} : Goto(ap, there)
      BY <1>4, <2>3 DEF Trampoline, LoadGdt, LeaveTrampoline, LoadSegments, RunWild, PassGate
    <3>2. UNCHANGED <<lent, counter, sipi, cpu_count>>
      BY <1>4, <2>3 DEF Trampoline, LoadGdt, LeaveTrampoline, LoadSegments, RunWild, PassGate
    <3> QED
      BY <2>1, <3>1, <3>2, OthersCounted
  <2> QED
    BY <2>2, <2>3
<1>5. ASSUME NEW c \in Cpus, Common(c)
      PROVE  CountedInv'
  <2>1. UNCHANGED <<lent, counter, sipi, cpu_count>>
    BY <1>5 DEF Common, EnablePaging, EnterKernel, ReadCount, PrintCount, CompareCount
  <2>2. PICK there \in {"jump", "parked"} \cup Running : Goto(c, there)
    BY <1>5 DEF Common, EnablePaging, EnterKernel, ReadCount, PrintCount, CompareCount
  <2>3. pc[c] # "wait"
    BY <1>5 DEF Common, EnablePaging, EnterKernel, ReadCount, PrintCount, CompareCount
  <2> QED
    BY <2>1, <2>2, <2>3, OthersCounted
<1> QED
  BY <1>1, <1>2, <1>3, <1>4, <1>5, BootCounted DEF Next

(* However many APs there are: when every processor is listed and the BSP   *)
(* did not run out of patience, it gives the trampoline's page back only    *)
(* after each AP has executed the instruction that counts it.               *)
THEOREM PageOutlastsTheCount == Spec => []FreedAfterCounted
<1>1. Init => CountedInv
  <2> SUFFICES ASSUME Init PROVE CountedInv
    OBVIOUS
  <2>1. pc[Bsp] = "madt" /\ ~sipi /\ cpu_count = 0
    BY DEF Init, Cpus
  <2> QED
    BY <2>1, ArrivedFinite DEF CountedInv
<1>2. Inv /\ CountedInv /\ [Next]_vars => CountedInv'
  BY StepCounted
<1>3. CountedInv => FreedAfterCounted
  BY DEF CountedInv, FreedAfterCounted, Arrived
<1> QED
  BY <1>1, <1>2, <1>3, InitInv, NextInv, PTL DEF Spec
=============================================================================
