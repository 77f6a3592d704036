---------------------------- MODULE MCLoadKernel ----------------------------
(* Instance of Kmain for TLC: what it reads of GRUB's tables and of the      *)
(* firmware's, and what it loads.                                            *)
EXTENDS Kmain

(* Three levels of four entries; the low page, the loader and the ram disk,  *)
(* memory in two parts, and a kernel at the top of the address space with    *)
(* code, data of no size and bss.                                            *)
Image(first, size) == [first |-> first, size |-> size]
LoaderImage == Image(1, 1)
RamDiskImage == Image(2, 1)

Section(type, addr, size) == [type |-> type, addr |-> addr, size |-> size]
KernelSections ==
  <<Section("other", 0, 0), Section("PROGBITS", 48, 2), Section("PROGBITS", 50, 0),
    Section("NOBITS", 50, 4), Section("other", 0, 1)>>
-----------------------------------------------------------------------------

(* Ranges below and above Base; an entry longer than the code takes it.      *)
Region(addr, len, type) == [size |-> 20, addr |-> addr, len |-> len, type |-> type]
LongRegion == [size |-> 24, addr |-> 3, len |-> 1, type |-> 1]
Maps ==
  {<<>>} \cup SeqOf({Region(1, 2, 1), Region(17, 18, 1), Region(4, 5, 2), LongRegion}, 3)

NameA == <<"i", "n">>
MCCmdLines == {<<"i", "n">>, <<"i", "n", "x">>, <<"i">>, <<"k">>}
ModuleLists ==
  {<<>>} \cup SeqOf([cmdline : MCCmdLines, exposed : BOOLEAN], 2)

MCInfos ==
  {t \in [magic : BOOLEAN, mods : BOOLEAN, mem_map : BOOLEAN, map : Maps, modules : ModuleLists] :
     (~t.magic => t.map = <<>> /\ t.modules = <<>>) /\ (t.modules # <<>> => Len(t.map) <= 1)}
Plain ==
  [magic |-> TRUE, mods |-> TRUE, mem_map |-> TRUE, map |-> <<Region(1, 2, 1)>>,
   modules |-> <<[cmdline |-> NameA, exposed |-> FALSE]>>]

-----------------------------------------------------------------------------

Sub(t, l) == [type |-> t, length |-> l]
Madt(length, subs) == [apic |-> TRUE, length |-> length, subs |-> subs]
MCStrays == {NoMadt, Madt(45, <<>>)}

(* Sound ones, one with a sub-table of no length, ones whose length is too   *)
(* short, too long, and one at the end of the address space.                 *)
SoundMadts ==
  {Madt(44, <<>>), Madt(48, <<Sub(0, 2), Sub(0, 2)>>),
   Madt(52, <<Sub(0, 2), Sub(1, 3), Sub(2, 1), Sub(0, 2)>>), Madt(47, <<Sub(3, 3)>>)}
Madts ==
  SoundMadts \cup
  {Madt(48, <<Sub(0, 2), Sub(3, 0), Sub(0, 2)>>), Madt(45, <<Sub(0, 2), Sub(0, 2)>>),
   Madt(49, <<Sub(0, 2)>>), Madt(63, <<Sub(0, 2)>>), Madt(0, <<Sub(0, 2)>>)}

Areas == SeqOf([sig : BOOLEAN, sum : BOOLEAN], 2)
Found == <<[sig |-> TRUE, sum |-> TRUE]>>
Rsdt(sum, length, tables) == [sum |-> sum, length |-> length, tables |-> tables]
MCFirmwares ==
  [bios : Areas, ebda : Areas, trampoline : {TRUE},
   rsdt : {Rsdt(TRUE, 40, <<Madt(48, <<Sub(0, 2), Sub(0, 2)>>)>>)}]
  \cup [bios : {Found}, ebda : {<<>>}, trampoline : BOOLEAN,
        rsdt : {Rsdt(s, 40 + n, <<t>>) : s \in BOOLEAN, n \in {-4, 0, 3}, t \in {NoMadt} \cup Madts}
               \cup {Rsdt(TRUE, 44 + n, t) : n \in {-4, 0, 4}, t \in [1 .. 2 -> SoundMadts \cup {NoMadt}]}
               \cup {Rsdt(TRUE, 0, <<>>)}]

-----------------------------------------------------------------------------

(* All that GRUB may leave with one firmware, all firmware with one table of *)
(* GRUB's.                                                                   *)
Usual == CHOOSE f \in MCFirmwares : Good(f.bios) = {1} /\ Good(f.ebda) = {1}
MCInit == KmainInit /\ (info = Plain \/ firmware = Usual)
MCSpec == MCInit /\ [][KmainNext]_kmainVars /\ WF_kmainVars(KmainNext)

(* Only with both of these are all choices of frames followed to the end,    *)
(* otherwise that of the first ones, until the processors are started.       *)
Representative ==
  \/ info = Plain /\ firmware = Usual
  \/ /\ phase \in {"install", "loader", "initrd", "acpi", "find"}
     /\ \A p \in free, q \in Frames \ free : q < p
=============================================================================
