-------------------------------- MODULE Kmain --------------------------------
(***************************************************************************)
(* kmain of the loader, from GRUB's call to the jump into the kernel: what *)
(* Multiboot, LoadKernel and Acpi model runs in one thread, each part when *)
(* kmain comes to it.  GRUB's tables are read and memory is reserved; page *)
(* tables are built, and the loader is mapped; the ram disk is looked for, *)
(* and mapped; the other processors are started; the kernel is loaded.     *)
(***************************************************************************)
EXTENDS LoadKernel, Multiboot, Acpi

kmainVars == <<allVars, multiboot, acpi>>

KmainInit == LoadInit /\ MultibootInit /\ AcpiInit

(* Up to the reservation of the loader's image. *)
ReadGrubTables ==
  /\ CheckInfo \/ AddMap \/ ReserveInfo \/ ReserveModules \/ ReserveLoader
  /\ UNCHANGED <<allVars, acpi>>

(* VirtualMemory::Install is the first to have frames of the allocator;     *)
(* what is not reserved may be lost from now on.                            *)
InstallPaging == AllocateTables /\ InstallTables /\ UNCHANGED acpi

LookForRamDisk ==
  /\ At("initrd") /\ FindInitrd
  /\ IF initrd' = 0 THEN GiveUp ELSE UNCHANGED allVars
  /\ UNCHANGED acpi

(* The calls of MapRange, whoever makes them. *)
MapPages == (MapLoader \/ MapPage) /\ UNCHANGED <<multiboot, acpi>>
MapRamDisk == Reached("acpi") /\ LoadRamDisk /\ UNCHANGED <<multiboot, acpi>>

(* Acpi::Install. *)
InstallAcpi == At("acpi") /\ AcpiNext /\ UNCHANGED <<allVars, multiboot>>
AcpiInstalled == at = "done" /\ StartProcessors /\ UNCHANGED <<multiboot, acpi>>

(* FindFile and Elf::Load, whose result start32 jumps to. *)
StartKernel ==
  /\ \/ FindKernel \/ (phase # "initrd" /\ GiveUp)
     \/ SkipSection \/ LoadSection \/ NoRoom \/ Loaded \/ EnablePaging
  /\ UNCHANGED <<multiboot, acpi>>

KmainNext ==
  \/ ReadGrubTables \/ InstallPaging \/ MapPages \/ LookForRamDisk \/ MapRamDisk
  \/ InstallAcpi \/ AcpiInstalled \/ StartKernel

(* One thread, which nothing stops but its own ends. *)
KmainSpec == KmainInit /\ [][KmainNext]_kmainVars /\ WF_kmainVars(KmainNext)

-----------------------------------------------------------------------------

TypesOK == LoadTypeOK /\ MultibootTypeOK /\ AcpiTypeOK

Started == {"find", "elf", "handoff", "kernel"}
AllReserved == {<<"low page">>, <<"info">>, <<"table">>, <<"loader">>}
                 \cup {<<"image", m>> : m \in Modules}

(* Each part has done what the next one relies on: all that is still needed *)
(* is reserved before the first frame is lent, a ram disk has been found    *)
(* before one is mapped, and the other processors are done with before the  *)
(* kernel is loaded.                                                        *)
InTurn ==
  /\ phase # "install" => AllReserved \subseteq reserved
  /\ phase \in {"acpi"} \cup Started => initrd \in Modules
  /\ phase \in Started => at = "done"
=============================================================================
