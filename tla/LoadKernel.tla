------------------------------ MODULE LoadKernel ------------------------------
(***************************************************************************)
(* The loader from the moment its memory map is complete to the jump into  *)
(* the kernel: kmain builds the page tables, maps itself and the initial   *)
(* ram disk, and Elf::Load gives every section of kernel.bin pages of its  *)
(* own and maps them, at the section's address and one to one.             *)
(*                                                                         *)
(* The processor pages with what VirtualMemory built as soon as start32    *)
(* sets CR0.PG; the next instruction, the stack and the kernel are then    *)
(* where the tables say.                                                   *)
(***************************************************************************)
EXTENDS VirtualMemory

CONSTANTS
  Loader,         \* the loader's image: [first, size], in pages
  RamDisk,        \* the initrd module: [first, size]
  Sections,       \* of kernel.bin, in order: [type, addr, size], in pages
  EntryPoint      \* e_entry: its virtual page

VARIABLES
  phase,          \* what kmain does next
  section,        \* sections Elf::Load is done with
  entry,          \* the physical page of the entry point; 0 when not found
  data            \* what a page was last filled with, apart from tables

loadVars == <<phase, section, entry, data>>
allVars == <<vars, loadVars>>

NoData == <<0, 0>>
Zeroes == <<0, 1>>

InMemory == {"PROGBITS", "NOBITS"}
Block(p, n) == p .. (p + n - 1)

ASSUME ImagesAssumption ==
  /\ PageCount <= Span[Levels]
  /\ Loader \in [first : Pages, size : Nat] /\ Loader.first + Loader.size <= PageCount
  /\ RamDisk \in [first : Pages, size : Nat] /\ RamDisk.first + RamDisk.size <= PageCount

ASSUME SectionsAssumption ==
  /\ Sections \in Seq([type : {"PROGBITS", "NOBITS", "other"}, addr : VirtualPages, size : Nat])
  /\ \A i \in DOMAIN Sections : Sections[i].addr + Sections[i].size <= Span[Levels]
  /\ EntryPoint \in VirtualPages

(* What kernel/link.ld sees to: what is loaded does not overlap, and lies   *)
(* where nothing is mapped one to one; the code comes first, so no section  *)
(* ends where it begins.                                                    *)
ASSUME LinkAssumption ==
  \A i \in DOMAIN Sections : Sections[i].type \in InMemory =>
    LET there == Block(Sections[i].addr, Sections[i].size)
    IN  /\ \A j \in DOMAIN Sections : i # j /\ Sections[j].type \in InMemory =>
             there \cap Block(Sections[j].addr, Sections[j].size) = {}
        /\ there \cap (Frames \cup Block(Loader.first, Loader.size)
                             \cup Block(RamDisk.first, RamDisk.size)) = {}
        /\ Sections[i].addr + Sections[i].size # EntryPoint

Phases == {"install", "loader", "initrd", "acpi", "find", "elf", "handoff", "kernel", "stopped"}

LoadTypeOK ==
  /\ TypeOK
  /\ phase \in Phases
  /\ section \in 0 .. Len(Sections)
  /\ entry \in Pages
  /\ data \in [Pages -> {NoData, Zeroes} \cup ((DOMAIN Sections) \X Nat)]

LoadInit ==
  /\ Init
  /\ phase = "install"
  /\ section = 0
  /\ entry = 0
  /\ data = [p \in Pages |-> NoData]

OneToOne(image) == [phys |-> image.first, virt |-> image.first, size |-> image.size]

(* kmain has control: no call of MapRange is under way. *)
At(here) == phase = here /\ todo = <<>>
Calls(range) == todo' = Work(range) /\ UNCHANGED <<mem, free, pml4_table, level, table>>

-----------------------------------------------------------------------------

InstallTables ==
  /\ At("install") /\ Install
  /\ phase' = "loader"
  /\ UNCHANGED <<section, entry, data>>

(* Mutant of MapLoader: the loader does not map itself. *)
MapLoaderNot ==
  /\ At("loader") /\ UNCHANGED vars
  /\ phase' = "initrd"
  /\ UNCHANGED <<section, entry, data>>

MapLoader ==
  /\ At("loader") /\ Calls(OneToOne(Loader))
  /\ phase' = "initrd"
  /\ UNCHANGED <<section, entry, data>>

(* InitRd::Load, of an image with the right magic number and version. *)
LoadRamDisk ==
  /\ At("initrd") /\ Calls(OneToOne(RamDisk))
  /\ phase' = "acpi"
  /\ UNCHANGED <<section, entry, data>>

(* Acpi::Install may have one page below 1MB for a while (SmpBoot). *)
StartProcessors ==
  /\ At("acpi")
  /\ phase' = "find"
  /\ UNCHANGED <<vars, section, entry, data>>

FindKernel ==
  /\ At("find")
  /\ phase' = "elf"
  /\ UNCHANGED <<vars, section, entry, data>>

(* No module called initrd, no kernel.bin in it, or not a 64-bit executable. *)
GiveUp ==
  /\ At("initrd") \/ At("find") \/ (At("elf") /\ section = 0)
  /\ phase' = "stopped"
  /\ UNCHANGED <<vars, section, entry, data>>

-----------------------------------------------------------------------------
(* Elf::Load, section by section. *)

Current == Sections[section + 1]

(* Blocks Frame::Alloc can return for n pages. *)
Blocks(n) == {p \in Starts : Block(p, n) \subseteq free}

(* The pages of block p after the section was copied there, or cleared. *)
Filled(p) ==
  [q \in Pages |->
     IF q \notin Block(p, Current.size) THEN data[q]
     ELSE IF Current.type = "NOBITS" THEN Zeroes ELSE <<section + 1, q - p>>]

(* The entry point, if it is in the section; it may be the first byte after *)
(* it.                                                                      *)
EntryIn(p) ==
  IF Current.type = "PROGBITS" /\ EntryPoint \in Current.addr .. (Current.addr + Current.size)
  THEN p + EntryPoint - Current.addr
  ELSE entry

(* The block at the address the section was linked for. *)
ToSection(p) == [phys |-> p, virt |-> Current.addr, size |-> Current.size]

SkipSection ==
  /\ At("elf") /\ section < Len(Sections)
  /\ Current.type \notin InMemory
  /\ section' = section + 1
  /\ UNCHANGED <<vars, phase, entry, data>>

(* Mutants of LoadSection: the block stays available; the section is mapped *)
(* at its address only.                                                     *)
LoadSectionUnreserved ==
  /\ At("elf") /\ section < Len(Sections)
  /\ Current.type \in InMemory
  /\ section' = section + 1
  /\ \E p \in Blocks(Current.size) :
       /\ data' = Filled(p)
       /\ todo' = Work(ToSection(p)) \o Work(OneToOne([first |-> p, size |-> Current.size]))
       /\ entry' = EntryIn(p)
  /\ UNCHANGED <<mem, free, pml4_table, level, table, phase>>

LoadSectionOnce ==
  /\ At("elf") /\ section < Len(Sections)
  /\ Current.type \in InMemory
  /\ section' = section + 1
  /\ \E p \in Blocks(Current.size) :
       /\ free' = free \ Block(p, Current.size)
       /\ data' = Filled(p)
       /\ todo' = Work(ToSection(p))
       /\ entry' = EntryIn(p)
  /\ UNCHANGED <<mem, pml4_table, level, table, phase>>

(* A block is filled and mapped twice. *)
LoadSection ==
  /\ At("elf") /\ section < Len(Sections)
  /\ Current.type \in InMemory
  /\ section' = section + 1
  /\ \E p \in Blocks(Current.size) :
       /\ free' = free \ Block(p, Current.size)
       /\ data' = Filled(p)
       /\ todo' = Work(ToSection(p)) \o Work(OneToOne([first |-> p, size |-> Current.size]))
       /\ entry' = EntryIn(p)
  /\ UNCHANGED <<mem, pml4_table, level, table, phase>>

(* No block: Load returns 0, which start32 takes for an error. *)
NoRoom ==
  /\ At("elf") /\ section < Len(Sections)
  /\ Current.type \in InMemory
  /\ Blocks(Current.size) = {}
  /\ phase' = "stopped"
  /\ entry' = 0
  /\ UNCHANGED <<vars, section, data>>

Loaded ==
  /\ At("elf") /\ section = Len(Sections)
  /\ phase' = IF entry = 0 THEN "stopped" ELSE "handoff"
  /\ UNCHANGED <<vars, section, entry, data>>

(* A step of Map; a page that becomes a table is cleared. *)
MapPage ==
  /\ Map
  /\ data' = IF free' = free THEN data ELSE [data EXCEPT ![table'] = NoData]
  /\ UNCHANGED <<phase, section, entry>>

(* start32.DoAPEntry: load CR3, turn paging on, jump. *)
EnablePaging ==
  /\ At("handoff")
  /\ phase' = "kernel"
  /\ UNCHANGED <<vars, section, entry, data>>

LoadNext ==
  \/ InstallTables \/ MapLoader \/ LoadRamDisk \/ StartProcessors \/ FindKernel \/ GiveUp
  \/ SkipSection \/ LoadSection \/ NoRoom \/ Loaded
  \/ MapPage \/ EnablePaging

LoadSpec == LoadInit /\ [][LoadNext]_allVars

-----------------------------------------------------------------------------

(* The pages of section i, by their place in it, that have an address. *)
Content(i, k) == IF Sections[i].type = "NOBITS" THEN Zeroes ELSE <<i, k>>

(* When the kernel is entered, every page of every section is where the     *)
(* linker put it: what was copied first has not been overwritten by the     *)
(* tables made and sections copied later, and its mapping is still there.   *)
KernelInPlace ==
  phase \in {"handoff", "kernel"} =>
    \A i \in DOMAIN Sections : Sections[i].type \in InMemory =>
      \A k \in 0 .. (Sections[i].size - 1) :
        LET p == Translate(Sections[i].addr + k)
        IN  p # Unset /\ data[p] = Content(i, k)

(* The instruction after the one that turns paging on, the parameters and   *)
(* the ram disk are where they were.                                        *)
LoaderStaysMapped ==
  phase \in {"handoff", "kernel"} =>
    \A p \in Block(Loader.first, Loader.size) \cup Block(RamDisk.first, RamDisk.size) :
      Translate(p) = p

(* The address start32 jumps to is that of the kernel's first instruction,  *)
(* on the far side of paging.                                               *)
EntryRuns ==
  phase = "kernel" =>
    /\ Translate(EntryPoint) # Unset
    /\ Translate(entry) = Translate(EntryPoint)
=============================================================================
