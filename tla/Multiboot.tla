------------------------------- MODULE Multiboot -------------------------------
(***************************************************************************)
(* What kmain of the loader makes of the tables that GRUB hands over       *)
(* (multiboot.h, and kmain.cpp up to the ram disk): it gives the usable    *)
(* ranges of the memory map to Frame::AddRange, what it still needs to     *)
(* Frame::ReserveRange, lets VirtualMemory allocate, and then looks for    *)
(* the module whose command line says "initrd".                            *)
(*                                                                         *)
(* The memory map is a buffer of 32-bit words, in which GRUB writes how    *)
(* long each entry is and the code takes all to be equally long.  Command  *)
(* lines are short sequences of words.  Those that do not happen to lie in *)
(* reserved memory may be overwritten as soon as frames are allocated.     *)
(***************************************************************************)
EXTENDS Integers, Sequences, SequencesExt

CONSTANTS
  Base,        \* 2^32
  Initrd,      \* the command line that is looked for, without its NUL
  CmdLines,    \* those of modules
  Infos        \* what GRUB may hand over

Entries == [size : Nat, addr : Nat, len : Nat, type : Nat]
AllInfos ==
  [magic : BOOLEAN, mods : BOOLEAN, mem_map : BOOLEAN, map : Seq(Entries),
   modules : Seq([cmdline : CmdLines, exposed : BOOLEAN])]

ASSUME BaseAssumption == Base \in Nat \ {0}
ASSUME InfosAssumption == Infos \subseteq AllInfos

VARIABLES
  info,        \* GRUB's tables
  step,        \* how far kmain is
  index,       \* of a loop
  added,       \* ranges given to AddRange
  reserved,    \* what was given to ReserveRange
  cmdlines,    \* the command lines as they are in memory
  initrd       \* the module found; 0 if none is

multiboot == <<info, step, index, added, reserved, cmdlines, initrd>>

Modules == DOMAIN info.modules

MultibootInit ==
  /\ info \in Infos
  /\ step = "entry"
  /\ index = 1
  /\ added = <<>>
  /\ reserved = {}
  /\ cmdlines = [m \in Modules |-> info.modules[m].cmdline]
  /\ initrd = 0

-----------------------------------------------------------------------------
(* InfoTable *)

GetModuleCount == IF info.mods THEN Len(info.modules) ELSE 0

(* An entry: its size without the size word itself, a 64-bit address, a     *)
(* 64-bit length, a type; then, if it is larger, what the code knows        *)
(* nothing of.                                                              *)
Words(entry) ==
  <<entry.size, entry.addr % Base, entry.addr \div Base, entry.len % Base, entry.len \div Base,
    entry.type>> \o [k \in 1 .. ((entry.size - 20) \div 4) |-> 0]
Buffer == FlattenSeq([k \in DOMAIN info.map |-> Words(info.map[k])])

GetMemMapCount == IF info.mem_map THEN Len(Buffer) \div 6 ELSE 0

(* Mutant of GetMemMap: addresses of 32 bits. *)
GetMemMapLow(i) ==
  LET w == SubSeq(Buffer, 6 * i - 5, 6 * i)
  IN  [addr |-> w[2], len |-> w[4] + Base * w[5], type |-> w[6]]

GetMemMap(i) ==
  LET w == SubSeq(Buffer, 6 * i - 5, 6 * i)
  IN  [addr |-> w[2] + Base * w[3], len |-> w[4] + Base * w[5], type |-> w[6]]

(* Mutant of SaysInitrd: the end of the string is compared as well. *)
SaysInitrdOnly(cmdline) == cmdline = Initrd

(* memcmp over the length of the name looked for. *)
SaysInitrd(cmdline) == IsPrefix(Initrd, cmdline)

FindModuleByCmdLine ==
  LET found == {m \in 1 .. GetModuleCount : SaysInitrd(cmdlines[m])}
  IN  IF found = {} THEN 0 ELSE CHOOSE m \in found : \A n \in found : m <= n

-----------------------------------------------------------------------------
(* kmain *)

Reached(here) == step = here
Goto(there) == step' = there
Refuse == Goto("refused") /\ UNCHANGED <<index, added, reserved, cmdlines, initrd>>

CheckInfo ==
  /\ Reached("entry") /\ UNCHANGED info
  /\ IF info.magic THEN Goto("map") /\ UNCHANGED <<index, added, reserved, cmdlines, initrd>>
     ELSE Refuse

AddMap ==
  /\ Reached("map") /\ UNCHANGED info
  /\ IF GetMemMapCount = 0 THEN Refuse
     ELSE IF index <= GetMemMapCount THEN
       LET map == GetMemMap(index)
       IN  /\ added' = IF map.type = 1 THEN Append(added, <<map.addr, map.len>>) ELSE added
           /\ index' = index + 1
           /\ UNCHANGED <<step, reserved, cmdlines, initrd>>
     ELSE Goto("info") /\ index' = 1 /\ UNCHANGED <<added, reserved, cmdlines, initrd>>

ReserveInfo ==
  /\ Reached("info") /\ Goto("modules")
  /\ reserved' = reserved \cup {<<"low page">>, <<"info">>}
  /\ UNCHANGED <<info, index, added, cmdlines, initrd>>

(* Every module's image, and the table of the modules. *)
ReserveModules ==
  /\ Reached("modules") /\ UNCHANGED info
  /\ IF GetModuleCount = 0 THEN Refuse
     ELSE /\ Goto("loader")
          /\ reserved' = reserved \cup {<<"image", m>> : m \in 1 .. GetModuleCount} \cup {<<"table">>}
          /\ UNCHANGED <<index, added, cmdlines, initrd>>

ReserveLoader ==
  /\ Reached("loader") /\ Goto("install")
  /\ reserved' = reserved \cup {<<"loader">>}
  /\ UNCHANGED <<info, index, added, cmdlines, initrd>>

(* VirtualMemory::Install and MapRange take frames for page tables. *)
AllocateTables ==
  /\ Reached("install") /\ Goto("search")
  /\ \E now \in [Modules -> CmdLines] :
       /\ \A m \in Modules : ~info.modules[m].exposed => now[m] = cmdlines[m]
       /\ cmdlines' = now
  /\ UNCHANGED <<info, index, added, reserved, initrd>>

FindInitrd ==
  /\ Reached("search") /\ UNCHANGED <<info, index, added, reserved, cmdlines>>
  /\ initrd' = FindModuleByCmdLine
  /\ Goto(IF initrd' = 0 THEN "refused" ELSE "acpi")

MultibootNext ==
  CheckInfo \/ AddMap \/ ReserveInfo \/ ReserveModules \/ ReserveLoader \/ AllocateTables
    \/ FindInitrd

MultibootSpec == MultibootInit /\ [][MultibootNext]_multiboot

-----------------------------------------------------------------------------

MultibootTypeOK ==
  /\ info \in Infos
  /\ step \in {"entry", "map", "info", "modules", "loader", "install", "search", "acpi", "refused"}
  /\ index \in 1 .. (GetMemMapCount + 1)
  /\ added \in Seq(Nat \X Nat)
  /\ cmdlines \in [Modules -> CmdLines]
  /\ initrd \in 0 .. Len(info.modules)

(* The usable ranges among the first k entries of GRUB's map, in its order.  *)
Usable ==
  LET usable[k \in 0 .. Len(info.map)] ==
        IF k = 0 THEN <<>>
        ELSE IF info.map[k].type = 1
             THEN Append(usable[k - 1], <<info.map[k].addr, info.map[k].len>>)
             ELSE usable[k - 1]
  IN  usable

(* Up to the k-th all entries are of the size the code takes them to be.     *)
UsualUpTo(k) == \A j \in 1 .. k : info.map[j].size = 20

MapRead == step \notin {"entry", "map", "refused"}

(* The allocator gets the usable ranges of GRUB's map, 64 bits wide, in      *)
(* GRUB's order and no others, although the code does not look at the size   *)
(* of an entry: up to the first entry that is not of the usual size.         *)
MapReadRight ==
  \A k \in 0 .. Len(info.map) : UsualUpTo(k) =>
    /\ step = "map" /\ index = k + 1 => added = Usable[k]
    /\ (step = "map" /\ index > k) \/ MapRead => IsPrefix(Usable[k], added)
    /\ MapRead /\ k = Len(info.map) => added = Usable[k]

(* The ram disk is the first module that says "initrd", whatever follows    *)
(* that word, unless its command line was overwritten before it was read;   *)
(* and before any frame was lent its image has been reserved, as have all   *)
(* the others, their table, the loader, GRUB's structure and the low page.  *)
InitrdFound ==
  (step = "acpi" \/ (step = "refused" /\ <<"loader">> \in reserved)) =>
    LET says == {m \in Modules : IsPrefix(Initrd, info.modules[m].cmdline)}
    IN  /\ {<<"low page">>, <<"info">>, <<"table">>, <<"loader">>}
             \cup {<<"image", m>> : m \in Modules} \subseteq reserved
        /\ (\A m \in Modules : ~info.modules[m].exposed) =>
              IF says = {} THEN initrd = 0 ELSE initrd \in says /\ \A m \in says : initrd <= m
=============================================================================
