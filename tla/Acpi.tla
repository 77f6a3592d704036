--------------------------------- MODULE Acpi ---------------------------------
(***************************************************************************)
(* How the loader learns how many processors there are (acpi.cpp): it      *)
(* looks for the RSDP, first in the BIOS area and then in the EBDA,        *)
(* follows it to the RSDT, goes through the tables listed there and walks  *)
(* over each MADT.  One step reads one place, one table or one sub-table.  *)
(*                                                                         *)
(* What firmware wrote is trusted for how long everything is.  A table     *)
(* read beyond those it meant, or a sub-table beyond a MADT's contents,    *)
(* may be anything.                                                        *)
(***************************************************************************)
EXTENDS Integers, Sequences, FiniteSets

CONSTANTS
  Word,        \* 2^32: sizes and counters are unsigned
  MaxSub,      \* the longest a sub-table may be: 255
  Firmwares,   \* what firmware may have left behind
  Strays       \* what memory may hold that is taken for a table

RsdtSize == 36
MadtSize == 44

LOCAL_APIC == 0
IO_APIC == 1
INTERRUPT_SOURCE_OVERRIDE == 2
Types == {LOCAL_APIC, IO_APIC, INTERRUPT_SOURCE_OVERRIDE, 3}

SubTables == [type : Types, length : 0 .. MaxSub]
Tables == [apic : BOOLEAN, length : 0 .. Word - 1, subs : Seq(SubTables)]
(* A place either has the signature or has not, and its bytes add up or     *)
(* do not; so for the RSDT.                                                 *)
Places == [sig : BOOLEAN, sum : BOOLEAN]
AllFirmware ==
  [bios : Seq(Places), ebda : Seq(Places), trampoline : BOOLEAN,
   rsdt : [sum : BOOLEAN, length : 0 .. Word - 1, tables : Seq(Tables)]]

ASSUME WordAssumption == Word \in Nat /\ MaxSub \in Nat /\ MadtSize < Word
ASSUME FirmwareAssumption == Firmwares \subseteq AllFirmware /\ Strays \subseteq Tables

VARIABLES
  firmware,    \* what it left behind
  at,          \* how far Install is
  place,       \* looked at by FindRsdp
  table_count, i,                   \* of ParseRsdp
  madt, sub, ctr, cpu_count,        \* of ParseMadt; sub counts the sub-tables
  started      \* for every start-up of processors, how many it waits for

walk == <<madt, sub, ctr, cpu_count>>
acpi == <<firmware, at, place, table_count, i, walk, started>>

NoMadt == [apic |-> FALSE, length |-> 0, subs |-> <<>>]

AcpiInit ==
  /\ firmware \in Firmwares
  /\ at = "idle" /\ place = 1
  /\ table_count = 0 /\ i = 0
  /\ madt = NoMadt /\ sub = 1 /\ ctr = 0 /\ cpu_count = 0
  /\ started = <<>>

-----------------------------------------------------------------------------
(* Install calls FindRsdp. *)

AcpiInstall ==
  /\ at = "idle" /\ at' = "bios"
  /\ UNCHANGED <<firmware, place, table_count, i, walk, started>>

(* Mutant of IsRsdp: the checksum is not looked at. *)
IsRsdpUnchecked(p) == p.sig

IsRsdp(p) == p.sig /\ p.sum

Search(area, here, next) ==
  /\ at = here
  /\ IF place > Len(area) THEN at' = next /\ place' = 1
     ELSE IF IsRsdp(area[place]) THEN at' = "rsdp" /\ UNCHANGED place
     ELSE at' = here /\ place' = place + 1
  /\ UNCHANGED <<firmware, table_count, i, walk, started>>

SearchBios == Search(firmware.bios, "bios", "ebda")
SearchEbda == Search(firmware.ebda, "ebda", "done")

-----------------------------------------------------------------------------
(* ParseRsdp *)

(* Mutant of TableCount: the RSDT's own header is not taken off. *)
TableCountWhole(length) == length \div 4

TableCount(length) == ((length - RsdtSize) % Word) \div 4

ParseRsdp ==
  /\ at = "rsdp"
  /\ IF firmware.rsdt.sum
     THEN at' = "tables" /\ table_count' = TableCount(firmware.rsdt.length) /\ i' = 0
     ELSE at' = "done" /\ UNCHANGED <<table_count, i>>
  /\ UNCHANGED <<firmware, place, walk, started>>

PointedTo(k) == IF k <= Len(firmware.rsdt.tables) THEN {firmware.rsdt.tables[k]} ELSE Strays

NextTable ==
  /\ at = "tables" /\ i # table_count
  /\ \E table \in PointedTo(i + 1) :
       IF table.apic
       THEN /\ at' = "madt" /\ madt' = table
            /\ sub' = 1 /\ ctr' = MadtSize /\ cpu_count' = 0
            /\ UNCHANGED i
       ELSE i' = i + 1 /\ UNCHANGED <<at, walk>>
  /\ UNCHANGED <<firmware, place, table_count, started>>

NoMoreTables ==
  /\ at = "tables" /\ i = table_count
  /\ at' = "done"
  /\ UNCHANGED <<firmware, place, table_count, i, walk, started>>

-----------------------------------------------------------------------------
(* ParseMadt *)

(* Mutant of Walking: one sub-table more. *)
WalkingOneMore == ctr <= madt.length

Walking == ctr < madt.length

(* Mutant of Break: sub-tables that are ignored are passed over before their *)
(* length is looked at.                                                     *)
BreakKnown(table) == table.type # 3 /\ table.length = 0

Break(table) == table.length = 0

SubTablesAt(k) == IF k <= Len(madt.subs) THEN {madt.subs[k]} ELSE SubTables

NextSubTable ==
  /\ at = "madt" /\ Walking
  /\ \E table \in SubTablesAt(sub) :
       /\ cpu_count' = IF table.type = LOCAL_APIC THEN (cpu_count + 1) % Word ELSE cpu_count
       /\ ctr' = (ctr + table.length) % Word
       /\ at' = IF Break(table) THEN "start" ELSE "madt"
  /\ sub' = IF sub <= Len(madt.subs) /\ ctr' # ctr THEN sub + 1 ELSE sub
  /\ UNCHANGED <<firmware, place, table_count, i, madt, started>>

NoMoreSubTables ==
  /\ at = "madt" /\ ~Walking
  /\ at' = "start"
  /\ UNCHANGED <<firmware, place, table_count, i, walk, started>>

(* Mutant of WillStart: with no processor listed, too. *)
WillStartAnyway == firmware.trampoline

(* Unless trampoline.bin is missing. *)
WillStart == cpu_count > 0 /\ firmware.trampoline

(* SmpBoot is what happens here, with cpu_count processors listed. *)
StartUp ==
  /\ at = "start"
  /\ started' = IF WillStart THEN Append(started, cpu_count) ELSE started
  /\ at' = "tables" /\ i' = i + 1
  /\ UNCHANGED <<firmware, place, table_count, walk>>

AcpiNext ==
  AcpiInstall \/ SearchBios \/ SearchEbda \/ ParseRsdp \/ NextTable \/ NoMoreTables
    \/ NextSubTable \/ NoMoreSubTables \/ StartUp

AcpiSpec == AcpiInit /\ [][AcpiNext]_acpi

-----------------------------------------------------------------------------

AcpiTypeOK ==
  /\ firmware \in Firmwares
  /\ at \in {"idle", "bios", "ebda", "rsdp", "tables", "madt", "start", "done"}
  /\ place \in Nat \ {0}
  /\ table_count \in 0 .. Word - 1
  /\ i \in 0 .. table_count
  /\ madt \in Tables
  /\ sub \in 1 .. Len(madt.subs) + 1
  /\ ctr \in 0 .. Word - 1 /\ cpu_count \in 0 .. Word - 1
  /\ started \in Seq(1 .. Word - 1)

Good(area) == {p \in DOMAIN area : area[p].sig /\ area[p].sum}

(* FindRsdp returns the first place with signature and checksum, those of   *)
(* the BIOS area before those of the EBDA, and nothing only if there is     *)
(* none: with none nothing is started.                                      *)
FoundIsGood ==
  /\ Good(firmware.bios) = {} /\ Good(firmware.ebda) = {} =>
       at \in {"idle", "bios", "ebda", "done"} /\ started = <<>>
  /\ Good(firmware.bios) # {} =>
       at # "ebda" /\ (at \notin {"idle", "bios"} => place \in Good(firmware.bios))
  /\ at = "rsdp" =>
       LET area == IF Good(firmware.bios) # {} THEN firmware.bios ELSE firmware.ebda
       IN  place \in Good(area) /\ \A p \in Good(area) : place <= p

(* ParseRsdp reads pointers to tables inside of the RSDT only, provided     *)
(* that the RSDT is at least as long as its header.                         *)
RsdtInside ==
  firmware.rsdt.length >= RsdtSize =>
    /\ (at = "tables" /\ i # table_count) => RsdtSize + 4 * i + 4 <= firmware.rsdt.length
    /\ at \in {"madt", "start"} => RsdtSize + 4 * i + 4 <= firmware.rsdt.length

(* Where the sub-tables of a MADT end, and the processors among the first k. *)
Reach(t) ==
  LET reach[k \in 0 .. Len(t.subs)] ==
        IF k = 0 THEN MadtSize ELSE reach[k - 1] + t.subs[k].length
  IN  reach
ProcessorsTo(t, k) == Cardinality({j \in 1 .. k : t.subs[j].type = LOCAL_APIC})
Processors(t) == ProcessorsTo(t, Len(t.subs))

(* What the code expects of firmware: every length is that of what is there. *)
SoundMadt(t) ==
  /\ \A k \in DOMAIN t.subs : t.subs[k].length > 0
  /\ t.length = Reach(t)[Len(t.subs)]
Sound ==
  LET rsdt == firmware.rsdt
  IN  /\ rsdt.length = RsdtSize + 4 * Len(rsdt.tables)
      /\ \A k \in DOMAIN rsdt.tables : rsdt.tables[k].apic => SoundMadt(rsdt.tables[k])

(* The processors of each MADT that lists some, for the first k tables.      *)
Counts ==
  LET counts[k \in 0 .. Len(firmware.rsdt.tables)] ==
        IF k = 0 THEN <<>>
        ELSE LET t == firmware.rsdt.tables[k]
             IN  IF t.apic /\ Processors(t) > 0 THEN Append(counts[k - 1], Processors(t))
                                                ELSE counts[k - 1]
  IN  counts

(* The processors that sound MADTs list are those that are started and      *)
(* waited for, MADT after MADT in the order of the RSDT.                    *)
CountsListed ==
  (Sound /\ firmware.trampoline) =>
    /\ \E k \in 0 .. Len(firmware.rsdt.tables) : started = Counts[k]
    /\ at = "done" => started \in {<<>>, Counts[Len(firmware.rsdt.tables)]}

(* Install comes to an end, whatever the bytes of the tables are, if no     *)
(* MADT claims to reach to the end of the address space: there the counter  *)
(* may wrap around.                                                         *)
CountersFit == \A t \in Strays \cup {firmware.rsdt.tables[k] : k \in DOMAIN firmware.rsdt.tables} :
                 t.apic => t.length + MaxSub <= Word
InstallEnds == at # "idle" /\ CountersFit ~> at = "done"
===============================================================================
