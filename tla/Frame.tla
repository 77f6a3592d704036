-------------------------------- MODULE Frame --------------------------------
(***************************************************************************)
(* The loader's physical frame allocator (loader/src/frame.cpp) and the    *)
(* order in which kmain uses it: the firmware's memory map is added, the   *)
(* ranges that are already in use are reserved, and then page tables, ELF  *)
(* segments and the AP trampoline are allocated and released.              *)
(*                                                                         *)
(* g_mem is a fixed table of rows.  A row's first word carries its start   *)
(* address with the flags in the bits below the page size, so the record   *)
(* below stands for the two words exactly as long as rows stay page        *)
(* aligned (RowsAligned).  mem_index is a uint8_t: it counts the rows in   *)
(* use, modulo the number of rows there are.                               *)
(***************************************************************************)
EXTENDS Integers, Sequences, FiniteSets

CONSTANTS
  PageSize,      \* 4096
  Slots,         \* rows of g_mem, and the modulus of mem_index: 256
  PtrLimit,      \* first address a size_t of the 32-bit loader cannot hold: 2^32
  MemTop,        \* bound on physical addresses
  MemoryMap,     \* the multiboot memory map: records [addr, len, type]
  Reservations,  \* kmain's ReserveRange calls in order: records [addr, len, type]
  Owners,        \* callers of Alloc, each with room for one block
  Sizes,         \* sizes they ask for
  Limits         \* values of Alloc's max_addr

FRAME_UNSET == 0
FRAME_FREE == 1
FRAME_USED == 2
FRAME_AVAILABLE == 4

Flags == {FRAME_UNSET, FRAME_FREE, FRAME_USED, FRAME_AVAILABLE}
BusyFlags == {FRAME_USED, FRAME_AVAILABLE}

(* Entries of the memory map that AddRange is called for. *)
Usable == {k \in DOMAIN MemoryMap : MemoryMap[k].type = 1}

RangeBytes(r) == r.addr .. (r.addr + r.len - 1)

ASSUME SizesAssumption ==
  /\ PageSize \in Nat \ {0}
  /\ Slots \in Nat /\ Slots > 2
  /\ PtrLimit \in Nat \ {0}
  /\ MemTop \in Nat

ASSUME MemoryMapAssumption ==
  /\ MemoryMap \in Seq([addr : Nat, len : Nat, type : Nat])
  /\ \A k \in Usable : MemoryMap[k].addr + MemoryMap[k].len <= MemTop
  /\ \A k, l \in Usable : k # l =>
       RangeBytes(MemoryMap[k]) \cap RangeBytes(MemoryMap[l]) = {}

ASSUME CallersAssumption ==
  /\ Reservations \in Seq([addr : Nat, len : Nat, type : BusyFlags])
  /\ Sizes \subseteq Nat
  /\ Limits \subseteq Nat

VARIABLES
  g_mem,         \* the table
  mem_index,     \* rows in use, a uint8_t
  added,         \* entries of MemoryMap kmain has passed
  reserved,      \* entries of Reservations kmain has passed
  loan           \* the block Alloc last returned to every owner

vars == <<g_mem, mem_index, added, reserved, loan>>

Indices == 0 .. (Slots - 1)
Row(s, e, f) == [start |-> s, end |-> e, flag |-> f]
RowType == [start : Nat, end : Nat, flag : Flags]

(* A null pointer: nothing was asked for, or nothing was found. *)
NoLoan == [start |-> 0, end |-> 0]

TypeOK ==
  /\ g_mem \in [Indices -> RowType]
  /\ mem_index \in Indices
  /\ added \in 0 .. Len(MemoryMap)
  /\ reserved \in 0 .. Len(Reservations)
  /\ loan \in [Owners -> [start : Nat, end : Nat]]

InUse == 0 .. (mem_index - 1)
Bytes(b) == b.start .. (b.end - 1)

-----------------------------------------------------------------------------

AlignDown(a) == a - (a % PageSize)
AlignUp(a) == AlignDown(a + (PageSize - 1))

Ptr(a) == a % PtrLimit                    \* an address after a trip through size_t

Init ==
  /\ g_mem = [i \in Indices |-> Row(0, 0, FRAME_UNSET)]
  /\ mem_index = 0
  /\ added = 0
  /\ reserved = 0
  /\ loan = [o \in Owners |-> NoLoan]

(* Mutants of AddRange: a range is rounded outwards; it is not rounded. *)
AddRangeOutward ==
  /\ added < Len(MemoryMap)
  /\ added' = added + 1
  /\ LET m == MemoryMap[added + 1]
     IN  IF m.type = 1
         THEN /\ g_mem' = [g_mem EXCEPT ![mem_index] =
                             Row(AlignDown(m.addr), AlignUp(m.addr + m.len), FRAME_FREE)]
              /\ mem_index' = (mem_index + 1) % Slots
         ELSE UNCHANGED <<g_mem, mem_index>>
  /\ UNCHANGED <<reserved, loan>>

AddRangeAsIs ==
  /\ added < Len(MemoryMap)
  /\ added' = added + 1
  /\ LET m == MemoryMap[added + 1]
     IN  IF m.type = 1
         THEN /\ g_mem' = [g_mem EXCEPT ![mem_index] =
                             Row(m.addr, m.addr + m.len, FRAME_FREE)]
              /\ mem_index' = (mem_index + 1) % Slots
         ELSE UNCHANGED <<g_mem, mem_index>>
  /\ UNCHANGED <<reserved, loan>>

(* kmain walks the memory map; the test "mem_index < 256" in AddRange is   *)
(* true of every uint8_t, so the row after the last one is row 0.          *)
AddRange ==
  /\ added < Len(MemoryMap)
  /\ added' = added + 1
  /\ LET m == MemoryMap[added + 1]
     IN  IF m.type = 1
         THEN /\ g_mem' = [g_mem EXCEPT ![mem_index] =
                             Row(AlignUp(m.addr), AlignDown(m.addr + m.len), FRAME_FREE)]
              /\ mem_index' = (mem_index + 1) % Slots
         ELSE UNCHANGED <<g_mem, mem_index>>
  /\ UNCHANGED <<reserved, loan>>

-----------------------------------------------------------------------------

(* Row i is free and holds all of [s, e). *)
Holds(i, s, e) ==
  /\ g_mem[i].flag = FRAME_FREE
  /\ g_mem[i].start <= s
  /\ e <= g_mem[i].end

FirstHolding(i, s, e) ==
  /\ i \in InUse
  /\ Holds(i, s, e)
  /\ \A j \in 0 .. (i - 1) : ~Holds(j, s, e)

(* Mutants of Carve: the row that is cut keeps its end; a range that fills  *)
(* the row is cut off like any other.                                       *)
CarveKeepsEnd(i, s, e, type) ==
  /\ g_mem' = [g_mem EXCEPT ![mem_index] = Row(s, e, type),
                            ![i] = IF s = g_mem[i].start THEN Row(e, g_mem[i].end, FRAME_FREE)
                                                         ELSE g_mem[i]]
  /\ mem_index' = (mem_index + 1) % Slots

CarveAlwaysAdds(i, s, e, type) ==
  /\ g_mem' = [g_mem EXCEPT ![mem_index] = Row(s, e, type),
                            ![mem_index + 1] = Row(e, g_mem[i].end, FRAME_FREE),
                            ![i] = Row(g_mem[i].start, s, FRAME_FREE)]
  /\ mem_index' = (mem_index + 2) % Slots

(* Cut [s, e) out of the free row i. *)
Carve(i, s, e, type) ==
  LET row == g_mem[i]
  IN  \/ /\ s = row.start /\ e = row.end
         /\ g_mem' = [g_mem EXCEPT ![i] = Row(s, e, type)]
         /\ UNCHANGED mem_index
      \/ /\ s = row.start /\ e # row.end
         /\ g_mem' = [g_mem EXCEPT ![mem_index] = Row(s, e, type),
                                   ![i] = Row(e, row.end, FRAME_FREE)]
         /\ mem_index' = (mem_index + 1) % Slots
      \/ /\ s # row.start /\ e = row.end
         /\ g_mem' = [g_mem EXCEPT ![mem_index] = Row(s, e, type),
                                   ![i] = Row(row.start, s, row.flag)]
         /\ mem_index' = (mem_index + 1) % Slots
      \/ /\ s # row.start /\ e # row.end
         /\ g_mem' = [g_mem EXCEPT ![mem_index] = Row(s, e, type),
                                   ![mem_index + 1] = Row(e, row.end, FRAME_FREE),
                                   ![i] = Row(row.start, s, row.flag)]
         /\ mem_index' = (mem_index + 2) % Slots

(* Frame::ReserveRange: a caller is never told that nothing was reserved. *)
Reserve(addr, len, type) ==
  LET s == AlignDown(addr)
      e == AlignUp(addr + len)
  IN  \/ /\ \/ mem_index = Slots - 1
            \/ \A i \in InUse : ~Holds(i, s, e)
         /\ UNCHANGED <<g_mem, mem_index>>
      \/ /\ mem_index # Slots - 1
         /\ \E i \in InUse : FirstHolding(i, s, e) /\ Carve(i, s, e, type)

(* kmain sets aside the low page, the multiboot structures, the modules    *)
(* and the loader's own image, in that order.                              *)
ReserveRange ==
  /\ added = Len(MemoryMap)
  /\ reserved < Len(Reservations)
  /\ reserved' = reserved + 1
  /\ LET r == Reservations[reserved + 1] IN Reserve(r.addr, r.len, r.type)
  /\ UNCHANGED <<added, loan>>

-----------------------------------------------------------------------------

Booted == added = Len(MemoryMap) /\ reserved = Len(Reservations)

(* Mutant of Fits: the flag is not looked at. *)
FitsBusy(i, max, n) ==
  /\ Ptr(g_mem[i].start) + n <= max
  /\ Ptr(g_mem[i].start) + n <= Ptr(g_mem[i].end)

(* Row i can serve a request: its bounds are read into size_t variables. *)
Fits(i, max, n) ==
  /\ g_mem[i].flag = FRAME_FREE
  /\ Ptr(g_mem[i].start) + n <= max
  /\ Ptr(g_mem[i].start) + n <= Ptr(g_mem[i].end)

LastFitting(i, max, n) ==
  /\ i \in InUse
  /\ Fits(i, max, n)
  /\ \A j \in (i + 1) .. (mem_index - 1) : ~Fits(j, max, n)

NoneFits(max, n) == \A i \in InUse : ~Fits(i, max, n)

(* Frame::Alloc on behalf of o.  ReserveRange's outcome is not looked at. *)
Alloc(o, max, size, type) ==
  /\ Booted
  /\ loan[o] = NoLoan
  /\ LET n == AlignUp(size)
     IN  \/ /\ NoneFits(max, n)
            /\ UNCHANGED <<g_mem, mem_index, loan>>
         \/ \E i \in InUse :
              LET s == Ptr(g_mem[i].start)
              IN  /\ LastFitting(i, max, n)
                  /\ Reserve(s, n, type)
                  /\ loan' = [loan EXCEPT ![o] = [start |-> s, end |-> s + n]]
  /\ UNCHANGED <<added, reserved>>

(* Frame::Free: the first row that starts at a becomes free, whatever it   *)
(* was; neighbouring free rows are not merged.                             *)
FreeAt(a) ==
  \/ /\ \A i \in InUse : g_mem[i].start # a
     /\ UNCHANGED g_mem
  \/ \E i \in InUse :
       /\ g_mem[i].start = a
       /\ \A j \in 0 .. (i - 1) : g_mem[j].start # a
       /\ g_mem' = [g_mem EXCEPT ![i] = Row(a, g_mem[i].end, FRAME_FREE)]

(* An owner gives its block back. *)
Free(o) ==
  /\ Booted
  /\ loan[o] # NoLoan
  /\ FreeAt(loan[o].start)
  /\ loan' = [loan EXCEPT ![o] = NoLoan]
  /\ UNCHANGED <<mem_index, added, reserved>>

(* Acpi::ParseMadt does not look at what Alloc returned: when there was no  *)
(* room for the trampoline it still frees it, at address 0.                *)
FreeRefused(max, size) ==
  /\ Booted
  /\ NoneFits(max, AlignUp(size))
  /\ FreeAt(0)
  /\ UNCHANGED <<mem_index, added, reserved, loan>>

AllocOrFree ==
  \E o \in Owners :
    \/ \E max \in Limits, size \in Sizes, type \in BusyFlags : Alloc(o, max, size, type)
    \/ Free(o)

(* Callers that only free what they were lent. *)
Next ==
  \/ AddRange
  \/ ReserveRange
  \/ AllocOrFree

Spec == Init /\ [][Next]_vars

(* The callers the loader has. *)
CallersNext ==
  \/ Next
  \/ \E max \in Limits, size \in Sizes : FreeRefused(max, size)

CallersSpec == Init /\ [][CallersNext]_vars

-----------------------------------------------------------------------------

(* No byte is described by two rows: two free rows that overlap would be    *)
(* lent twice.                                                              *)
RowsDisjoint ==
  \A i, j \in InUse : i # j => Bytes(g_mem[i]) \cap Bytes(g_mem[j]) = {}

(* The RAM the firmware reported up to now. *)
Ram == UNION {RangeBytes(MemoryMap[k]) : k \in {l \in Usable : l <= added}}

(* No row speaks of memory that is not RAM, so Alloc cannot lend a hole. *)
RowsInRam == \A i \in InUse : Bytes(g_mem[i]) \subseteq Ram

Aligned(a) == a % PageSize = 0

(* Rows stay page aligned.  Flags are or-ed into the low bits of an address *)
(* and masked out again: an unaligned row would corrupt both.               *)
RowsAligned == \A i \in InUse : Aligned(g_mem[i].start) /\ Aligned(g_mem[i].end)

(* Whole pages of usable RAM found so far. *)
RamPages ==
  UNION {AlignUp(MemoryMap[k].addr) .. (AlignDown(MemoryMap[k].addr + MemoryMap[k].len) - 1) :
           k \in {l \in Usable : l <= added}}

PagesOf(B) == {a \in B : Aligned(a)}

(* However often blocks are lent and returned, the table holds at most one  *)
(* row per page of RAM: splitting never leaves a row with nothing in it.    *)
OneRowPerPage == mem_index <= Cardinality(PagesOf(RamPages))

-----------------------------------------------------------------------------

(* The abstract use of an address: the flag of the row that covers it. *)
Covering(a) == {i \in InUse : a \in Bytes(g_mem[i])}

UseOf(a) ==
  IF Covering(a) = {} THEN FRAME_UNSET
                      ELSE g_mem[CHOOSE i \in Covering(a) : TRUE].flag

Addresses == 0 .. (MemTop - 1)

Map == INSTANCE FrameMap WITH
         Addr <- Addresses,
         Absent <- FRAME_UNSET,
         FreeUse <- FRAME_FREE,
         BusyUses <- BusyFlags,
         use <- [a \in Addresses |-> UseOf(a)],
         held <- [o \in Owners |-> Bytes(loan[o])]

(* The allocator keeps the promises of FrameMap: what is lent was free and  *)
(* whole, what is returned is free again, nothing else changes hands.       *)
ImplementsFrameMap == Map!Spec

-----------------------------------------------------------------------------

(* What comments in the code say of the allocator, and what it does not do  *)
(* for every memory map.                                                    *)

(* frame.cpp:185 "First verify it's free space..": memory is free at the    *)
(* moment it is lent.                                                       *)
LendsFreeSpace ==
  [][\A o \in Owners : loan'[o] # loan[o] =>
       \A a \in Bytes(loan'[o]) : UseOf(a) = FRAME_FREE]_vars
=============================================================================
