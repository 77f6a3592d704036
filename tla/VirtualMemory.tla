---------------------------- MODULE VirtualMemory ----------------------------
(***************************************************************************)
(* The page tables the loader builds (loader/src/virtual.cpp): Install     *)
(* takes a page for the PML4, Map walks from it to the page table of an    *)
(* address, making the tables that are missing, and MapRange maps page     *)
(* after page.                                                             *)
(*                                                                         *)
(* Addresses are page numbers.  A table entry is the number of the page it *)
(* points to, or Unset for a word that is zero; every caller in the loader *)
(* passes the same flags, so they are left out.                            *)
(***************************************************************************)
EXTENDS Integers, Sequences

CONSTANTS
  Levels, Fanout,   \* 4 tables on the way to a page, each of 512 entries
  PageCount,        \* physical pages; a null pointer points to page 0
  Frames,           \* those the frame allocator has to give
  LowPages,         \* pages of the first megabyte: 256
  Dirty,            \* pages that held something when the machine started
  Requests,         \* other calls of MapRange: records [phys, virt, size]
  Unset

Pages == 0 .. (PageCount - 1)
Indices == 0 .. (Fanout - 1)

(* Pages below one entry of a table of level n + 1. *)
Span[n \in 0 .. Levels] == IF n = 0 THEN 1 ELSE Fanout * Span[n - 1]

VirtualPages == 0 .. (Span[Levels] - 1)
Entry == Pages \cup {Unset}

(* What MapRange may be asked to map. *)
Ranges ==
  {r \in [phys : Pages, virt : VirtualPages, size : Nat] :
     r.phys + r.size <= PageCount /\ r.virt + r.size <= Span[Levels]}

ASSUME TablesAssumption ==
  /\ Levels \in Nat \ {0} /\ Fanout \in Nat \ {0}
  /\ PageCount \in Nat \ {0}
  /\ Frames \subseteq Pages \ {0}
  /\ Dirty \subseteq Pages
  /\ LowPages \in Nat /\ LowPages <= PageCount /\ LowPages <= Span[Levels]
  /\ Requests \subseteq Ranges
  /\ Unset \notin Nat

VARIABLES
  mem,          \* every page, read as a table
  free,         \* pages Frame::Alloc can still give
  pml4_table,
  todo,         \* MapRange calls under way: what is left of each
  level, table  \* where Map is: the table it has reached, and that table's level

vars == <<mem, free, pml4_table, todo, level, table>>

TypeOK ==
  /\ mem \in [Pages -> [Indices -> Entry]]
  /\ free \subseteq Frames
  /\ pml4_table \in Entry
  /\ todo \in Seq({r \in Ranges : r.size > 0})
  /\ level \in 1 .. Levels
  /\ table \in Entry

Clear == [i \in Indices |-> Unset]

Init ==
  /\ mem = [p \in Pages |-> IF p \in Dirty THEN [i \in Indices |-> p] ELSE Clear]
  /\ free = Frames
  /\ pml4_table = Unset
  /\ todo = <<>>
  /\ level = Levels
  /\ table = Unset

-----------------------------------------------------------------------------

(* Frame::Alloc takes the start of a row of free pages.  It returns null    *)
(* when there is none.                                                      *)
Starts == {p \in free : p - 1 \notin free}
AllocPage == IF free = {} THEN {0} ELSE Starts

(* Entry of a virtual page in the table of a level; the PML4 has the        *)
(* highest level.                                                           *)
Index(virt, l) == (virt \div Span[l - 1]) % Fanout

(* The page Map is at work on. *)
Phys == Head(todo).phys
Virt == Head(todo).virt
Here == Index(Virt, level)

(* What a call of MapRange has to do: nothing, if its range is empty. *)
Work(range) == IF range.size > 0 THEN <<range>> ELSE <<>>

-----------------------------------------------------------------------------

(* VirtualMemory::Install: the page for the PML4 is used as it is. *)
Install ==
  /\ pml4_table = Unset
  /\ \E p \in AllocPage :
       /\ pml4_table' = p
       /\ table' = p
       /\ free' = free \ {p}
  /\ todo' = Work([phys |-> 0, virt |-> 0, size |-> LowPages])
  /\ UNCHANGED <<mem, level>>

(* Any other caller of MapRange, one call after the other. *)
MapRange(r) ==
  /\ pml4_table # Unset
  /\ todo = <<>>
  /\ todo' = Work(r)
  /\ UNCHANGED <<mem, free, pml4_table, level, table>>

(* Map, on its way down: the table of the next level is there ... *)
Descend ==
  /\ todo # <<>> /\ level > 1
  /\ mem[table][Here] # Unset
  /\ table' = mem[table][Here]
  /\ level' = level - 1
  /\ UNCHANGED <<mem, free, pml4_table, todo>>

(* Mutant of NewTable: the table is not cleared. *)
NewTableAsIs ==
  /\ todo # <<>> /\ level > 1
  /\ mem[table][Here] = Unset
  /\ \E p \in AllocPage :
       /\ mem' = [mem EXCEPT ![table][Here] = p]
       /\ free' = free \ {p}
       /\ table' = p
  /\ level' = level - 1
  /\ UNCHANGED <<pml4_table, todo>>

(* ... or it is allocated, cleared and entered.  What Alloc returned is not *)
(* looked at.                                                               *)
NewTable ==
  /\ todo # <<>> /\ level > 1
  /\ mem[table][Here] = Unset
  /\ \E p \in AllocPage :
       /\ mem' = [mem EXCEPT ![p] = Clear, ![table][Here] = p]
       /\ free' = free \ {p}
       /\ table' = p
  /\ level' = level - 1
  /\ UNCHANGED <<pml4_table, todo>>

(* Mutant of SetEntry: the next page starts from the table of the last. *)
SetEntryStays ==
  /\ todo # <<>> /\ level = 1
  /\ mem' = [mem EXCEPT ![table][Here] = Phys]
  /\ todo' = IF Head(todo).size = 1 THEN Tail(todo)
             ELSE <<[phys |-> Phys + 1, virt |-> Virt + 1, size |-> Head(todo).size - 1]>>
                  \o Tail(todo)
  /\ IF Head(todo).size = 1 THEN level' = Levels /\ table' = pml4_table
                            ELSE UNCHANGED <<level, table>>
  /\ UNCHANGED <<free, pml4_table>>

(* The page table: set the entry, go on to the next page of the range. *)
SetEntry ==
  /\ todo # <<>> /\ level = 1
  /\ mem' = [mem EXCEPT ![table][Here] = Phys]
  /\ todo' = IF Head(todo).size = 1 THEN Tail(todo)
             ELSE <<[phys |-> Phys + 1, virt |-> Virt + 1, size |-> Head(todo).size - 1]>>
                  \o Tail(todo)
  /\ level' = Levels
  /\ table' = pml4_table
  /\ UNCHANGED <<free, pml4_table>>

Map == Descend \/ NewTable \/ SetEntry

Next == Install \/ Map \/ \E r \in Requests : MapRange(r)

Spec == Init /\ [][Next]_vars

-----------------------------------------------------------------------------

(* The way of the processor from the PML4 to a virtual page: what it has    *)
(* reached after l tables.                                                  *)
Walk(virt) ==
  LET at[l \in 0 .. Levels] ==
        IF l = 0 THEN pml4_table
        ELSE IF at[l - 1] = Unset THEN Unset
        ELSE mem[at[l - 1]][Index(virt, Levels + 1 - l)]
  IN  at

(* The physical page of a virtual page, or Unset. *)
Translate(virt) == Walk(virt)[Levels]

Translation == [v \in VirtualPages |-> Translate(v)]

(* A step of the mapper changes what the processor sees for the one page it *)
(* was asked to map, when it sets that page's entry, and for no other:      *)
(* making a table adds no mapping and loses none, whatever the page held    *)
(* before, and Install starts with nothing mapped.                          *)
MapsAsAsked ==
  [][Translation' = IF SetEntry THEN [Translation EXCEPT ![Virt] = Phys] ELSE Translation]_vars

(* Entries of the tables between the PML4 and the page tables. *)
TablesAt ==
  LET at[l \in 0 .. (Levels - 1)] ==
        IF l = 0 THEN {pml4_table}
        ELSE {mem[t][i] : t \in at[l - 1], i \in Indices} \ {Unset}
  IN  at

(* Every table is a page of its own, entered in one place only and not      *)
(* available to anyone else.                                                *)
TablesApart ==
  pml4_table # Unset =>
    /\ \A l \in 0 .. (Levels - 1) : TablesAt[l] \subseteq Frames \ free
    /\ \A l, k \in 0 .. (Levels - 1) : l # k => TablesAt[l] \cap TablesAt[k] = {}
    /\ \A l \in 0 .. (Levels - 2) : \A t, u \in TablesAt[l] : \A i, j \in Indices :
         (mem[t][i] # Unset /\ mem[t][i] = mem[u][j]) => <<t, i>> = <<u, j>>
=============================================================================
