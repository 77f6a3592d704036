------------------------------ MODULE FrameMap ------------------------------
(***************************************************************************)
(* What the loader's frame allocator promises the rest of the loader, with *)
(* no table behind it: every byte of the machine has one use, a block that *)
(* is lent stays lent to one owner until that owner returns it, and a byte *)
(* that was set aside is never lent.  Frame.tla is the allocator itself;   *)
(* its steps implement the steps below.                                    *)
(***************************************************************************)
EXTENDS Naturals

CONSTANTS
  Addr,        \* byte addresses of the machine
  Owners,      \* the holders of lent memory: page tables, segments, the trampoline
  Absent,      \* use of an address at which there is no RAM
  FreeUse,     \* use of RAM nobody holds
  BusyUses     \* uses of RAM that is set aside or lent (FRAME_USED, FRAME_AVAILABLE)

(* The three kinds of use are told apart. *)
UsesDistinct ==
  /\ Absent # FreeUse
  /\ Absent \notin BusyUses
  /\ FreeUse \notin BusyUses

VARIABLES
  use,         \* the use of every address
  held         \* the addresses every owner was lent

vars == <<use, held>>

Uses == {Absent, FreeUse} \cup BusyUses

TypeOK ==
  /\ use \in [Addr -> Uses]
  /\ held \in [Owners -> SUBSET Addr]

AllIn(B, u) == \A a \in B : use[a] = u

Mark(B, u) == use' = [a \in Addr |-> IF a \in B THEN u ELSE use[a]]

(* The addresses whose use a step changes. *)
Changed == {a \in Addr : use'[a] # use[a]}

Init ==
  /\ use = [a \in Addr |-> Absent]
  /\ held = [o \in Owners |-> {}]

-----------------------------------------------------------------------------

(* The memory map of the boot loader reports a range of RAM. *)
Discover ==
  /\ UNCHANGED held
  /\ LET found == Changed IN AllIn(found, Absent) /\ Mark(found, FreeUse)

(* A range that is free as a whole is set aside. *)
SetAside(u) ==
  /\ UNCHANGED held
  /\ LET taken == Changed IN AllIn(taken, FreeUse) /\ Mark(taken, u)

(* An owner that holds nothing is lent memory that is free. *)
Lend(o, u) ==
  /\ held[o] = {}
  /\ held'[o] \subseteq Addr
  /\ held' = [held EXCEPT ![o] = held'[o]]
  /\ AllIn(held'[o], FreeUse)
  /\ Mark(held'[o], u)

(* An owner gives back everything it was lent. *)
Return(o) ==
  /\ held' = [held EXCEPT ![o] = {}]
  /\ Mark(held[o], FreeUse)

Next ==
  \/ Discover
  \/ \E u \in BusyUses : SetAside(u)
  \/ \E o \in Owners : Return(o) \/ \E u \in BusyUses : Lend(o, u)

Spec == Init /\ [][Next]_vars

-----------------------------------------------------------------------------

(* No byte is lent to two owners. *)
HeldOnce ==
  \A o, p \in Owners : o # p => held[o] \cap held[p] = {}

(* What is lent is busy, so it can neither be set aside nor lent again. *)
HeldBusy ==
  \A o \in Owners : \A a \in held[o] : use[a] \in BusyUses

(* A byte that is busy but lent to nobody was set aside, and stays so.  The *)
(* kernel, the modules and the low page rely on it.                         *)
SetAsideForGood ==
  [][\A a \in Addr :
       (use[a] \in BusyUses /\ \A o \in Owners : a \notin held[o])
         => use'[a] = use[a] /\ \A o \in Owners : a \notin held'[o]]_vars
=============================================================================
