--------------------------- MODULE FrameMapProofs ---------------------------
(* Proofs that the promises of FrameMap are kept by every sequence of its   *)
(* steps.  They are stated for the abstract map; FrameProofs carries them   *)
(* over to the allocator.                                                   *)
EXTENDS FrameMap, TLAPS

(* HeldOnce is not inductive: a byte is only lent once because it is busy   *)
(* while it is lent.                                                        *)
Inv == TypeOK /\ HeldBusy /\ HeldOnce

LEMMA InitInv == Init => Inv
  BY DEF Init, Inv, TypeOK, HeldBusy, HeldOnce, Uses

(* Marking addresses keeps the map well typed. *)
LEMMA MarkType ==
  ASSUME NEW B, NEW u \in Uses, TypeOK, Mark(B, u)
  PROVE  use' \in [Addr -> Uses]
  BY DEF TypeOK, Mark

LEMMA NextInv ==
  ASSUME UsesDistinct, Inv, [Next]_vars
  PROVE  Inv'
<1> USE DEF Inv
<1>1. CASE Discover
  <2>1. TypeOK'
    BY <1>1, MarkType DEF Discover, TypeOK, Uses
  <2>2. \A o \in Owners : \A a \in held[o] : a \in Addr /\ use[a] \in BusyUses
    BY DEF TypeOK, HeldBusy
  <2>3. \A a \in Addr : use[a] \in BusyUses => use'[a] = use[a]
    BY <1>1 DEF Discover, Changed, AllIn, UsesDistinct
  <2> QED
    BY <1>1, <2>1, <2>2, <2>3 DEF Discover, HeldBusy, HeldOnce
<1>2. ASSUME NEW u \in BusyUses, SetAside(u)
      PROVE  Inv'
  <2>1. TypeOK'
    BY <1>2, MarkType DEF SetAside, TypeOK, Uses
  <2>2. \A o \in Owners : \A a \in held[o] : a \in Addr /\ use[a] \in BusyUses
    BY DEF TypeOK, HeldBusy
  <2>3. \A a \in Addr : use[a] \in BusyUses => use'[a] = use[a]
    BY <1>2 DEF SetAside, Changed, AllIn, UsesDistinct
  <2> QED
    BY <1>2, <2>1, <2>2, <2>3 DEF SetAside, HeldBusy, HeldOnce
<1>3. ASSUME NEW o \in Owners, Return(o)
      PROVE  Inv'
  <2>1. TypeOK'
    BY <1>3, MarkType DEF Return, TypeOK, Uses
  <2>2. HeldOnce'
    BY <1>3 DEF Return, TypeOK, HeldOnce
  <2>3. ASSUME NEW p \in Owners, NEW a \in held'[p]
        PROVE  use'[a] \in BusyUses
    <3>1. p # o /\ held'[p] = held[p]
      BY <1>3, <2>3 DEF Return, TypeOK
    <3>2. a \notin held[o] /\ a \in Addr /\ use[a] \in BusyUses
      BY <2>3, <3>1 DEF HeldOnce, HeldBusy, TypeOK
    <3> QED
      BY <1>3, <3>2 DEF Return, Mark
  <2> QED
    BY <2>1, <2>2, <2>3 DEF HeldBusy
<1>4. ASSUME NEW o \in Owners, NEW u \in BusyUses, Lend(o, u)
      PROVE  Inv'
  <2>1. TypeOK'
    BY <1>4, MarkType DEF Lend, TypeOK, Uses
  <2>2. \A p \in Owners : p # o => held'[p] = held[p]
    BY <1>4 DEF Lend, TypeOK
  <2>3. \A p \in Owners : held[p] \cap held'[o] = {}
    BY <1>4 DEF Lend, AllIn, HeldBusy, UsesDistinct
  <2>4. HeldOnce'
    BY <2>2, <2>3 DEF HeldOnce
  <2>5. ASSUME NEW p \in Owners, NEW a \in held'[p]
        PROVE  use'[a] \in BusyUses
    <3>1. CASE p = o
      BY <1>4, <2>5, <3>1 DEF Lend, Mark
    <3>2. CASE p # o
      BY <1>4, <2>2, <2>3, <2>5, <3>2 DEF Lend, Mark, HeldBusy, TypeOK
    <3> QED
      BY <3>1, <3>2
  <2> QED
    BY <2>1, <2>4, <2>5 DEF HeldBusy
<1>5. CASE UNCHANGED vars
  BY <1>5 DEF vars, TypeOK, HeldBusy, HeldOnce
<1> QED
  BY <1>1, <1>2, <1>3, <1>4, <1>5 DEF Next

(* The uses of an address are what they should be in every reachable map.   *)
THEOREM MapInvariant ==
  ASSUME UsesDistinct
  PROVE  Spec => []Inv
<1>1. Init => Inv
  BY InitInv
<1>2. Inv /\ [Next]_vars => Inv'
  BY NextInv
<1> QED
  BY <1>1, <1>2, PTL DEF Spec

(* No byte is ever lent to two owners. *)
THEOREM NeverLentTwice ==
  ASSUME UsesDistinct
  PROVE  Spec => []HeldOnce
<1>1. Inv => HeldOnce
  BY DEF Inv
<1> QED
  BY <1>1, MapInvariant, PTL

(* What was set aside, and is not lent, is left alone by every later step.  *)
THEOREM SetAsideStays ==
  ASSUME UsesDistinct
  PROVE  Spec => SetAsideForGood
<1> DEFINE Kept(a) == use[a] \in BusyUses /\ \A o \in Owners : a \notin held[o]
           Stays(a) == use'[a] = use[a] /\ \A o \in Owners : a \notin held'[o]
<1>1. ASSUME Inv, [Next]_vars
      PROVE  [\A a \in Addr : Kept(a) => Stays(a)]_vars
  <2>1. SUFFICES ASSUME NEW a \in Addr, Kept(a), Next
                 PROVE  Stays(a)
    BY <1>1
  <2>2. CASE Discover
    BY <2>1, <2>2 DEF Discover, Changed, AllIn, UsesDistinct
  <2>3. ASSUME NEW u \in BusyUses, SetAside(u)
        PROVE  Stays(a)
    BY <2>1, <2>3 DEF SetAside, Changed, AllIn, UsesDistinct
  <2>4. ASSUME NEW o \in Owners, Return(o)
        PROVE  Stays(a)
    BY <1>1, <2>1, <2>4 DEF Return, Mark, Inv, TypeOK
  <2>5. ASSUME NEW o \in Owners, NEW u \in BusyUses, Lend(o, u)
        PROVE  Stays(a)
    BY <1>1, <2>1, <2>5 DEF Lend, Mark, AllIn, UsesDistinct, Inv, TypeOK
  <2> QED
    BY <2>1, <2>2, <2>3, <2>4, <2>5 DEF Next
<1> QED
  BY <1>1, MapInvariant, PTL DEF Spec, SetAsideForGood
=============================================================================
