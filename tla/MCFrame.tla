------------------------------- MODULE MCFrame -------------------------------
(* Instances of Frame for TLC: pages of two bytes, a handful of pages. *)
EXTENDS Frame, TLC

Usable1(addr, len) == [addr |-> addr, len |-> len, type |-> 1]
Kept(addr, len, type) == [addr |-> addr, len |-> len, type |-> type]

OwnerSymmetry == Permutations(Owners)

(* A machine in good order: two banks of RAM that do not end on a page     *)
(* boundary, a hole of another type between them, and reservations that    *)
(* split a row in two, shorten one, and use one up.                        *)
MapRoomy == <<Usable1(0, 9), [addr |-> 9, len |-> 2, type |-> 2], Usable1(11, 18)>>
KeptRoomy == <<Kept(0, 2, FRAME_USED), Kept(15, 1, FRAME_AVAILABLE), Kept(25, 3, FRAME_USED)>>
SizesRoomy == {1, 3}
LimitsRoomy == {8, 64}

(* The same with less memory. *)
MapSmall == <<Usable1(0, 9), [addr |-> 9, len |-> 2, type |-> 2], Usable1(11, 12)>>
KeptSmall == <<Kept(0, 2, FRAME_USED), Kept(15, 1, FRAME_AVAILABLE)>>

(* Every awkward case at once: more ranges of RAM than rows, so that the    *)
(* last one overwrites row 0; a range shorter than a page; RAM that a       *)
(* size_t cannot address; an empty module; a structure that straddles a     *)
(* page already taken; empty segments; a table that fills up.               *)
MapOdd == <<Usable1(0, 5), Usable1(7, 1), Usable1(9, 3), Usable1(12, 2), Usable1(14, 2),
            Usable1(16, 2), Usable1(19, 1), Usable1(21, 2), Usable1(23, 21)>>
KeptOdd == <<Kept(0, 2, FRAME_USED), Kept(28, 0, FRAME_USED), Kept(34, 2, FRAME_AVAILABLE),
             Kept(33, 2, FRAME_AVAILABLE)>>
SizesOdd == {0, 1, 3}
LimitsOdd == {1, 26, 64}
=============================================================================
