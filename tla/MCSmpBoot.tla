----------------------------- MODULE MCSmpBoot -----------------------------
(* Instances of SmpBoot for TLC. *)
EXTENDS SmpBoot, TLC

ApSymmetry == Permutations(Aps)
=============================================================================
