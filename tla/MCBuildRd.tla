----------------------------- MODULE MCBuildRd -----------------------------
(* Instances of BuildRd for TLC: names and files of different lengths, one *)
(* of the files empty.                                                     *)
EXTENDS BuildRd, TLC

CONSTANTS kernel, trampoline, font, none, old, new

Lengths == kernel :> 2 @@ trampoline :> 3 @@ font :> 1
Sizes == none :> 0 @@ old :> 1 @@ new :> 2

NodeSymmetry == Permutations(Nodes)
=============================================================================
