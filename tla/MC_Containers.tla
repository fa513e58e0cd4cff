--------------------------- MODULE MC_Containers ----------------------------
(***************************************************************************)
(* Two ports that share the caches, for TLC: the long one fills up to      *)
(* three packets, the short one drops from two packets on.                 *)
(***************************************************************************)
EXTENDS Containers, TLC

CONSTANTS long, short

Limits == (long :> 3) @@ (short :> 2)
Keys == {<<0, 0>>, <<0, 1>>, <<1, 0>>}
Symmetry == Permutations(Skb)

=============================================================================
