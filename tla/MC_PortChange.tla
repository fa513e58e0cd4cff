--------------------------- MODULE MC_PortChange ---------------------------
(* Two policies: one with a single queue, one with two others. *)
EXTENDS PortChange, TLC

CONSTANTS one, two, a, b, e

NamesOf == one :> (0 :> a) @@ two :> (0 :> b @@ 1 :> e)
LastQueue == one :> {0} @@ two :> {1}
Symmetry == Permutations(Skb)
=============================================================================
