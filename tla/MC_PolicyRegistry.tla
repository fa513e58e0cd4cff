-------------------------- MODULE MC_PolicyRegistry --------------------------
(***************************************************************************)
(* Three policies for TLC, two of which register under the same name.      *)
(***************************************************************************)
EXTENDS PolicyRegistry

CONSTANTS p1, p2, p3, eth, wifi

SharedName == (p1 :> eth) @@ (p2 :> eth) @@ (p3 :> wifi)

=============================================================================
