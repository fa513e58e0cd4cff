---------------------------- MODULE MC_QdiscRun -----------------------------
(***************************************************************************)
(* A port with one queue, and its stack, for TLC.                          *)
(***************************************************************************)
EXTENDS QdiscRun, MC_OpenQueue

=============================================================================
