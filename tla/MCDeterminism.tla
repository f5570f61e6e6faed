--------------------------- MODULE MCDeterminism ----------------------------
(***************************************************************************)
(* The guests of MCSupervisor run twice.                                   *)
(***************************************************************************)
EXTENDS MCSupervisor, Determinism
=============================================================================
