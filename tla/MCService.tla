----------------------------- MODULE MCService -----------------------------
(***************************************************************************)
(* The instance of Bursts that implements NgramService: its constants keep *)
(* the restrictions that the theorems of Bursts_refinement assume.         *)
(***************************************************************************)
EXTENDS MCBursts

ASSUME ServiceAssumption == Careful
=============================================================================
