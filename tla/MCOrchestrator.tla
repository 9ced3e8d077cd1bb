--------------------------- MODULE MCOrchestrator ---------------------------
(* Small instances of Orchestrator for TLC.                                *)
EXTENDS Orchestrator, TLC

CONSTANTS p1, p2, p3

PathSymmetry == Permutations(Paths)
=============================================================================
