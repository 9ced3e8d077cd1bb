------------------------------ MODULE MCStorage ------------------------------
(* Small instances of Storage for TLC.                                     *)
EXTENDS Storage

CONSTANTS c1, c2
=============================================================================
