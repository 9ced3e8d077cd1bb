---------------------------- MODULE MCTokenGuard ----------------------------
(* A small instance of TokenGuard for TLC.                                 *)
EXTENDS TokenGuard

CONSTANTS c1, c2
=============================================================================
