-------------------------- MODULE MCHotProjection --------------------------
(* An instance of HotProjection for TLC. *)
EXTENDS HotProjection

CONSTANTS p1, r1
=============================================================================
