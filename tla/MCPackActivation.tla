-------------------------- MODULE MCPackActivation --------------------------
(* Instances of PackActivation for TLC. *)
EXTENDS PackActivation, TLC

CONSTANTS i1, r1, r2, w1, w2

OneImport == {i1}
TwoRecoveries == {r1, r2}
TwoWriters == {w1, w2}

=============================================================================
