----------------------------- MODULE MCInbound -----------------------------
(* Instances of Inbound for TLC. *)
EXTENDS Inbound, TLC

CONSTANTS p1, p2, c1

OneProc  == {p1}
TwoProcs == {p1, p2}
OneChat  == {c1}

KindsText   == {"text"}
KindsOther  == {"ignored", "blank", "file"}
KindsPoison == {"text", "poison"}

SymProcs == Permutations(TwoProcs)
=============================================================================
