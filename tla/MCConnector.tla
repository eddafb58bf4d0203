----------------------------- MODULE MCConnector ----------------------------
(* Instances of Connector for TLC. *)
EXTENDS Connector, TLC

CONSTANTS p1, c1, c2

OneProc  == {p1}
OneChat  == {c1}
TwoChats == {c1, c2}

KindsText  == {"text"}
KindsTried == {"text", "poison"}
BodyText   == {<<"text">>}
=============================================================================
