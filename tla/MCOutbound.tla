----------------------------- MODULE MCOutbound -----------------------------
(* Instances of Outbound for TLC. *)
EXTENDS Outbound, TLC

CONSTANTS w1, w2, c1, c2

NoWorker   == {}
OneWorker  == {w1}
TwoWorkers == {w1, w2}
OneChat  == {c1}
OtherChat == {c2}
TwoChats == {c1, c2}
NoChat   == {}

ServesTwoC == w1 :> TwoChats
ServesTwin == [w \in TwoWorkers |-> OneChat]
ServesOwn  == w1 :> {c1} @@ w2 :> {c2}

OneThread  == {1}
TwoThreads == {1, 2}

BodiesTwo   == {<<"text", "file">>, <<"text", "bad">>}
BodiesText  == {<<"text">>}
=============================================================================
