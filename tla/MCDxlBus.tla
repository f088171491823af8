------------------------------ MODULE MCDxlBus ------------------------------
(* Instances of DxlBus: two servos, of which servo 1 may be at a position  *)
(* whose bytes look like a header, and an id nobody has.  No status of     *)
(* Positions ends in 255, the status of DeafPositions of servo 1 does.     *)
EXTENDS DxlBus, TLC

Asked == {<<"ping", 3>>, <<"read", 1>>, <<"read", 2>>, <<"write", 2>>}
Positions == 1 :> {<<0, 2>>, <<255, 255, 253, 0>>} @@ 2 :> {<<255, 1>>}
DeafPositions == 1 :> {<<78, 0>>} @@ 2 :> {<<255, 1>>}
=============================================================================
