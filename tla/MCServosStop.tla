---------------------------- MODULE MCServosStop ----------------------------
(* Two servos on one channel, no calibration.                               *)
EXTENDS ServosStop, TLC

None == {}
PinSymmetry == Permutations(Pins)
=============================================================================
