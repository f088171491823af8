------------------------------ MODULE MCServos ------------------------------
(* Instances of Servos for TLC.                                            *)
EXTENDS Servos, TLC

(* Calibrations, as <<min, init, max>>: a range that goes beyond the       *)
(* period, and one that the code refuses.                                  *)
Calibrated == {<<1, 3, 3>>, <<2, 2, 2>>}
None == {}

(* The pins are interchangeable: they only ever stand for themselves.      *)
PinSymmetry == Permutations(Pins)
=============================================================================
