----------------------------- MODULE MCDxlOrders -----------------------------
(***************************************************************************)
(* Three servos, of which the table follows two; packets of one servo, so  *)
(* that a flush may take two rounds; a register of 4 steps over 4 degrees, *)
(* so that -2 degrees is value 0, that of an entry nothing was ordered to, *)
(* and 3 degrees is out of the limits.                                     *)
(***************************************************************************)
EXTENDS DxlOrders, TLC

Asked == {-2, 3}
Shifted == {<<1, -2, 1>>}
=============================================================================
