---------------------------- MODULE MCFlashStore ----------------------------
(* Pages of two words; less than a page, a page, and a page and a half     *)
(* with a rest that does not fill its word.                                *)
EXTENDS FlashStore

Halves == {"erased", "other"}
Bytes == {5, 8, 11}
=============================================================================
