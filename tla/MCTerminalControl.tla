------------------------- MODULE MCTerminalControl -------------------------
(* One axis of two positions, the enabling button and the disconnecting    *)
(* one.                                                                    *)
EXTENDS TerminalControl

Axis == {"amp1"}
Position == {1, 2}
=============================================================================
