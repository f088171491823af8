----------------------------- MODULE MCMainLoop -----------------------------
(* Names of one letter, and an exit string of two bytes, which the         *)
(* terminal takes for a command when it gets to read it.                   *)
EXTENDS MainLoop

Letters == {"r", "c"}
RhockName == <<"r">>
RcName == <<"c">>
Exit == <<"c", CR>>
Bytes == Letters \cup {CR, DEL, ESC, NUL}
=============================================================================
