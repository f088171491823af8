----------------------------- MODULE MCTerminal -----------------------------
(* A command and a parameter whose names begin alike, typed into a short   *)
(* buffer.                                                                 *)
EXTENDS Terminal

Letters == {"p", Assign}
Command == {<<"p", "p">>}
Parameter == {<<"p">>}
=============================================================================
