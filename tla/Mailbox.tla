------------------------------- MODULE Mailbox -------------------------------
(***************************************************************************)
(* What the command queue of the joypad client promises (TerminalControl): *)
(* a box per command, in which the next order to that command replaces the *)
(* one that waits.  An order is taken out whole; the one that was taken    *)
(* last is not taken again; the others are written to the line, in the     *)
(* order in which they are taken, or dropped when there is no connection.  *)
(***************************************************************************)
EXTENDS Sequences

CONSTANTS Key, Args, None

VARIABLES
  box,      (* what waits for each command                                  *)
  noted,    (* what was last taken of each                                  *)
  flight,   (* the order that was taken and is neither written nor dropped  *)
  wire      (* what was written and the robot has not read                  *)

vars == <<box, noted, flight, wire>>

Order == [key : Key, args : Args]

Init ==
  /\ box = [key \in Key |-> None] /\ noted = [key \in Key |-> None]
  /\ flight = None /\ wire = <<>>

Give(key, args) ==
  /\ box' = [box EXCEPT ![key] = args]
  /\ UNCHANGED <<noted, flight, wire>>

Take(key) ==
  /\ box[key] # None /\ flight = None
  /\ box' = [box EXCEPT ![key] = None]
  /\ noted' = [noted EXCEPT ![key] = box[key]]
  /\ flight' = IF noted[key] = box[key] THEN None ELSE [key |-> key, args |-> box[key]]
  /\ UNCHANGED wire

Write ==
  /\ flight # None
  /\ wire' = Append(wire, flight)
  /\ flight' = None
  /\ UNCHANGED <<box, noted>>

Drop ==
  /\ flight # None
  /\ flight' = None
  /\ UNCHANGED <<box, noted, wire>>

Read == wire # <<>> /\ wire' = Tail(wire) /\ UNCHANGED <<box, noted, flight>>

Cut == wire' = <<>> /\ UNCHANGED <<box, noted, flight>>

Next ==
  \/ \E key \in Key : Take(key) \/ \E args \in Args : Give(key, args)
  \/ Write \/ Drop \/ Read \/ Cut

Spec == Init /\ [][Next]_vars
=============================================================================
