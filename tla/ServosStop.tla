------------------------------ MODULE ServosStop ------------------------------
(***************************************************************************)
(* What comes of `start' when the board button stops the servos meanwhile. *)
(* The history variable `met' is set when the button comes while           *)
(* servos_enable_all enables the servos one after the other, and reset by  *)
(* the next command.                                                       *)
(***************************************************************************)
EXTENDS Servos

VARIABLE met

StopInit == Init /\ met = FALSE

StopNext ==
  \/ button_pressed /\ met' = (met \/ main.op = "start")
  \/ Command /\ met' = FALSE
  \/ (Tick \/ _servos_irq \/ Progress) /\ UNCHANGED met

StopSpec == StopInit /\ [][StopNext]_<<vars, met>>

(* servos_enable_all starts all servos, servos_disable_all stops all: when *)
(* both are done, and nothing else was asked, either all servos are driven *)
(* or none is.                                                             *)
AllOrNone == met /\ main = Idle => Driven \in {{}, Registered}
=============================================================================
