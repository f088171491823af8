----------------------------- MODULE BoundedFifo -----------------------------
(***************************************************************************)
(* What the receive buffer of a serial port promises when it is not        *)
(* overrun: the bytes come out in the order in which they came in, each    *)
(* once, and no more than Capacity wait.  Byte n is the n-th received.     *)
(***************************************************************************)
EXTENDS Naturals, Sequences

CONSTANT Capacity

VARIABLES
  queue,      (* the bytes that wait                                        *)
  received,   (* the last byte put in                                       *)
  taken       (* the last byte taken out                                    *)

vars == <<queue, received, taken>>

Init == queue = <<>> /\ received = 0 /\ taken = 0

Put ==
  /\ Len(queue) < Capacity
  /\ received' = received + 1
  /\ queue' = Append(queue, received')
  /\ UNCHANGED taken

Take ==
  /\ queue # <<>>
  /\ taken' = Head(queue)
  /\ queue' = Tail(queue)
  /\ UNCHANGED received

Spec == Init /\ [][Put \/ Take]_vars
=============================================================================
