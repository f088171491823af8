------------------------------- MODULE Servos -------------------------------
(***************************************************************************)
(* The PWM servos of LibRhoban (servos.cpp) with the start/stop commands   *)
(* that drive them (commands.cpp).  Three parties touch the same globals:  *)
(* the main thread (terminal commands), the interrupt of timer 1, which    *)
(* raises and lowers the output pins, and the interrupt of the board       *)
(* button, which disables every servo.  All interrupts have one priority:  *)
(* a handler runs to completion between two steps of the main thread.      *)
(*                                                                         *)
(* Time is the counter of timer 1, cut into Overflow+1 ticks.  The timer   *)
(* has Channels compare channels, each multiplexing PerChannel servos, and *)
(* a last channel, comparing with 0, that marks the start of a slot.       *)
(*                                                                         *)
(* A servo is known by its pin: its label is the argument of the commands  *)
(* and is left out.  `reversed' and the degree conversion only choose the  *)
(* value given to servos_set_pos, which here is any value of Positions.    *)
(***************************************************************************)
EXTENDS Integers

CONSTANTS
  PerChannel,    (* SERVOS_PER_CHANNEL                                      *)
  Channels,      (* SERVOS_CHANNELS                                         *)
  Overflow,      (* SERVOS_TIMERS_OVERFLOW, in ticks                        *)
  DefaultInit,   (* the init position servos_register gives, in ticks       *)
  Pins,          (* the pins a servo may be registered on                   *)
  Positions,     (* the positions the commands ask for                      *)
  Calibrations,  (* the <<min, init, max>> the calibrate command is given   *)
  Punctual,      (* the interrupt is served before the next tick            *)
  RegisterLive   (* servos are registered while others are driven           *)

ASSUME ServosAssumption ==
  /\ PerChannel \in Nat \ {0} /\ Channels \in Nat \ {0}
  /\ Overflow \in Nat \ {0} /\ DefaultInit \in 0..Overflow
  /\ Pins # {}
  /\ Positions \subseteq Nat
  /\ Calibrations \subseteq Nat \X Nat \X Nat
  /\ Punctual \in BOOLEAN /\ RegisterLive \in BOOLEAN

VARIABLES
  Servos,          (* the servo table, by index                             *)
  Servos_count,    (* how many entries of it are registered                 *)
  Servos_current,  (* the slot being output, the same on every channel      *)
  counter,         (* the counter register of timer 1                       *)
  compare,         (* the compare register of each servo channel            *)
  pending,         (* the compare flags of the status register              *)
  level,           (* the level of each pin                                 *)
  led,             (* the level of the board LED                            *)
  started,         (* the flag start_stop consults                          *)
  main             (* what the main thread is in the middle of              *)

timer == <<Servos_current, counter, compare, pending>>
vars == <<Servos, Servos_count, timer, level, led, started, main>>

SERVOS_MAX_NB == PerChannel * Channels
Index == 0 .. SERVOS_MAX_NB - 1
Slot == 0 .. PerChannel - 1
Channel == 0 .. Channels - 1
CC4 == Channels
Level == {"LOW", "HIGH"}

Servo == [pin : Pins, min : Nat, max : Nat, init : Nat, pos : Nat,
          enabled : BOOLEAN]

(* The operations of the main thread that an interrupt may come into, with *)
(* the index their loop has reached, or their servo.  `clearing' is set    *)
(* between the write of `enabled' and the write of the pin in              *)
(* servos_enable(index, false).  servos_calibrate is about to write the    *)
(* field `op' names, out of the `given' range.                             *)
Activity == [op : {"idle", "disable", "start", "stop", "flush", "max", "init", "pos"},
             i : 0 .. SERVOS_MAX_NB, clearing : BOOLEAN, given : Nat \X Nat \X Nat]

Idle == [op |-> "idle", i |-> 0, clearing |-> FALSE, given |-> <<0, 0, 0>>]

Doing(op) == main.op = op /\ ~main.clearing

Registered == 0 .. Servos_count - 1

SERVO_FOR_CHANNEL(channel, current) == channel * PerChannel + current

-----------------------------------------------------------------------------
(* The state after servos_init: the table is zeroed memory (`pin' is then  *)
(* some pin, never looked at), the timer has just been configured.         *)
Init ==
  /\ \E p \in Pins :
       Servos = [i \in Index |-> [pin |-> p, min |-> 0, max |-> 0, init |-> 0,
                                 pos |-> 0, enabled |-> FALSE]]
  /\ Servos_count = 0
  /\ Servos_current = 0
  /\ counter = 0
  /\ compare = [c \in Channel |-> Overflow \div 2]
  /\ pending = {}
  /\ level = [p \in Pins |-> "LOW"]
  /\ led = "LOW"
  /\ started = FALSE
  /\ main = Idle

-----------------------------------------------------------------------------
(* Timer 1.                                                                *)

(* The counter advances and the comparators raise their flags.             *)
Tick ==
  /\ Punctual => pending = {}
  /\ counter' = IF counter = Overflow THEN 0 ELSE counter + 1
  /\ pending' = pending \cup {c \in Channel : compare[c] = counter'}
                        \cup {c \in {CC4} : counter' = 0}
  /\ UNCHANGED <<Servos, Servos_count, Servos_current, compare, level, led,
                 started, main>>

(* The slot and the servos the handlers of one interrupt work on.  The     *)
(* dispatcher samples the flags once and calls the handler of channel 4,   *)
(* which moves to the next slot, before those of channels 3, 2 and 1.      *)
NextSlot_SkipsLast ==
  IF Servos_current + 2 >= PerChannel THEN 0 ELSE Servos_current + 1

NextSlot == IF Servos_current + 1 >= PerChannel THEN 0 ELSE Servos_current + 1

ServedSlot == IF CC4 \in pending THEN NextSlot ELSE Servos_current

Served(channels) ==
  {s \in {Servos[SERVO_FOR_CHANNEL(c, ServedSlot)] : c \in channels} : s.enabled}

(* _servos_update lowers the pin of a channel whose compare flag was       *)
(* sampled; _servos_ovf raises the pins of the slot it opens.              *)
Lowered == {s.pin : s \in Served(pending \ {CC4})}
Raised == IF CC4 \in pending THEN {s.pin : s \in Served(Channel)} ELSE {}

(* The value _servos_ovf writes into a compare register: half a period for *)
(* a servo at rest; HardwareTimer::setCompare limits it to the period.     *)
CompareFor_NoLimit(s) == IF s.enabled THEN s.pos ELSE Overflow \div 2

CompareFor_Reset(s) == Overflow \div 2

CompareFor(s) ==
  IF ~s.enabled            THEN Overflow \div 2
  ELSE IF s.pos > Overflow THEN Overflow ELSE s.pos

_servos_irq ==
  /\ pending # {}
  /\ Servos_current' = ServedSlot
  /\ compare' =
       IF CC4 \in pending
       THEN [c \in Channel |->
              CompareFor(Servos[SERVO_FOR_CHANNEL(c, ServedSlot)])]
       ELSE compare
  /\ level' = [p \in Pins |-> IF p \in Lowered THEN "LOW"
                              ELSE IF p \in Raised THEN "HIGH" ELSE level[p]]
  /\ pending' = {}
  /\ UNCHANGED <<Servos, Servos_count, counter, led, started, main>>

(* initTimer restarts the timer; whether the forced update raises the flag *)
(* of channel 4 at once or a whole period later is up to the hardware.     *)
initTimer ==
  /\ counter' = 0
  /\ compare' = [c \in Channel |-> Overflow \div 2]
  /\ pending' \in {pending, pending \cup {CC4}}
  /\ UNCHANGED Servos_current

-----------------------------------------------------------------------------
(* The board button: servos_disable_all, in one go.                        *)
Driven == {i \in Registered : Servos[i].enabled}

button_pressed_FlagOnly ==
  /\ Servos' = [i \in Index |-> [Servos[i] EXCEPT !.enabled = FALSE]]
  /\ led' = "LOW"
  /\ UNCHANGED <<Servos_count, timer, level, started, main>>

button_pressed ==
  /\ Servos' = [i \in Index |-> IF i \in Driven
                                THEN [Servos[i] EXCEPT !.enabled = FALSE]
                                ELSE Servos[i]]
  /\ level' = [p \in Pins |-> IF p \in {Servos[i].pin : i \in Driven}
                              THEN "LOW" ELSE level[p]]
  /\ led' = "LOW"
  /\ UNCHANGED <<Servos_count, timer, started, main>>

-----------------------------------------------------------------------------
(* The main thread.                                                        *)

Clamp_NoMax(s, pos) == IF pos < s.min THEN s.min ELSE pos

Clamp(s, pos) ==
  LET atLeast == IF pos < s.min THEN s.min ELSE pos
  IN  IF atLeast > s.max THEN s.max ELSE atLeast

servos_register(pin) ==
  /\ main = Idle
  /\ RegisterLive \/ Driven = {}
  /\ Servos_count < SERVOS_MAX_NB
  /\ \A i \in Registered : Servos[i].pin # pin
  /\ Servos' = [Servos EXCEPT ![Servos_count] =
                  [pin |-> pin, min |-> 0, max |-> Overflow,
                   init |-> DefaultInit, pos |-> DefaultInit,
                   enabled |-> FALSE]]
  /\ level' = [level EXCEPT ![pin] = "LOW"]
  /\ Servos_count' = Servos_count + 1
  /\ initTimer
  /\ UNCHANGED <<led, started, main>>

(* servos_calibrate writes one field after the other: the least position,  *)
(* ...                                                                     *)
servos_calibrate(i, c) ==
  /\ main = Idle
  /\ i \in Registered
  /\ c[3] > c[1] /\ c[2] >= c[1] /\ c[2] <= c[3]
  /\ Servos' = [Servos EXCEPT ![i].min = c[1]]
  /\ main' = [Idle EXCEPT !.op = "max", !.i = i, !.given = c]
  /\ UNCHANGED <<Servos_count, timer, level, led, started>>

(* ... the greatest, ...                                                   *)
CalibrateMax ==
  /\ Doing("max")
  /\ Servos' = [Servos EXCEPT ![main.i].max = main.given[3]]
  /\ main' = [main EXCEPT !.op = "init"]
  /\ UNCHANGED <<Servos_count, timer, level, led, started>>

(* ... the initial one, ...                                                *)
CalibrateInit ==
  /\ Doing("init")
  /\ Servos' = [Servos EXCEPT ![main.i].init = main.given[2]]
  /\ main' = [main EXCEPT !.op = "pos"]
  /\ UNCHANGED <<Servos_count, timer, level, led, started>>

(* ... and the position, which servos_set_pos then finds within the range. *)
CalibratePos ==
  /\ Doing("pos")
  /\ Servos' = [Servos EXCEPT ![main.i].pos = Clamp(Servos[main.i], main.given[2])]
  /\ main' = Idle
  /\ UNCHANGED <<Servos_count, timer, level, led, started>>

(* Also servos_command, and servos_reset with the init position.           *)
servos_set_pos(i, pos) ==
  /\ main = Idle
  /\ i \in Registered
  /\ Servos' = [Servos EXCEPT ![i].pos = Clamp(Servos[i], pos)]
  /\ UNCHANGED <<Servos_count, timer, level, led, started, main>>

Enabled(s) == IF s.enabled THEN s
              ELSE [s EXCEPT !.pos = Clamp(s, s.pos), !.enabled = TRUE]

servos_enable_RaisesPin(i) ==
  /\ main = Idle
  /\ i \in Registered
  /\ Servos' = [Servos EXCEPT ![i] = Enabled(@)]
  /\ level' = [level EXCEPT ![Servos[i].pin] = "HIGH"]
  /\ UNCHANGED <<Servos_count, timer, led, started, main>>

(* servos_enable(i, true), from the `enable' command.                      *)
servos_enable(i) ==
  /\ main = Idle
  /\ i \in Registered
  /\ Servos' = [Servos EXCEPT ![i] = Enabled(@)]
  /\ UNCHANGED <<Servos_count, timer, level, led, started, main>>

(* A command that disables, or enables, servos one after the other begins: *)
(* `disable', `start', `stop' or `flush'.                                  *)
Begin(op, i) ==
  /\ main = Idle
  /\ op = "disable" => i \in Registered
  /\ op # "disable" => i = 0
  /\ main' = [Idle EXCEPT !.op = op, !.i = i]
  /\ UNCHANGED <<Servos, Servos_count, timer, level, led, started>>

Advance == IF main.op = "disable" THEN Idle
           ELSE [main EXCEPT !.i = @ + 1, !.clearing = FALSE]

(* servos_enable(i, false): the flag first, ...                            *)
ClearEnabled ==
  /\ Doing("disable") \/ Doing("stop") \/ Doing("flush")
  /\ main.i < Servos_count
  /\ IF Servos[main.i].enabled
     THEN /\ Servos' = [Servos EXCEPT ![main.i].enabled = FALSE]
          /\ main' = [main EXCEPT !.clearing = TRUE]
     ELSE /\ main' = Advance
          /\ UNCHANGED Servos
  /\ UNCHANGED <<Servos_count, timer, level, led, started>>

(* ... then the pin.                                                       *)
DriveLow ==
  /\ main.clearing
  /\ level' = [level EXCEPT ![Servos[main.i].pin] = "LOW"]
  /\ main' = Advance
  /\ UNCHANGED <<Servos, Servos_count, timer, led, started>>

(* One round of the loop of servos_enable_all, which then waits 21 ms.     *)
EnableNext ==
  /\ Doing("start")
  /\ main.i < Servos_count
  /\ Servos' = [Servos EXCEPT ![main.i] = Enabled(@)]
  /\ main' = Advance
  /\ UNCHANGED <<Servos_count, timer, level, led, started>>

EndStart ==
  /\ Doing("start")
  /\ main.i >= Servos_count
  /\ led' = "HIGH"
  /\ started' = TRUE
  /\ main' = Idle
  /\ UNCHANGED <<Servos, Servos_count, timer, level>>

EndStop ==
  /\ Doing("stop")
  /\ main.i >= Servos_count
  /\ led' = "LOW"
  /\ started' = FALSE
  /\ main' = Idle
  /\ UNCHANGED <<Servos, Servos_count, timer, level>>

EndFlush ==
  /\ Doing("flush")
  /\ main.i >= Servos_count
  /\ Servos_count' = 0
  /\ main' = Idle
  /\ UNCHANGED <<Servos, timer, level, led, started>>

Progress ==
  \/ CalibrateMax \/ CalibrateInit \/ CalibratePos
  \/ ClearEnabled \/ DriveLow \/ EnableNext
  \/ EndStart \/ EndStop \/ EndFlush

Command ==
  \/ \E pin \in Pins : servos_register(pin)
  \/ \E i \in Index :
       \/ \E c \in Calibrations : servos_calibrate(i, c)
       \/ \E pos \in Positions \cup {Servos[i].init} : servos_set_pos(i, pos)
       \/ servos_enable(i)
       \/ \E op \in {"disable", "start", "stop", "flush"} : Begin(op, i)

Next == Tick \/ _servos_irq \/ button_pressed \/ Command \/ Progress

Spec == Init /\ [][Next]_vars

(* The timer runs, its interrupt is served, and a command once begun runs  *)
(* to its end; commands and the button come when the user likes.           *)
FairSpec == Spec /\ WF_vars(Tick) /\ WF_vars(_servos_irq) /\ WF_vars(Progress)

-----------------------------------------------------------------------------
(* Every variable keeps its type; in particular the slot never leaves the  *)
(* table (_servos_ovf indexes it without a check).                         *)
TypeOK ==
  /\ Servos \in [Index -> Servo]
  /\ Servos_count \in 0 .. SERVOS_MAX_NB
  /\ Servos_current \in Slot
  /\ counter \in 0 .. Overflow
  /\ compare \in [Channel -> 0 .. Overflow]
  /\ pending \subseteq Channel \cup {CC4}
  /\ level \in [Pins -> Level]
  /\ led \in Level
  /\ started \in BOOLEAN
  /\ main \in Activity

(* A registered servo that is not enabled has its pin low, whatever the    *)
(* interrupts do between two steps of servos_enable: no pulse is left      *)
(* half-way on a servo that nothing will lower again.  The pin may lag     *)
(* only in the window between the two writes of servos_enable.             *)
DisabledIsLow ==
  \A i \in Registered :
    ~Servos[i].enabled /\ ~(main.clearing /\ main.i = i)
      => level[Servos[i].pin] = "LOW"

(* servos_calibrate is between two writes to servo i.                      *)
Calibrating(i) == main.op \in {"max", "init", "pos"} /\ main.i = i

(* The position of a registered servo stays in its calibrated range        *)
(* [min, max], across registration, calibration and orders.  Excepted is   *)
(* the servo that servos_calibrate is in the middle of: until it writes    *)
(* `pos' an interrupt may output a position of the old range.              *)
PositionInRange ==
  \A i \in Registered :
    ~Calibrating(i) => Servos[i].min <= Servos[i].pos /\ Servos[i].pos <= Servos[i].max

(* A pin is high only in the slot of its servo: the servos of a channel    *)
(* share one comparator and their pulses never overlap (_servos_ovf).      *)
(* Excepted is the pin servos_enable is about to lower.                    *)
PulseWithinSlot ==
  \A i \in Registered :
    level[Servos[i].pin] = "HIGH" /\ ~(main.clearing /\ main.i = i)
      => i % PerChannel = Servos_current

(* A pulse is as long as the position commanded when it began: it begins   *)
(* with the period, with the comparator loaded with the position, and      *)
(* while the servo stays enabled it ends when the counter gets there       *)
(* (_servos_ovf, _servos_update).                                          *)
PulseWidth ==
  [][\A i \in Registered :
       LET s == Servos[i]
           c == i \div PerChannel
       IN  /\ level[s.pin] = "LOW" /\ level'[s.pin] = "HIGH"
                => counter = 0 /\ compare'[c] = s.pos
           /\ level[s.pin] = "HIGH" /\ level'[s.pin] = "LOW"
              /\ s.enabled /\ Servos'[i].enabled
                => counter = compare[c]]_vars

(* A servo that stays enabled keeps receiving pulses: its pin goes up and  *)
(* down for ever, whatever the other servos and the main thread do.        *)
Refreshed ==
  \A i \in Index :
    <>[](i \in Registered /\ Servos[i].enabled)
      => /\ []<>(i \in Registered /\ level[Servos[i].pin] = "HIGH")
         /\ []<>(i \in Registered /\ level[Servos[i].pin] = "LOW")
=============================================================================
