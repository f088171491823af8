---------------------------- MODULE ServosProofs ----------------------------
(* Safety of Servos for any number of channels, servos, pins and positions. *)
EXTENDS Servos, TLAPS

(* Only registered servos are enabled, so that clearing the registered     *)
(* ones (button_pressed, servos_disable_all) clears them all.              *)
EnabledIsRegistered == \A i \in Index : Servos[i].enabled => i \in Registered

(* servos_register never gives one pin to two servos.                      *)
PinsDistinct ==
  \A i, j \in Registered : Servos[i].pin = Servos[j].pin => i = j

(* A high pin has a driven servo that will lower it, or the main thread is *)
(* about to lower it.                                                      *)
HighIsDriven ==
  \A p \in Pins :
    level[p] = "HIGH" =>
      \/ \E i \in Registered : Servos[i].enabled /\ Servos[i].pin = p
      \/ main.clearing /\ Servos[main.i].pin = p

(* What the loops of the main thread have established so far.              *)
LoopInv ==
  /\ main.clearing => main.i \in Registered /\ ~Servos[main.i].enabled
  /\ main.op = "flush" =>
       \A j \in Registered : j < main.i => ~Servos[j].enabled

(* What servos_calibrate has written so far, of a range in order.          *)
CalibrateInv ==
  main.op \in {"max", "init", "pos"} =>
    /\ ~main.clearing /\ main.i \in Registered
    /\ main.given[1] <= main.given[3]
    /\ Servos[main.i].min = main.given[1]
    /\ main.op # "max" => Servos[main.i].max = main.given[3]

IInv == /\ TypeOK /\ PositionInRange /\ EnabledIsRegistered
        /\ PinsDistinct /\ HighIsDriven /\ LoopInv /\ CalibrateInv
-----------------------------------------------------------------------------
(* The slots of a channel are entries of the table.                        *)
LEMMA SlotInTable ==
  ASSUME NEW c \in Channel, NEW k \in Slot
  PROVE  SERVO_FOR_CHANNEL(c, k) \in Index
<1> USE ServosAssumption DEF Channel, Slot, Index, SERVOS_MAX_NB
<1>1. c * PerChannel \in Nat
  OBVIOUS
<1>2. (Channels - 1 - c) * PerChannel \in Nat
  OBVIOUS
<1>3. (Channels - 1 - c) * PerChannel
        = PerChannel * Channels - PerChannel - c * PerChannel
  OBVIOUS
<1> QED
  BY <1>1, <1>2, <1>3 DEF SERVO_FOR_CHANNEL

(* The servo table has an entry at least.                                  *)
LEMMA TableSize == SERVOS_MAX_NB \in Nat \ {0}
BY ServosAssumption DEF SERVOS_MAX_NB

(* What a loop of the main thread goes on with.                            *)
LEMMA IdleActivity == Idle \in Activity /\ ~Idle.clearing /\ Idle.op = "idle"
BY TableSize DEF Idle, Activity

(* The registered servos are entries of the table.                         *)
LEMMA RegisteredInTable == TypeOK => Registered \subseteq Index
BY TableSize DEF TypeOK, Registered, Index

(* An order is clamped into the range of its servo.                        *)
LEMMA ClampInRange ==
  ASSUME NEW s \in Servo, NEW pos \in Nat, s.min <= s.max
  PROVE  /\ Clamp(s, pos) \in Nat
         /\ s.min <= Clamp(s, pos) /\ Clamp(s, pos) <= s.max
BY DEF Clamp, Servo

(* Enabling a servo moves it only into its range, and keeps its pin.       *)
LEMMA EnabledServo ==
  ASSUME NEW s \in Servo, s.min <= s.max
  PROVE  LET e == Enabled(s)
         IN  /\ e \in Servo /\ e.enabled
             /\ e.pin = s.pin /\ e.min = s.min /\ e.max = s.max
             /\ s.min <= s.pos /\ s.pos <= s.max
                  => s.min <= e.pos /\ e.pos <= s.max
<1>1. Clamp(s, s.pos) \in Nat /\ s.min <= Clamp(s, s.pos) /\ Clamp(s, s.pos) <= s.max
  BY ClampInRange DEF Servo
<1> QED
  BY <1>1 DEF Enabled, Servo

(* The invariant holds after servos_init.                                  *)
LEMMA InitIInv == Init => IInv
<1> SUFFICES ASSUME Init PROVE IInv
  OBVIOUS
<1> USE ServosAssumption DEF Init
<1>1. TypeOK
  <2>1. Servos \in [Index -> Servo]
    BY DEF Servo
  <2>2. compare \in [Channel -> 0 .. Overflow] /\ level \in [Pins -> Level]
    BY DEF Level
  <2>3. main \in Activity
    BY TableSize DEF Activity, Idle
  <2>4. Servos_count \in 0 .. SERVOS_MAX_NB
    BY TableSize
  <2>5. Servos_current \in Slot /\ counter \in 0 .. Overflow
    BY DEF Slot
  <2>6. pending \subseteq Channel \cup {CC4} /\ led \in Level /\ started \in BOOLEAN
    BY DEF Level
  <2> QED
    BY <2>1, <2>2, <2>3, <2>4, <2>5, <2>6 DEF TypeOK
<1>2. PositionInRange /\ PinsDistinct
  BY DEF PositionInRange, PinsDistinct, Registered
<1>3. EnabledIsRegistered /\ HighIsDriven /\ LoopInv /\ CalibrateInv
  BY DEF EnabledIsRegistered, HighIsDriven, LoopInv, CalibrateInv, Idle
<1> QED
  BY <1>1, <1>2, <1>3 DEF IInv

(* The counter and the flags of the timer are the only things a tick moves. *)
LEMMA TickIInv == IInv /\ Tick => IInv'
<1> SUFFICES ASSUME IInv, Tick PROVE IInv'
  OBVIOUS
<1> USE DEF Tick
<1>1. TypeOK'
  <2>1. counter' \in 0 .. Overflow
    BY ServosAssumption DEF IInv, TypeOK
  <2>2. pending' \subseteq Channel \cup {CC4}
    BY DEF IInv, TypeOK
  <2> QED
    BY <2>1, <2>2 DEF IInv, TypeOK
<1>2. (PositionInRange /\ EnabledIsRegistered /\ PinsDistinct /\ HighIsDriven
        /\ LoopInv /\ CalibrateInv)'
  BY DEF IInv, PositionInRange, EnabledIsRegistered, PinsDistinct, HighIsDriven,
         LoopInv, CalibrateInv, Calibrating, Registered
<1> QED
  BY <1>1, <1>2 DEF IInv

(* The timer interrupt raises pins of enabled servos only.                 *)
LEMMA IrqIInv == IInv /\ _servos_irq => IInv'
<1> SUFFICES ASSUME IInv, _servos_irq PROVE IInv'
  OBVIOUS
<1> USE DEF _servos_irq
<1>1. ServedSlot \in Slot
  BY ServosAssumption DEF IInv, TypeOK, ServedSlot, NextSlot, Slot
<1>2. \A c \in Channel : /\ SERVO_FOR_CHANNEL(c, ServedSlot) \in Index
                         /\ Servos[SERVO_FOR_CHANNEL(c, ServedSlot)] \in Servo
  BY <1>1, SlotInTable DEF IInv, TypeOK
<1>3. TypeOK'
  <2>1. compare' \in [Channel -> 0 .. Overflow]
    <3>1. \A s \in Servo : CompareFor(s) \in 0 .. Overflow
      BY ServosAssumption DEF CompareFor, Servo
    <3> QED
      BY <1>2, <3>1 DEF IInv, TypeOK
  <2>2. level' \in [Pins -> Level]
    BY DEF IInv, TypeOK, Level
  <2> QED
    BY <1>1, <2>1, <2>2 DEF IInv, TypeOK
<1>4. HighIsDriven'
  <2> SUFFICES ASSUME NEW p \in Pins, level'[p] = "HIGH"
               PROVE  \/ \E i \in Registered : Servos[i].enabled /\ Servos[i].pin = p
                      \/ main.clearing /\ Servos[main.i].pin = p
    BY DEF HighIsDriven, Registered
  <2>1. CASE p \in Raised
    <3>1. PICK c \in Channel :
            LET s == Servos[SERVO_FOR_CHANNEL(c, ServedSlot)]
            IN  s.enabled /\ s.pin = p
      BY <2>1 DEF Raised, Served
    <3> QED
      BY <1>2, <3>1 DEF IInv, EnabledIsRegistered
  <2>2. CASE p \notin Raised
    BY <2>2 DEF IInv, HighIsDriven, TypeOK, Level
  <2> QED
    BY <2>1, <2>2
<1>5. (PositionInRange /\ EnabledIsRegistered /\ PinsDistinct /\ LoopInv
        /\ CalibrateInv)'
  BY DEF IInv, PositionInRange, EnabledIsRegistered, PinsDistinct, LoopInv,
         CalibrateInv, Calibrating, Registered
<1> QED
  BY <1>3, <1>4, <1>5 DEF IInv

(* The button clears every driven servo and lowers its pin.                *)
LEMMA ButtonIInv == IInv /\ button_pressed => IInv'
<1> SUFFICES ASSUME IInv, button_pressed PROVE IInv'
  OBVIOUS
<1> USE DEF button_pressed
<1>1. \A i \in Index : /\ Servos'[i] \in Servo /\ Servos'[i].pin = Servos[i].pin
                       /\ Servos'[i].pos = Servos[i].pos
                       /\ Servos'[i].min = Servos[i].min
                       /\ Servos'[i].max = Servos[i].max
                       /\ ~Servos'[i].enabled
  <2> SUFFICES ASSUME NEW i \in Index
               PROVE  /\ Servos'[i] \in Servo /\ Servos'[i].pin = Servos[i].pin
                      /\ Servos'[i].pos = Servos[i].pos
                      /\ Servos'[i].min = Servos[i].min
                      /\ Servos'[i].max = Servos[i].max
                      /\ ~Servos'[i].enabled
    OBVIOUS
  <2>1. Servos[i] \in Servo
    BY DEF IInv, TypeOK
  <2>2. CASE i \in Driven
    BY <2>1, <2>2 DEF Servo
  <2>3. CASE i \notin Driven
    BY <2>1, <2>3 DEF Servo, Driven, IInv, EnabledIsRegistered
  <2> QED
    BY <2>2, <2>3
<1>2. Registered \subseteq Index /\ Registered' = Registered
  BY RegisteredInTable DEF IInv, Registered
<1>3. TypeOK'
  <2>1. Servos' \in [Index -> Servo]
    BY <1>1
  <2>2. level' \in [Pins -> Level]
    BY DEF IInv, TypeOK, Level
  <2> QED
    BY <2>1, <2>2 DEF IInv, TypeOK, timer, Level
<1>4. HighIsDriven'
  <2> SUFFICES ASSUME NEW p \in Pins, level'[p] = "HIGH"
               PROVE  main.clearing /\ Servos'[main.i].pin = p
    BY DEF HighIsDriven
  <2>1. level[p] = "HIGH" /\ p \notin {Servos[i].pin : i \in Driven}
    OBVIOUS
  <2>2. main.clearing /\ Servos[main.i].pin = p
    BY <2>1 DEF IInv, HighIsDriven, Driven
  <2>3. main.i \in Index
    BY <1>2, <2>2 DEF IInv, LoopInv
  <2> QED
    BY <1>1, <2>2, <2>3
<1>5. (PositionInRange /\ PinsDistinct)'
  BY <1>1, <1>2 DEF IInv, PositionInRange, PinsDistinct, Calibrating
<1>6. EnabledIsRegistered'
  BY <1>1 DEF EnabledIsRegistered
<1>7. (LoopInv /\ CalibrateInv)'
  BY <1>1, <1>2 DEF IInv, LoopInv, CalibrateInv
<1> QED
  BY <1>3, <1>4, <1>5, <1>6, <1>7 DEF IInv

-----------------------------------------------------------------------------
(* An operation that replaces one registered entry of the table, keeping   *)
(* its pin and, unless it goes on calibrating it, its position in range.   *)
LEMMA UpdateServo ==
  ASSUME IInv, NEW i \in Registered, NEW s \in Servo,
         s.pin = Servos[i].pin,
         Calibrating(i)' \/ (s.min <= s.pos /\ s.pos <= s.max),
         \A j \in Registered : Calibrating(j) => j = i,
         Servos[i].enabled => s.enabled, ~main.clearing, main.op # "flush",
         Servos' = [Servos EXCEPT ![i] = s],
         UNCHANGED <<Servos_count, timer, level, led, started>>,
         main' \in Activity, ~main'.clearing, main'.op # "flush", CalibrateInv'
  PROVE  IInv'
<1>1. i \in Index /\ Registered \subseteq Index /\ Registered' = Registered
  BY RegisteredInTable DEF IInv, Registered
<1>2. /\ Servos'[i] = s
      /\ \A j \in Index \ {i} : Servos'[j] = Servos[j]
      /\ \A j \in Index : Servos'[j].pin = Servos[j].pin
  BY <1>1 DEF IInv, TypeOK
<1>3. TypeOK'
  BY <1>1 DEF IInv, TypeOK, timer
<1>4. PositionInRange'
  BY <1>1, <1>2 DEF IInv, PositionInRange
<1>5. EnabledIsRegistered'
  BY <1>1, <1>2 DEF IInv, EnabledIsRegistered
<1>6. PinsDistinct'
  BY <1>1, <1>2 DEF IInv, PinsDistinct
<1>7. HighIsDriven'
  BY <1>1, <1>2 DEF IInv, HighIsDriven
<1>8. LoopInv'
  BY DEF LoopInv
<1> QED
  BY <1>3, <1>4, <1>5, <1>6, <1>7, <1>8 DEF IInv

(* servos_register gives a new servo a pin of its own, low, and a position *)
(* in its range.                                                           *)
LEMMA RegisterIInv ==
  ASSUME IInv, NEW pin \in Pins, servos_register(pin)
  PROVE  IInv'
<1> USE DEF servos_register
<1> DEFINE n == Servos_count
           s == [pin |-> pin, min |-> 0, max |-> Overflow, init |-> DefaultInit,
                 pos |-> DefaultInit, enabled |-> FALSE]
<1>1. /\ n \in Index /\ n \notin Registered
      /\ Registered \subseteq Index /\ Registered' = Registered \cup {n}
      /\ n + 1 \in 0 .. SERVOS_MAX_NB
  <2>1. n \in 0 .. SERVOS_MAX_NB
    BY DEF IInv, TypeOK
  <2> QED
    BY <2>1, TableSize DEF Registered, Index
<1>2. s \in Servo
  BY ServosAssumption DEF Servo
<1>3. Servos'[n] = s /\ \A j \in Index \ {n} : Servos'[j] = Servos[j]
  BY <1>1 DEF IInv, TypeOK
<1>4. TypeOK'
  <2>1. Servos' \in [Index -> Servo]
    BY <1>1, <1>2 DEF IInv, TypeOK
  <2>2. level' \in [Pins -> Level]
    BY DEF IInv, TypeOK, Level
  <2>3. counter' \in 0 .. Overflow /\ compare' \in [Channel -> 0 .. Overflow]
    BY ServosAssumption DEF initTimer
  <2>4. pending' \subseteq Channel \cup {CC4} /\ Servos_current' = Servos_current
    BY DEF IInv, TypeOK, initTimer
  <2> QED
    BY <1>1, <2>1, <2>2, <2>3, <2>4 DEF IInv, TypeOK
<1>5. PositionInRange'
  BY <1>1, <1>3, ServosAssumption DEF IInv, PositionInRange, Calibrating, Idle
<1>6. EnabledIsRegistered'
  BY <1>1, <1>3 DEF IInv, EnabledIsRegistered
<1>7. PinsDistinct'
  BY <1>1, <1>3 DEF IInv, PinsDistinct
<1>8. HighIsDriven'
  <2> SUFFICES ASSUME NEW p \in Pins, level'[p] = "HIGH"
               PROVE  \E i \in Registered' : Servos'[i].enabled /\ Servos'[i].pin = p
    BY DEF HighIsDriven
  <2>1. level[p] = "HIGH"
    BY DEF IInv, TypeOK
  <2>2. PICK i \in Registered : Servos[i].enabled /\ Servos[i].pin = p
    BY <2>1 DEF IInv, HighIsDriven, Idle
  <2> QED
    BY <1>1, <1>3, <2>2
<1>9. (LoopInv /\ CalibrateInv)'
  BY DEF LoopInv, CalibrateInv, Idle
<1> QED
  BY <1>4, <1>5, <1>6, <1>7, <1>8, <1>9 DEF IInv

(* servos_calibrate begins with a range in order.                          *)
LEMMA CalibrateIInv ==
  ASSUME IInv, NEW i \in Index, NEW c \in Calibrations, servos_calibrate(i, c)
  PROVE  IInv'
<1> USE DEF servos_calibrate
<1> DEFINE s == [Servos[i] EXCEPT !.min = c[1]]
<1>1. c \in Nat \X Nat \X Nat /\ c[1] \in Nat /\ c[3] \in Nat
  BY ServosAssumption
<1>2. s \in Servo /\ s.pin = Servos[i].pin /\ s.enabled = Servos[i].enabled
  BY <1>1 DEF IInv, TypeOK, Servo
<1>3. Servos' = [Servos EXCEPT ![i] = s] /\ Servos'[i].min = c[1]
  BY DEF IInv, TypeOK, Servo
<1>4. /\ main' \in Activity /\ ~main'.clearing
      /\ main'.op = "max" /\ main'.i = i /\ main'.given = c
  <2>1. i \in 0 .. SERVOS_MAX_NB
    BY TableSize DEF Index
  <2> QED
    BY <1>1, <2>1, IdleActivity DEF Activity
<1>5. ~main.clearing /\ main.op = "idle"
  BY DEF Idle
<1>6. CalibrateInv'
  BY <1>1, <1>3, <1>4 DEF CalibrateInv, Registered
<1> HIDE DEF s
<1> QED
  BY <1>2, <1>3, <1>4, <1>5, <1>6, UpdateServo DEF Calibrating

(* Each further write of servos_calibrate goes on with it, until the last  *)
(* one puts the position into the new range.                               *)
LEMMA CalibratingIInv ==
  IInv /\ (CalibrateMax \/ CalibrateInit \/ CalibratePos) => IInv'
<1> SUFFICES ASSUME IInv, CalibrateMax \/ CalibrateInit \/ CalibratePos PROVE IInv'
  OBVIOUS
<1> USE DEF CalibrateMax, CalibrateInit, CalibratePos, Doing
<1> DEFINE i == main.i
           g == main.given
<1>1. /\ i \in Registered /\ i \in Index /\ ~main.clearing
      /\ \A j \in Registered : Calibrating(j) => j = i
  BY RegisteredInTable DEF IInv, CalibrateInv, Calibrating
<1>2. /\ main \in Activity /\ Servos[i] \in Servo /\ Registered' = Registered
      /\ g[1] \in Nat /\ g[2] \in Nat /\ g[3] \in Nat
      /\ g[1] <= g[3] /\ Servos[i].min = g[1]
      /\ main.op # "max" => Servos[i].max = g[3]
  BY <1>1 DEF IInv, TypeOK, Activity, CalibrateInv, Registered
<1>3. CASE CalibrateMax
  <2> DEFINE s == [Servos[i] EXCEPT !.max = g[3]]
  <2>1. /\ s \in Servo /\ s.pin = Servos[i].pin /\ s.enabled = Servos[i].enabled
        /\ s.min = g[1] /\ s.max = g[3]
    BY <1>2 DEF Servo
  <2>2. Servos' = [Servos EXCEPT ![i] = s] /\ Servos'[i] = s
    BY <1>1, <1>3 DEF IInv, TypeOK
  <2>3. /\ main' \in Activity /\ ~main'.clearing
        /\ main'.op = "init" /\ main'.i = i /\ main'.given = g
    BY <1>1, <1>2, <1>3 DEF Activity
  <2> HIDE DEF s
  <2>4. CalibrateInv'
    BY <1>1, <1>2, <2>1, <2>2, <2>3 DEF CalibrateInv
  <2> QED
    BY <1>1, <1>3, <2>1, <2>2, <2>3, <2>4, UpdateServo DEF Calibrating
<1>4. CASE CalibrateInit
  <2> DEFINE s == [Servos[i] EXCEPT !.init = g[2]]
  <2>1. /\ s \in Servo /\ s.pin = Servos[i].pin /\ s.enabled = Servos[i].enabled
        /\ s.min = g[1] /\ s.max = g[3]
    BY <1>2, <1>4 DEF Servo
  <2>2. Servos' = [Servos EXCEPT ![i] = s] /\ Servos'[i] = s
    BY <1>1, <1>4 DEF IInv, TypeOK
  <2>3. /\ main' \in Activity /\ ~main'.clearing
        /\ main'.op = "pos" /\ main'.i = i /\ main'.given = g
    BY <1>1, <1>2, <1>4 DEF Activity
  <2> HIDE DEF s
  <2>4. CalibrateInv'
    BY <1>1, <1>2, <2>1, <2>2, <2>3 DEF CalibrateInv
  <2> QED
    BY <1>1, <1>4, <2>1, <2>2, <2>3, <2>4, UpdateServo DEF Calibrating
<1>5. CASE CalibratePos
  <2> DEFINE s == [Servos[i] EXCEPT !.pos = Clamp(Servos[i], g[2])]
  <2>1. Servos[i].min <= Servos[i].max
    BY <1>2, <1>5
  <2>2. /\ s \in Servo /\ s.pin = Servos[i].pin /\ s.enabled = Servos[i].enabled
        /\ s.min <= s.pos /\ s.pos <= s.max
    BY <1>2, <2>1, ClampInRange DEF Servo
  <2>3. Servos' = [Servos EXCEPT ![i] = s]
    BY <1>1, <1>5 DEF IInv, TypeOK
  <2>4. main' \in Activity /\ ~main'.clearing /\ main'.op = "idle"
    BY <1>5, TableSize DEF Idle, Activity
  <2>5. CalibrateInv'
    BY <2>4 DEF CalibrateInv
  <2> HIDE DEF s
  <2> QED
    BY <1>1, <1>5, <2>2, <2>3, <2>4, <2>5, UpdateServo
<1> QED
  BY <1>3, <1>4, <1>5

(* servos_set_pos keeps the position in the range.                         *)
LEMMA SetPosIInv ==
  ASSUME IInv, NEW i \in Index, NEW pos \in Positions \cup {Servos[i].init},
         servos_set_pos(i, pos)
  PROVE  IInv'
<1> USE DEF servos_set_pos
<1> DEFINE s == [Servos[i] EXCEPT !.pos = Clamp(Servos[i], pos)]
<1>1. Servos[i] \in Servo
  BY DEF IInv, TypeOK
<1>2. pos \in Nat
  BY <1>1, ServosAssumption DEF Servo
<1>3. Servos[i].min <= Servos[i].max
  BY <1>1 DEF IInv, PositionInRange, Servo, Calibrating, Idle
<1>4. /\ s \in Servo /\ s.pin = Servos[i].pin
      /\ s.enabled = Servos[i].enabled /\ s.min <= s.pos /\ s.pos <= s.max
  BY <1>1, <1>2, <1>3, ClampInRange DEF Servo
<1>5. Servos' = [Servos EXCEPT ![i] = s]
  BY DEF IInv, TypeOK
<1>6. main' \in Activity /\ main' = main /\ ~main.clearing /\ main.op = "idle"
  BY DEF IInv, TypeOK, Idle
<1> HIDE DEF s
<1> QED
  BY <1>4, <1>5, <1>6, UpdateServo DEF Calibrating, CalibrateInv

(* The effect common to `enable' and to a round of `start'.                *)
LEMMA EnablingServo ==
  ASSUME IInv, NEW i \in Registered, ~Calibrating(i)
  PROVE  LET s == Enabled(Servos[i])
         IN  /\ s \in Servo /\ s.pin = Servos[i].pin /\ s.enabled
             /\ s.min <= s.pos /\ s.pos <= s.max
<1>1. i \in Index
  BY RegisteredInTable DEF IInv
<1>2. Servos[i] \in Servo
  BY <1>1 DEF IInv, TypeOK
<1>3. Servos[i].min <= Servos[i].pos /\ Servos[i].pos <= Servos[i].max
  BY DEF IInv, PositionInRange
<1>4. Servos[i].min <= Servos[i].max
  BY <1>2, <1>3 DEF Servo
<1> QED
  BY <1>2, <1>3, <1>4, EnabledServo

(* servos_enable(i, true) drives a registered servo only.                  *)
LEMMA EnableIInv ==
  ASSUME IInv, NEW i \in Index, servos_enable(i)
  PROVE  IInv'
<1> USE DEF servos_enable
<1>1. Servos' = [Servos EXCEPT ![i] = Enabled(Servos[i])]
  BY DEF IInv, TypeOK
<1>2. main' \in Activity /\ main' = main /\ ~main.clearing /\ main.op = "idle"
  BY DEF IInv, TypeOK, Idle
<1>3. \A j \in Registered : ~Calibrating(j)
  BY <1>2 DEF Calibrating
<1>4. CalibrateInv'
  BY <1>2 DEF CalibrateInv
<1> QED
  BY <1>1, <1>2, <1>3, <1>4, UpdateServo, EnablingServo

(* A command that begins a loop has cleared nothing yet.                   *)
LEMMA BeginIInv ==
  ASSUME IInv, NEW i \in Index, NEW op \in {"disable", "start", "stop", "flush"},
         Begin(op, i)
  PROVE  IInv'
<1> USE DEF Begin
<1>1. /\ main' \in Activity /\ ~main'.clearing /\ main'.op = op /\ main'.i = i
      /\ main.op = "idle" /\ ~main.clearing
  <2>1. i \in 0 .. SERVOS_MAX_NB
    BY TableSize DEF Index
  <2>2. /\ main' = [Idle EXCEPT !.op = op, !.i = i] /\ main = Idle
        /\ op \in {"idle", "disable", "start", "stop", "flush", "max", "init", "pos"}
    OBVIOUS
  <2> HIDE DEF Begin
  <2> QED
    BY <2>1, <2>2, IdleActivity DEF Activity
<1>2. TypeOK'
  BY <1>1 DEF IInv, TypeOK, timer
<1>3. (LoopInv /\ CalibrateInv)'
  BY <1>1 DEF LoopInv, CalibrateInv, Registered
<1>4. HighIsDriven'
  BY <1>1 DEF IInv, HighIsDriven, Registered
<1>5. (PositionInRange /\ EnabledIsRegistered /\ PinsDistinct)'
  BY <1>1 DEF IInv, PositionInRange, EnabledIsRegistered, PinsDistinct, Registered,
              Calibrating
<1> QED
  BY <1>2, <1>3, <1>4, <1>5 DEF IInv

(* The loop index stays within the table.                                  *)
LEMMA AdvanceActivity ==
  ASSUME main \in Activity, main.i + 1 \in 0 .. SERVOS_MAX_NB
  PROVE  /\ Advance \in Activity /\ ~Advance.clearing
         /\ Advance.op = "flush" => main.op = "flush" /\ Advance.i = main.i + 1
         /\ Advance.op \in {"idle", main.op}
<1>1. CASE main.op = "disable"
  BY <1>1, IdleActivity DEF Advance
<1>2. CASE main.op # "disable"
  BY <1>2 DEF Advance, Activity
<1> QED
  BY <1>1, <1>2

(* servos_enable(i, false), first half: the pin stays as it is, but the    *)
(* main thread is now bound to lower it.                                   *)
LEMMA ClearEnabledIInv == IInv /\ ClearEnabled => IInv'
<1> SUFFICES ASSUME IInv, ClearEnabled PROVE IInv'
  OBVIOUS
<1> USE DEF ClearEnabled
<1> DEFINE i == main.i
<1>1. /\ i \in Registered /\ i \in Index /\ Registered \subseteq Index
      /\ Registered' = Registered /\ i + 1 \in 0 .. SERVOS_MAX_NB
      /\ main \in Activity /\ ~main.clearing
      /\ main.op \in {"disable", "stop", "flush"}
  <2>1. main \in Activity /\ Servos_count \in 0 .. SERVOS_MAX_NB
    BY DEF IInv, TypeOK
  <2> QED
    BY <2>1, TableSize, RegisteredInTable DEF IInv, Registered, Activity, Doing
<1>2. CASE Servos[i].enabled
  <2>1. /\ Servos' = [Servos EXCEPT ![i].enabled = FALSE]
        /\ main' = [main EXCEPT !.clearing = TRUE]
    BY <1>2
  <2>2. main' \in Activity /\ main'.clearing /\ main'.i = i /\ main'.op = main.op
    BY <1>1, <2>1 DEF Activity
  <2>3. /\ \A j \in Index : /\ Servos'[j] \in Servo
                            /\ Servos'[j].pin = Servos[j].pin
                            /\ Servos'[j].pos = Servos[j].pos
                            /\ Servos'[j].min = Servos[j].min
                            /\ Servos'[j].max = Servos[j].max
        /\ ~Servos'[i].enabled
        /\ \A j \in Index \ {i} : Servos'[j] = Servos[j]
    BY <1>1, <2>1 DEF IInv, TypeOK, Servo
  <2>4. TypeOK'
    <3>1. Servos' \in [Index -> Servo]
      BY <2>1, <2>3 DEF IInv, TypeOK
    <3> QED
      BY <2>2, <3>1 DEF IInv, TypeOK, timer
  <2>5. (PositionInRange /\ PinsDistinct)'
    BY <1>1, <2>3 DEF IInv, PositionInRange, PinsDistinct, Calibrating
  <2>6. EnabledIsRegistered'
    BY <1>1, <2>3 DEF IInv, EnabledIsRegistered
  <2>7. HighIsDriven'
    <3> SUFFICES ASSUME NEW p \in Pins, level[p] = "HIGH"
                 PROVE  \/ \E j \in Registered : Servos'[j].enabled /\ Servos'[j].pin = p
                        \/ Servos'[i].pin = p
      BY <1>1, <2>2 DEF HighIsDriven
    <3>1. PICK j \in Registered : Servos[j].enabled /\ Servos[j].pin = p
      BY <1>1 DEF IInv, HighIsDriven
    <3> QED
      BY <1>1, <2>3, <3>1
  <2>8. (LoopInv /\ CalibrateInv)'
    BY <1>1, <2>2, <2>3 DEF IInv, LoopInv, CalibrateInv
  <2> QED
    BY <2>4, <2>5, <2>6, <2>7, <2>8 DEF IInv
<1>3. CASE ~Servos[i].enabled
  <2>1. main' = Advance /\ Servos' = Servos
    BY <1>3
  <2>2. /\ main' \in Activity /\ ~main'.clearing
        /\ main'.op = "flush" => main.op = "flush" /\ main'.i = i + 1
        /\ main'.op \notin {"max", "init", "pos"}
    BY <1>1, <2>1, AdvanceActivity
  <2>3. TypeOK'
    BY <2>1, <2>2 DEF IInv, TypeOK, timer
  <2>4. HighIsDriven'
    BY <1>1, <2>1 DEF IInv, HighIsDriven
  <2>5. LoopInv'
    <3> SUFFICES ASSUME main'.op = "flush", NEW j \in Registered, j < i + 1
                 PROVE  ~Servos[j].enabled
      BY <1>1, <2>1, <2>2 DEF LoopInv
    <3>1. j = i \/ j < i
      BY <1>1 DEF Registered
    <3> QED
      BY <1>3, <2>2, <3>1 DEF IInv, LoopInv
  <2>6. (PositionInRange /\ EnabledIsRegistered /\ PinsDistinct /\ CalibrateInv)'
    BY <1>1, <2>1, <2>2 DEF IInv, PositionInRange, EnabledIsRegistered, PinsDistinct,
                            CalibrateInv, Calibrating
  <2> QED
    BY <2>3, <2>4, <2>5, <2>6 DEF IInv
<1> QED
  BY <1>2, <1>3

(* ... second half.                                                        *)
LEMMA DriveLowIInv == IInv /\ DriveLow => IInv'
<1> SUFFICES ASSUME IInv, DriveLow PROVE IInv'
  OBVIOUS
<1> USE DEF DriveLow
<1> DEFINE i == main.i
<1>1. /\ i \in Registered /\ Registered' = Registered /\ main \in Activity
      /\ i + 1 \in 0 .. SERVOS_MAX_NB /\ ~Servos[i].enabled
  <2>1. Servos_count \in 0 .. SERVOS_MAX_NB /\ i \in Registered
    BY DEF IInv, TypeOK, LoopInv
  <2> QED
    BY <2>1, TableSize DEF IInv, TypeOK, LoopInv, Registered
<1>2. /\ main' \in Activity /\ ~main'.clearing
      /\ main'.op = "flush" => main.op = "flush" /\ main'.i = i + 1
      /\ main'.op \notin {"max", "init", "pos"} /\ main.op \notin {"max", "init", "pos"}
  BY <1>1, AdvanceActivity DEF IInv, CalibrateInv
<1>3. TypeOK'
  BY <1>2 DEF IInv, TypeOK, timer, Level
<1>4. HighIsDriven'
  <2> SUFFICES ASSUME NEW p \in Pins, level'[p] = "HIGH"
               PROVE  \E j \in Registered : Servos[j].enabled /\ Servos[j].pin = p
    BY <1>1 DEF HighIsDriven
  <2>1. level[p] = "HIGH" /\ p # Servos[i].pin
    BY DEF IInv, TypeOK
  <2> QED
    BY <2>1 DEF IInv, HighIsDriven
<1>5. LoopInv'
  <2> SUFFICES ASSUME main'.op = "flush", NEW j \in Registered, j < i + 1
               PROVE  ~Servos[j].enabled
    BY <1>1, <1>2 DEF LoopInv
  <2>1. j = i \/ j < i
    BY <1>1 DEF Registered
  <2> QED
    BY <1>1, <1>2, <2>1 DEF IInv, LoopInv
<1>6. (PositionInRange /\ EnabledIsRegistered /\ PinsDistinct /\ CalibrateInv)'
  BY <1>1, <1>2 DEF IInv, PositionInRange, EnabledIsRegistered, PinsDistinct,
                    CalibrateInv, Calibrating
<1> QED
  BY <1>3, <1>4, <1>5, <1>6 DEF IInv

(* A round of servos_enable_all drives a registered servo only.            *)
LEMMA EnableNextIInv == IInv /\ EnableNext => IInv'
<1> SUFFICES ASSUME IInv, EnableNext PROVE IInv'
  OBVIOUS
<1> USE DEF EnableNext, Doing
<1>1. /\ main \in Activity /\ main.i \in Registered
      /\ main.i + 1 \in 0 .. SERVOS_MAX_NB
  <2>1. main \in Activity /\ Servos_count \in 0 .. SERVOS_MAX_NB
    BY DEF IInv, TypeOK
  <2> QED
    BY <2>1, TableSize DEF Registered, Activity
<1>2. main' \in Activity /\ ~main'.clearing /\ main'.op = "start"
  BY <1>1 DEF Advance, Activity
<1>3. Servos' = [Servos EXCEPT ![main.i] = Enabled(Servos[main.i])]
  BY DEF IInv, TypeOK
<1>4. \A j \in Registered : ~Calibrating(j)
  BY DEF Calibrating
<1>5. CalibrateInv'
  BY <1>2 DEF CalibrateInv
<1> QED
  BY <1>1, <1>2, <1>3, <1>4, <1>5, UpdateServo, EnablingServo

(* A loop that ends keeps the invariant; after that of `flush' no servo is *)
(* driven.                                                                 *)
LEMMA EndIInv == IInv /\ (EndStart \/ EndStop \/ EndFlush) => IInv'
<1> SUFFICES ASSUME IInv, EndStart \/ EndStop \/ EndFlush PROVE IInv'
  OBVIOUS
<1> USE DEF EndStart, EndStop, EndFlush, Doing
<1>1. main' \in Activity /\ ~main'.clearing /\ main'.op = "idle"
  BY IdleActivity
<1>2. Servos' = Servos /\ level' = level /\ timer' = timer
  OBVIOUS
<1>3. \/ Servos_count' = Servos_count
      \/ Servos_count' = 0 /\ \A j \in Registered : ~Servos[j].enabled
  <2>1. CASE EndFlush
    <3>1. \A j \in Registered : j < main.i
      BY <2>1, TableSize DEF Registered, IInv, TypeOK, Activity
    <3> QED
      BY <2>1, <3>1 DEF IInv, LoopInv
  <2> QED
    BY <2>1
<1>4. Registered' \subseteq Registered
  BY <1>3, TableSize DEF Registered, IInv, TypeOK
<1>5. TypeOK'
  <2>1. Servos_count' \in 0 .. SERVOS_MAX_NB
    BY <1>3, TableSize DEF IInv, TypeOK
  <2>2. led' \in Level /\ started' \in BOOLEAN
    BY DEF IInv, TypeOK, Level
  <2> QED
    BY <1>1, <1>2, <2>1, <2>2 DEF IInv, TypeOK, timer
<1>6. EnabledIsRegistered'
  BY <1>2, <1>3 DEF IInv, EnabledIsRegistered, Registered
<1>7. HighIsDriven'
  BY <1>2, <1>3 DEF IInv, HighIsDriven, Registered
<1>8. (PositionInRange /\ PinsDistinct)'
  BY <1>2, <1>4 DEF IInv, PositionInRange, PinsDistinct, Calibrating
<1>9. (LoopInv /\ CalibrateInv)'
  BY <1>1 DEF LoopInv, CalibrateInv
<1> QED
  BY <1>5, <1>6, <1>7, <1>8, <1>9 DEF IInv

-----------------------------------------------------------------------------
(* Every step keeps the invariant.                                         *)
LEMMA NextIInv == IInv /\ [Next]_vars => IInv'
<1> SUFFICES ASSUME IInv, [Next]_vars PROVE IInv'
  OBVIOUS
<1>1. CASE Tick
  BY <1>1, TickIInv
<1>2. CASE _servos_irq
  BY <1>2, IrqIInv
<1>3. CASE button_pressed
  BY <1>3, ButtonIInv
<1>4. CASE Command
  BY <1>4, RegisterIInv, CalibrateIInv, SetPosIInv, EnableIInv, BeginIInv
     DEF Command
<1>5. CASE Progress
  BY <1>5, CalibratingIInv, ClearEnabledIInv, DriveLowIInv, EnableNextIInv, EndIInv
     DEF Progress
<1>6. CASE UNCHANGED vars
  BY <1>6 DEF vars, timer, IInv, TypeOK, PositionInRange, EnabledIsRegistered,
              PinsDistinct, HighIsDriven, LoopInv, CalibrateInv, Calibrating,
              Registered
<1> QED
  BY <1>1, <1>2, <1>3, <1>4, <1>5, <1>6 DEF Next

(* The inductive invariant holds in every reachable state.                 *)
THEOREM SpecIInv == Spec => []IInv
BY InitIInv, NextIInv, PTL DEF Spec

(* The variables keep their types: in particular the interrupt never       *)
(* indexes outside the servo table and never loads a comparator with a     *)
(* value the counter does not reach, whatever the calibration.             *)
THEOREM ServosTypeOK == Spec => []TypeOK
<1>1. IInv => TypeOK
  BY DEF IInv
<1> QED
  BY <1>1, SpecIInv, PTL

(* No registered servo that is not enabled has its pin high, at any point  *)
(* of any interleaving of commands, timer and button interrupts.           *)
THEOREM ServosDisabledIsLow == Spec => []DisabledIsLow
<1>1. IInv => DisabledIsLow
  <2> SUFFICES ASSUME IInv, NEW i \in Registered, ~Servos[i].enabled,
                      ~(main.clearing /\ main.i = i),
                      level[Servos[i].pin] # "LOW"
               PROVE  FALSE
    BY DEF DisabledIsLow
  <2>1. Servos[i].pin \in Pins
    BY RegisteredInTable DEF IInv, TypeOK, Servo
  <2>2. level[Servos[i].pin] = "HIGH"
    BY <2>1 DEF IInv, TypeOK, Level
  <2>3. CASE \E j \in Registered : Servos[j].enabled /\ Servos[j].pin = Servos[i].pin
    BY <2>3 DEF IInv, PinsDistinct
  <2>4. CASE main.clearing /\ Servos[main.i].pin = Servos[i].pin
    BY <2>4 DEF IInv, PinsDistinct, LoopInv
  <2> QED
    BY <2>1, <2>2, <2>3, <2>4 DEF IInv, HighIsDriven
<1> QED
  BY <1>1, SpecIInv, PTL

(* Positions stay inside the calibrated range of their servo; excepted is  *)
(* the servo servos_calibrate is in the middle of.                         *)
THEOREM ServosPositionInRange == Spec => []PositionInRange
<1>1. IInv => PositionInRange
  BY DEF IInv
<1> QED
  BY <1>1, SpecIInv, PTL
-----------------------------------------------------------------------------
(* The pulses, when interrupts are served in time, servos are registered   *)
(* while none is driven, and positions are inside the period.              *)
PulseAssumption ==
  /\ Punctual /\ ~RegisterLive
  /\ Calibrations = {}
  /\ DefaultInit \in 1 .. Overflow - 1 /\ Positions \subseteq 1 .. Overflow - 1

Inside(s) == s.min = 0 /\ s.max = Overflow /\ {s.init, s.pos} \subseteq 1 .. Overflow - 1

(* No comparator asks for an end of the period, where two slots meet.      *)
ComparesInside ==
  /\ \A i \in Registered : Inside(Servos[i])
  /\ \A c \in Channel : compare[c] \in 1 .. Overflow - 1

(* A slot begins with the period.                                          *)
StartsAtZero == CC4 \in pending => counter = 0

(* A pulse is that of the slot, which does not end before the counter has  *)
(* met the comparator and the interrupt has lowered the pin.               *)
InPulse(i, c) ==
  /\ i = SERVO_FOR_CHANNEL(c, Servos_current)
  /\ CC4 \notin pending
  /\ counter < compare[c] \/ c \in pending

PulsesInSlot ==
  \A i \in Registered :
    Servos[i].enabled /\ level[Servos[i].pin] = "HIGH" => \E c \in Channel : InPulse(i, c)

NotCalibrating == main.op \notin {"max", "init", "pos"}

PulseInv == IInv /\ NotCalibrating /\ ComparesInside /\ StartsAtZero /\ PulsesInSlot

(* The channel and the slot of an entry are its quotient and its remainder. *)
LEMMA SlotOfServo ==
  ASSUME NEW c \in Channel, NEW k \in Slot
  PROVE  /\ SERVO_FOR_CHANNEL(c, k) % PerChannel = k
         /\ SERVO_FOR_CHANNEL(c, k) \div PerChannel = c
<1> DEFINE i == c * PerChannel + k
           q == i \div PerChannel
           r == i % PerChannel
<1>1. /\ PerChannel \in Nat \ {0} /\ c \in Nat /\ k \in 0 .. PerChannel - 1
      /\ c * PerChannel \in Nat
  BY ServosAssumption DEF Channel, Slot
<1>2. i \in Nat
  BY <1>1
<1>3. q \in Nat /\ r \in 0 .. PerChannel - 1 /\ i = PerChannel * q + r
  BY <1>1, <1>2
<1> HIDE DEF q, r
<1>4. (c - q) * PerChannel = r - k
  BY <1>1, <1>3
<1>5. ~(c - q >= 1)
  <2> SUFFICES ASSUME c - q >= 1 PROVE FALSE
    OBVIOUS
  <2>1. (c - q - 1) * PerChannel >= 0
    BY <1>1, <1>3
  <2>2. (c - q) * PerChannel >= PerChannel
    BY <1>1, <1>3, <2>1
  <2> QED
    BY <1>1, <1>3, <1>4, <2>2
<1>6. ~(q - c >= 1)
  <2> SUFFICES ASSUME q - c >= 1 PROVE FALSE
    OBVIOUS
  <2>1. (q - c - 1) * PerChannel >= 0
    BY <1>1, <1>3
  <2>2. (c - q) * PerChannel <= 0 - PerChannel
    BY <1>1, <1>3, <2>1
  <2> QED
    BY <1>1, <1>3, <1>4, <2>2
<1>7. c = q
  BY <1>1, <1>3, <1>5, <1>6
<1>8. r = k
  BY <1>1, <1>3, <1>7
<1> QED
  BY <1>7, <1>8 DEF SERVO_FOR_CHANNEL, q, r

(* A servo that is not driven, and not being disabled, has its pin low.    *)
LEMMA RestingIsLow ==
  ASSUME IInv, NEW i \in Registered, ~Servos[i].enabled, ~(main.clearing /\ main.i = i)
  PROVE  level[Servos[i].pin] # "HIGH"
<1> SUFFICES ASSUME level[Servos[i].pin] = "HIGH" PROVE FALSE
  OBVIOUS
<1>1. Servos[i].pin \in Pins
  BY RegisteredInTable DEF IInv, TypeOK, Servo
<1>2. CASE \E j \in Registered : Servos[j].enabled /\ Servos[j].pin = Servos[i].pin
  BY <1>2 DEF IInv, PinsDistinct
<1>3. CASE main.clearing /\ Servos[main.i].pin = Servos[i].pin
  BY <1>3 DEF IInv, PinsDistinct, LoopInv
<1> QED
  BY <1>1, <1>2, <1>3 DEF IInv, HighIsDriven

(* At first there are no servos, and the comparators are at half a period. *)
LEMMA InitPulses == PulseAssumption /\ Init => PulseInv
<1> SUFFICES ASSUME PulseAssumption, Init PROVE PulseInv
  OBVIOUS
<1>1. Registered = {}
  BY DEF Init, Registered
<1>2. Overflow \div 2 \in 1 .. Overflow - 1
  BY ServosAssumption DEF PulseAssumption
<1>3. ComparesInside
  BY <1>1, <1>2 DEF ComparesInside, Init
<1>4. StartsAtZero /\ PulsesInSlot
  BY <1>1 DEF StartsAtZero, PulsesInSlot, Init
<1>5. NotCalibrating
  BY DEF NotCalibrating, Init, Idle
<1> QED
  BY <1>3, <1>4, <1>5, InitIInv DEF PulseInv

(* The steps that leave the timer alone, raise no pin, and drive a servo   *)
(* only when its pin is low.                                               *)
LEMMA QuietStep ==
  ASSUME PulseInv, UNCHANGED timer, Registered' \subseteq Registered,
         \A i \in Registered' :
           /\ Servos'[i].pin = Servos[i].pin /\ Inside(Servos'[i])
           /\ Servos'[i].enabled /\ level'[Servos'[i].pin] = "HIGH"
                => Servos[i].enabled /\ level[Servos[i].pin] = "HIGH"
  PROVE  (ComparesInside /\ StartsAtZero /\ PulsesInSlot)'
<1>1. ComparesInside'
  BY DEF PulseInv, ComparesInside, timer, Inside
<1>2. StartsAtZero'
  BY DEF PulseInv, StartsAtZero, timer
<1>3. PulsesInSlot'
  <2> SUFFICES ASSUME NEW i \in Registered',
                      Servos'[i].enabled, level'[Servos'[i].pin] = "HIGH"
               PROVE  \E c \in Channel : InPulse(i, c)'
    BY DEF PulsesInSlot
  <2>1. PICK c \in Channel : InPulse(i, c)
    BY DEF PulseInv, PulsesInSlot
  <2>2. InPulse(i, c)'
    BY <2>1 DEF InPulse, timer, SERVO_FOR_CHANNEL
  <2> QED
    BY <2>2
<1> QED
  BY <1>1, <1>2, <1>3

(* While a pulse lasts, the counter does not reach the end of the period.  *)
LEMMA TickPulses ==
  ASSUME PulseAssumption, PulseInv, Tick
  PROVE  (ComparesInside /\ StartsAtZero /\ PulsesInSlot)'
<1> USE DEF Tick
<1>1. /\ pending = {} /\ counter \in 0 .. Overflow /\ Overflow \in Nat
      /\ pending' = {c \in Channel : compare[c] = counter'} \cup {c \in {CC4} : counter' = 0}
      /\ compare' = compare /\ Servos' = Servos /\ Registered' = Registered
      /\ level' = level /\ Servos_current' = Servos_current
  BY ServosAssumption DEF PulseAssumption, PulseInv, IInv, TypeOK, Registered
<1>2. CC4 \notin Channel
  BY ServosAssumption DEF CC4, Channel
<1>3. ComparesInside'
  BY <1>1 DEF PulseInv, ComparesInside, Inside
<1>4. StartsAtZero'
  BY <1>1, <1>2 DEF StartsAtZero
<1>5. PulsesInSlot'
  <2> SUFFICES ASSUME NEW i \in Registered,
                      Servos[i].enabled, level[Servos[i].pin] = "HIGH"
               PROVE  \E c \in Channel : InPulse(i, c)'
    BY <1>1 DEF PulsesInSlot
  <2>1. PICK c \in Channel : InPulse(i, c)
    BY DEF PulseInv, PulsesInSlot
  <2>2. counter < compare[c] /\ compare[c] \in 1 .. Overflow - 1
    BY <1>1, <2>1 DEF InPulse, PulseInv, ComparesInside
  <2>3. counter' = counter + 1
    BY <1>1, <2>2
  <2>4. CC4 \notin pending'
    BY <1>1, <1>2, <2>3
  <2>5. counter' < compare'[c] \/ c \in pending'
    BY <1>1, <2>2, <2>3
  <2>6. InPulse(i, c)'
    BY <1>1, <2>1, <2>4, <2>5 DEF InPulse, SERVO_FOR_CHANNEL
  <2> QED
    BY <2>6
<1> QED
  BY <1>3, <1>4, <1>5

(* The interrupt raises the pins of the slot it opens, and lowers those    *)
(* whose comparator was met.                                               *)
LEMMA IrqPulses ==
  ASSUME PulseAssumption, PulseInv, _servos_irq
  PROVE  (ComparesInside /\ StartsAtZero /\ PulsesInSlot)'
<1> USE DEF _servos_irq
<1>1. /\ ServedSlot \in Slot /\ Registered' = Registered /\ Servos' = Servos
      /\ CC4 \notin Channel /\ pending' = {} /\ counter' = counter
      /\ pending \subseteq Channel \cup {CC4} /\ compare \in [Channel -> 0 .. Overflow]
  BY ServosAssumption
     DEF PulseInv, IInv, TypeOK, ServedSlot, NextSlot, Slot, Registered, CC4, Channel
<1>2. \A c \in Channel : /\ SERVO_FOR_CHANNEL(c, ServedSlot) \in Index
                         /\ Servos[SERVO_FOR_CHANNEL(c, ServedSlot)].enabled
                              => SERVO_FOR_CHANNEL(c, ServedSlot) \in Registered
  BY <1>1, SlotInTable DEF PulseInv, IInv, EnabledIsRegistered
<1>3. \A c \in Channel :
        CompareFor(Servos[SERVO_FOR_CHANNEL(c, ServedSlot)]) \in 1 .. Overflow - 1
  <2> SUFFICES ASSUME NEW c \in Channel
               PROVE  CompareFor(Servos[SERVO_FOR_CHANNEL(c, ServedSlot)]) \in 1 .. Overflow - 1
    OBVIOUS
  <2> DEFINE s == Servos[SERVO_FOR_CHANNEL(c, ServedSlot)]
  <2>1. Overflow \div 2 \in 1 .. Overflow - 1 /\ Overflow \in Nat
    BY ServosAssumption DEF PulseAssumption
  <2>2. s.enabled => s.pos \in 1 .. Overflow - 1
    BY <1>2 DEF PulseInv, ComparesInside, Inside
  <2> HIDE DEF s
  <2>3. CompareFor(s) \in 1 .. Overflow - 1
    BY <2>1, <2>2 DEF CompareFor
  <2> QED
    BY <2>3 DEF s
<1>4. \A c \in Channel : compare'[c] \in 1 .. Overflow - 1
  BY <1>1, <1>3 DEF PulseInv, ComparesInside
<1>5. ComparesInside'
  BY <1>1, <1>4 DEF PulseInv, ComparesInside, Inside
<1>6. StartsAtZero'
  BY <1>1 DEF StartsAtZero
<1>7. PulsesInSlot'
  <2> SUFFICES ASSUME NEW i \in Registered,
                      Servos[i].enabled, level'[Servos[i].pin] = "HIGH"
               PROVE  \E c \in Channel : InPulse(i, c)'
    BY <1>1 DEF PulsesInSlot
  <2> DEFINE p == Servos[i].pin
  <2>0. p \in Pins /\ i \in Index
    BY RegisteredInTable DEF PulseInv, IInv, TypeOK, Servo
  <2>1. p \notin Lowered /\ (p \in Raised \/ level[p] = "HIGH")
    BY <2>0
  <2>2. CASE CC4 \in pending
    <3>1. level[p] # "HIGH"
      BY <2>2 DEF PulseInv, PulsesInSlot, InPulse
    <3>2. PICK c \in Channel :
            LET s == Servos[SERVO_FOR_CHANNEL(c, ServedSlot)]
            IN  s.enabled /\ s.pin = p
      BY <2>1, <2>2, <3>1 DEF Raised, Served
    <3>3. i = SERVO_FOR_CHANNEL(c, ServedSlot)
      BY <1>2, <3>2 DEF PulseInv, IInv, PinsDistinct
    <3>4. counter' < compare'[c]
      BY <1>1, <1>4, <2>2 DEF PulseInv, StartsAtZero
    <3>5. InPulse(i, c)'
      BY <1>1, <3>3, <3>4 DEF InPulse, SERVO_FOR_CHANNEL
    <3> QED
      BY <3>5
  <2>3. CASE CC4 \notin pending
    <3>1. level[p] = "HIGH" /\ ServedSlot = Servos_current /\ compare' = compare
      BY <2>1, <2>3 DEF Raised, ServedSlot
    <3>2. PICK c \in Channel : InPulse(i, c)
      BY <3>1 DEF PulseInv, PulsesInSlot
    <3>3. c \notin pending
      BY <1>1, <2>1, <3>1, <3>2 DEF InPulse, Lowered, Served
    <3>4. InPulse(i, c)'
      BY <1>1, <3>1, <3>2, <3>3 DEF InPulse, SERVO_FOR_CHANNEL
    <3> QED
      BY <3>4
  <2> QED
    BY <2>2, <2>3
<1> QED
  BY <1>5, <1>6, <1>7

(* A servo is registered while none is driven.                             *)
LEMMA RegisterPulses ==
  ASSUME PulseAssumption, PulseInv, NEW pin \in Pins, servos_register(pin)
  PROVE  (ComparesInside /\ StartsAtZero /\ PulsesInSlot)'
<1> USE DEF servos_register
<1> DEFINE n == Servos_count
<1>1. /\ n \in Index /\ Registered \subseteq Index /\ Registered' = Registered \cup {n}
      /\ \A j \in Registered : ~Servos[j].enabled
  <2>1. n \in 0 .. SERVOS_MAX_NB
    BY DEF PulseInv, IInv, TypeOK
  <2> QED
    BY <2>1, TableSize DEF Registered, Index, PulseAssumption, Driven
<1>2. /\ \A j \in Registered \ {n} : Servos'[j] = Servos[j]
      /\ ~Servos'[n].enabled /\ Inside(Servos'[n])
  BY <1>1 DEF PulseInv, IInv, TypeOK, Inside, PulseAssumption
<1>3. Overflow \div 2 \in 1 .. Overflow - 1
  BY ServosAssumption DEF PulseAssumption
<1>4. ComparesInside'
  BY <1>1, <1>2, <1>3 DEF PulseInv, ComparesInside, initTimer, Inside
<1>5. StartsAtZero'
  BY DEF StartsAtZero, initTimer
<1>6. PulsesInSlot'
  BY <1>1, <1>2 DEF PulsesInSlot
<1> QED
  BY <1>4, <1>5, <1>6

(* A new position is inside, since those asked for are.                    *)
LEMMA SetPosPulses ==
  ASSUME PulseAssumption, PulseInv, NEW i \in Index,
         NEW pos \in Positions \cup {Servos[i].init}, servos_set_pos(i, pos)
  PROVE  (ComparesInside /\ StartsAtZero /\ PulsesInSlot)'
<1> USE DEF servos_set_pos
<1>1. i \in Registered /\ Registered \subseteq Index /\ Registered' = Registered
  BY RegisteredInTable DEF PulseInv, IInv, Registered
<1>2. Servos[i] \in Servo /\ Inside(Servos[i]) /\ Overflow \in Nat
  BY <1>1, ServosAssumption DEF PulseInv, IInv, TypeOK, ComparesInside
<1>3. pos \in 1 .. Overflow - 1
  BY <1>2 DEF PulseAssumption, Inside
<1>4. Clamp(Servos[i], pos) = pos
  BY <1>2, <1>3 DEF Clamp, Inside
<1>5. Servos' = [Servos EXCEPT ![i].pos = pos]
  BY <1>4
<1>6. \A j \in Registered : /\ Servos'[j].pin = Servos[j].pin /\ Inside(Servos'[j])
                            /\ Servos'[j].enabled = Servos[j].enabled
  BY <1>1, <1>2, <1>3, <1>5 DEF PulseInv, IInv, TypeOK, ComparesInside, Inside, Servo
<1> QED
  BY <1>1, <1>6, QuietStep

(* A servo that is enabled starts with its pin low, where it is.           *)
LEMMA EnablePulses ==
  ASSUME PulseInv, NEW i \in Registered, ~main.clearing,
         Servos' = [Servos EXCEPT ![i] = Enabled(Servos[i])],
         UNCHANGED <<timer, level, Servos_count>>
  PROVE  (ComparesInside /\ StartsAtZero /\ PulsesInSlot)'
<1>1. i \in Index /\ Registered \subseteq Index /\ Registered' = Registered
  BY RegisteredInTable DEF PulseInv, IInv, Registered
<1>2. Servos[i] \in Servo /\ Inside(Servos[i]) /\ Overflow \in Nat
  BY <1>1, ServosAssumption DEF PulseInv, IInv, TypeOK, ComparesInside
<1>3. Inside(Enabled(Servos[i])) /\ Enabled(Servos[i]).pin = Servos[i].pin
  BY <1>2 DEF Enabled, Clamp, Inside, Servo
<1>4. ~Servos[i].enabled => level[Servos[i].pin] # "HIGH"
  BY RestingIsLow DEF PulseInv
<1>5. /\ Servos'[i] = Enabled(Servos[i])
      /\ \A j \in Registered \ {i} : Servos'[j] = Servos[j]
  BY <1>1 DEF PulseInv, IInv, TypeOK
<1>6. \A j \in Registered :
        /\ Servos'[j].pin = Servos[j].pin /\ Inside(Servos'[j])
        /\ Servos'[j].enabled /\ level'[Servos'[j].pin] = "HIGH"
             => Servos[j].enabled /\ level[Servos[j].pin] = "HIGH"
  BY <1>3, <1>4, <1>5 DEF PulseInv, ComparesInside
<1> QED
  BY <1>1, <1>6, QuietStep

(* Disabling drives no servo.                                              *)
LEMMA DisablePulses ==
  ASSUME PulseInv, button_pressed \/ ClearEnabled \/ DriveLow
  PROVE  (ComparesInside /\ StartsAtZero /\ PulsesInSlot)'
<1>1. UNCHANGED timer /\ Registered' = Registered /\ Registered \subseteq Index
  BY RegisteredInTable
     DEF button_pressed, ClearEnabled, DriveLow, Registered, PulseInv, IInv
<1>2. ASSUME NEW i \in Registered
      PROVE  /\ Servos'[i].pin = Servos[i].pin /\ Inside(Servos'[i])
             /\ Servos'[i].enabled => Servos[i].enabled
  <2>1. Servos[i] \in Servo /\ Inside(Servos[i]) /\ i \in Index
    BY <1>1 DEF PulseInv, IInv, TypeOK, ComparesInside
  <2>2. Servos'[i] = Servos[i] \/ Servos'[i] = [Servos[i] EXCEPT !.enabled = FALSE]
    BY <2>1 DEF button_pressed, ClearEnabled, DriveLow, PulseInv, IInv, TypeOK
  <2> QED
    BY <2>1, <2>2 DEF Servo, Inside
<1>3. \A p \in Pins : level'[p] = "HIGH" => level[p] = "HIGH"
  BY DEF button_pressed, ClearEnabled, DriveLow, PulseInv, IInv, TypeOK
<1>4. \A i \in Registered : Servos[i].pin \in Pins
  BY <1>1 DEF PulseInv, IInv, TypeOK, Servo
<1> QED
  BY <1>1, <1>2, <1>3, <1>4, QuietStep

(* Neither does the beginning or the end of a loop.                        *)
LEMMA LoopPulses ==
  ASSUME PulseInv, UNCHANGED <<Servos, timer, level>>, Registered' \subseteq Registered
  PROVE  (ComparesInside /\ StartsAtZero /\ PulsesInSlot)'
<1>1. \A i \in Registered : Inside(Servos[i])
  BY DEF PulseInv, ComparesInside
<1> QED
  BY <1>1, QuietStep

(* No servo is calibrated.                                                 *)
LEMMA NextNotCalibrating ==
  PulseAssumption /\ PulseInv /\ [Next]_vars => NotCalibrating'
<1> SUFFICES ASSUME PulseAssumption, PulseInv, [Next]_vars PROVE NotCalibrating'
  OBVIOUS
<1>0. main.op \notin {"max", "init", "pos"} /\ Idle.op = "idle"
  BY DEF PulseInv, NotCalibrating, Idle
<1>1. main \in Activity
  BY DEF PulseInv, IInv, TypeOK
<1>2. CASE Tick \/ _servos_irq \/ button_pressed \/ UNCHANGED vars
  BY <1>0, <1>2 DEF Tick, _servos_irq, button_pressed, vars, NotCalibrating
<1>3. CASE Command
  BY <1>0, <1>3, IdleActivity
     DEF Command, PulseAssumption, servos_register, servos_set_pos, servos_enable, Begin,
         Activity, NotCalibrating
<1>4. CASE Progress
  <2>1. Advance.op \in {"idle", main.op}
    BY <1>0, <1>1 DEF Advance, Activity
  <2>2. main'.op \in {"idle", main.op}
    BY <1>0, <1>1, <1>4, <2>1
       DEF Progress, CalibrateMax, CalibrateInit, CalibratePos, ClearEnabled, DriveLow,
           EnableNext, EndStart, EndStop, EndFlush, Doing, Activity
  <2> QED
    BY <1>0, <2>2 DEF NotCalibrating
<1> QED
  BY <1>2, <1>3, <1>4 DEF Next

(* Every step keeps the pulses in their slots.                             *)
LEMMA NextPulses == PulseAssumption /\ PulseInv /\ [Next]_vars => PulseInv'
<1> SUFFICES ASSUME PulseAssumption, PulseInv, [Next]_vars
             PROVE  (ComparesInside /\ StartsAtZero /\ PulsesInSlot)'
  BY NextIInv, NextNotCalibrating DEF PulseInv
<1>1. CASE Tick
  BY <1>1, TickPulses
<1>2. CASE _servos_irq
  BY <1>2, IrqPulses
<1>3. CASE button_pressed \/ ClearEnabled \/ DriveLow
  BY <1>3, DisablePulses
<1>4. CASE \E pin \in Pins : servos_register(pin)
  BY <1>4, RegisterPulses
<1>5. ASSUME NEW i \in Index,
             \/ \E c \in Calibrations : servos_calibrate(i, c)
             \/ \E pos \in Positions \cup {Servos[i].init} : servos_set_pos(i, pos)
             \/ servos_enable(i)
             \/ \E op \in {"disable", "start", "stop", "flush"} : Begin(op, i)
      PROVE  (ComparesInside /\ StartsAtZero /\ PulsesInSlot)'
  <2>1. CASE \E c \in Calibrations : servos_calibrate(i, c)
    BY <2>1 DEF PulseAssumption
  <2>2. CASE \E pos \in Positions \cup {Servos[i].init} : servos_set_pos(i, pos)
    BY <2>2, SetPosPulses
  <2>3. CASE servos_enable(i)
    <3>1. Servos' = [Servos EXCEPT ![i] = Enabled(Servos[i])]
      BY <2>3 DEF servos_enable, PulseInv, IInv, TypeOK
    <3>2. i \in Registered /\ ~main.clearing /\ UNCHANGED <<timer, level, Servos_count>>
      BY <2>3 DEF servos_enable, Idle
    <3> QED
      BY <3>1, <3>2, EnablePulses
  <2>4. CASE \E op \in {"disable", "start", "stop", "flush"} : Begin(op, i)
    BY <2>4, LoopPulses DEF Begin, Registered
  <2> QED
    BY <1>5, <2>1, <2>2, <2>3, <2>4
<1>6. CASE EnableNext
  <2>1. main \in Activity /\ Servos_count \in 0 .. SERVOS_MAX_NB
    BY DEF PulseInv, IInv, TypeOK
  <2>2. main.i \in Registered /\ ~main.clearing
    BY <1>6, <2>1, TableSize DEF EnableNext, Doing, Registered, Activity
  <2>3. Servos' = [Servos EXCEPT ![main.i] = Enabled(Servos[main.i])]
    BY <1>6 DEF EnableNext, PulseInv, IInv, TypeOK
  <2> QED
    BY <1>6, <2>2, <2>3, EnablePulses DEF EnableNext
<1>7. CASE EndStart \/ EndStop \/ EndFlush
  <2>1. Registered' \subseteq Registered
    BY <1>7, TableSize DEF EndStart, EndStop, EndFlush, Registered, PulseInv, IInv, TypeOK
  <2> QED
    BY <1>7, <2>1, LoopPulses DEF EndStart, EndStop, EndFlush
<1>8. CASE UNCHANGED vars
  BY <1>8, LoopPulses DEF vars, timer, Registered
<1>9. ~CalibrateMax /\ ~CalibrateInit /\ ~CalibratePos
  BY DEF CalibrateMax, CalibrateInit, CalibratePos, Doing, PulseInv, NotCalibrating
<1> QED
  BY <1>1, <1>2, <1>3, <1>4, <1>5, <1>6, <1>7, <1>8, <1>9 DEF Next, Command, Progress

(* Pulses never overlap on a channel: a servo's pin is high only in its    *)
(* own slot, when interrupts are in time and positions inside the period,  *)
(* for any number of channels and servos and any period.                   *)
THEOREM ServosPulseWithinSlot ==
  ASSUME PulseAssumption PROVE Spec => []PulseWithinSlot
<1>1. PulseInv => PulseWithinSlot
  <2> SUFFICES ASSUME PulseInv, NEW i \in Registered, level[Servos[i].pin] = "HIGH",
                      ~(main.clearing /\ main.i = i)
               PROVE  i % PerChannel = Servos_current
    BY DEF PulseWithinSlot
  <2>1. Servos[i].enabled
    BY RestingIsLow DEF PulseInv
  <2>2. PICK c \in Channel : InPulse(i, c)
    BY <2>1 DEF PulseInv, PulsesInSlot
  <2> QED
    BY <2>2, SlotOfServo DEF InPulse, PulseInv, IInv, TypeOK
<1>2. Init => PulseInv
  BY InitPulses
<1>3. PulseInv /\ [Next]_vars => PulseInv'
  BY NextPulses
<1> QED
  BY <1>1, <1>2, <1>3, PTL DEF Spec
-----------------------------------------------------------------------------
(* The width of the pulses, when interrupts are served in time, servos are *)
(* registered while none is driven, and no calibration goes beyond the     *)
(* period: a position may be at an end of it, unlike in PulseAssumption.   *)
WidthAssumption ==
  /\ Punctual /\ ~RegisterLive
  /\ \A c \in Calibrations : c[3] <= Overflow

BelowPeriod == \A i \in Registered : Servos[i].max <= Overflow

(* Neither the position of the old range nor the new range is beyond it.   *)
CalibratedBelow ==
  main.op \in {"max", "init", "pos"}
    => Servos[main.i].pos <= Overflow /\ main.given[3] <= Overflow

(* While a pin is high, a flag still raised is that of a comparator the    *)
(* counter has met just now.                                               *)
MetNow ==
  (\E p \in Pins : level[p] = "HIGH")
    => \A c \in pending \ {CC4} : compare[c] = counter

WidthInv == IInv /\ BelowPeriod /\ CalibratedBelow /\ StartsAtZero /\ MetNow

(* At first no pin is high.                                                *)
LEMMA InitWidth == Init => WidthInv
<1> SUFFICES ASSUME Init
             PROVE  BelowPeriod /\ CalibratedBelow /\ StartsAtZero /\ MetNow
  BY InitIInv DEF WidthInv
<1>1. Registered = {} /\ main.op = "idle"
  BY DEF Init, Registered, Idle
<1> QED
  BY <1>1 DEF Init, BelowPeriod, CalibratedBelow, StartsAtZero, MetNow

(* The steps that leave the timer and the ranges of the servos alone, and  *)
(* raise no pin.                                                           *)
LEMMA QuietWidth ==
  ASSUME WidthInv, UNCHANGED timer, Registered' \subseteq Registered,
         \A i \in Registered' : Servos'[i].max <= Overflow,
         \A p \in Pins : level'[p] = "HIGH" => level[p] = "HIGH"
  PROVE  (BelowPeriod /\ StartsAtZero /\ MetNow)'
BY DEF WidthInv, BelowPeriod, StartsAtZero, MetNow, timer

(* In time, the flags a tick leaves are those it raised.                   *)
LEMMA TickWidth ==
  ASSUME WidthAssumption, WidthInv, Tick
  PROVE  (BelowPeriod /\ StartsAtZero /\ MetNow)'
<1> USE DEF Tick
<1>1. /\ pending' = {c \in Channel : compare[c] = counter'} \cup {c \in {CC4} : counter' = 0}
      /\ compare' = compare
  BY DEF WidthAssumption
<1>2. CC4 \notin Channel
  BY ServosAssumption DEF CC4, Channel
<1>3. BelowPeriod'
  BY DEF WidthInv, BelowPeriod, Registered
<1>4. StartsAtZero' /\ MetNow'
  BY <1>1, <1>2 DEF StartsAtZero, MetNow
<1> QED
  BY <1>3, <1>4

(* The interrupt serves every flag.                                        *)
LEMMA IrqWidth ==
  ASSUME WidthInv, _servos_irq
  PROVE  (BelowPeriod /\ StartsAtZero /\ MetNow)'
BY DEF _servos_irq, WidthInv, BelowPeriod, Registered, StartsAtZero, MetNow

(* The timer is restarted while no pin is high.                            *)
LEMMA RegisterWidth ==
  ASSUME WidthAssumption, WidthInv, NEW pin \in Pins, servos_register(pin)
  PROVE  (BelowPeriod /\ StartsAtZero /\ MetNow)'
<1> USE DEF servos_register
<1>1. \A p \in Pins : level[p] # "HIGH"
  BY DEF WidthAssumption, Driven, Idle, WidthInv, IInv, HighIsDriven
<1>2. \A p \in Pins : level'[p] # "HIGH"
  BY <1>1 DEF WidthInv, IInv, TypeOK
<1>3. /\ Servos_count \in Index /\ Registered' = Registered \cup {Servos_count}
      /\ Registered \subseteq Index /\ Servos_count \notin Registered
  <2>1. Servos_count \in 0 .. SERVOS_MAX_NB
    BY DEF WidthInv, IInv, TypeOK
  <2> QED
    BY <2>1, TableSize DEF Registered, Index
<1>4. /\ Servos'[Servos_count].max = Overflow
      /\ \A i \in Registered : Servos'[i] = Servos[i]
  BY <1>3 DEF WidthInv, IInv, TypeOK
<1>5. BelowPeriod'
  BY <1>3, <1>4, ServosAssumption DEF WidthInv, BelowPeriod
<1>6. StartsAtZero' /\ MetNow'
  BY <1>2 DEF initTimer, StartsAtZero, MetNow
<1> QED
  BY <1>5, <1>6

(* A calibration begins below the period and leaves the position where it  *)
(* is until its last write.                                                *)
LEMMA NextCalibrated ==
  WidthAssumption /\ WidthInv /\ [Next]_vars => CalibratedBelow'
<1> SUFFICES ASSUME WidthAssumption, WidthInv, [Next]_vars,
                    main'.op \in {"max", "init", "pos"}
             PROVE  Servos'[main'.i].pos <= Overflow /\ main'.given[3] <= Overflow
  BY DEF CalibratedBelow
<1>0. /\ Registered \subseteq Index /\ Servos \in [Index -> Servo] /\ main \in Activity
      /\ Overflow \in Nat /\ Idle.op = "idle"
  BY RegisteredInTable, ServosAssumption DEF WidthInv, IInv, TypeOK, Idle
<1>1. CASE Tick \/ _servos_irq \/ UNCHANGED vars
  BY <1>1 DEF Tick, _servos_irq, vars, WidthInv, CalibratedBelow
<1>2. CASE button_pressed
  <2>1. main' = main /\ main.i \in Index
    BY <1>0, <1>2 DEF button_pressed, WidthInv, IInv, CalibrateInv
  <2>2. Servos'[main.i].pos = Servos[main.i].pos
    BY <1>0, <1>2, <2>1 DEF button_pressed, Servo
  <2> QED
    BY <2>1, <2>2 DEF WidthInv, CalibratedBelow
<1>3. ASSUME NEW i \in Index, NEW c \in Calibrations, servos_calibrate(i, c)
      PROVE  Servos'[main'.i].pos <= Overflow /\ main'.given[3] <= Overflow
  <2>1. i \in Registered /\ main'.i = i /\ main'.given = c /\ main.op = "idle"
    BY <1>0, <1>3 DEF servos_calibrate, Idle
  <2>2. Servos[i].pos <= Servos[i].max /\ Servos[i].max <= Overflow
    BY <2>1 DEF WidthInv, BelowPeriod, IInv, PositionInRange, Calibrating
  <2>3. Servos'[i].pos = Servos[i].pos /\ Servos[i].pos \in Nat /\ Servos[i].max \in Nat
    BY <1>0, <1>3 DEF servos_calibrate, Servo
  <2> QED
    BY <1>0, <2>1, <2>2, <2>3 DEF WidthAssumption
<1>4. CASE CalibrateMax \/ CalibrateInit
  <2>1. /\ main'.i = main.i /\ main'.given = main.given /\ main.i \in Index
        /\ main.op \in {"max", "init", "pos"}
    BY <1>0, <1>4
       DEF CalibrateMax, CalibrateInit, Doing, Activity, WidthInv, IInv, CalibrateInv
  <2>2. Servos'[main.i].pos = Servos[main.i].pos
    BY <1>0, <1>4, <2>1 DEF CalibrateMax, CalibrateInit, Servo
  <2> QED
    BY <2>1, <2>2 DEF WidthInv, CalibratedBelow
<1>5. ASSUME NEW i \in Index,
             \/ \E pos \in Positions \cup {Servos[i].init} : servos_set_pos(i, pos)
             \/ servos_enable(i)
             \/ \E op \in {"disable", "start", "stop", "flush"} : Begin(op, i)
      PROVE  FALSE
  <2>1. ASSUME NEW op \in {"disable", "start", "stop", "flush"}, Begin(op, i)
        PROVE  main'.op = op
    BY <2>1, IdleActivity DEF Begin, Activity
  <2> QED
    BY <1>0, <1>5, <2>1 DEF servos_set_pos, servos_enable
<1>6. ~\E pin \in Pins : servos_register(pin)
  BY <1>0 DEF servos_register
<1>7. ~CalibratePos /\ ~ClearEnabled /\ ~DriveLow /\ ~EnableNext /\ ~EndStart /\ ~EndStop
      /\ ~EndFlush
  <2>1. Advance.op \in {"idle", main.op}
    BY <1>0 DEF Advance, Activity
  <2>2. main.clearing => main.op \notin {"max", "init", "pos"}
    BY DEF WidthInv, IInv, CalibrateInv
  <2> QED
    BY <1>0, <2>1, <2>2 DEF CalibratePos, ClearEnabled, DriveLow, EnableNext, EndStart,
                            EndStop, EndFlush, Doing, Activity
<1> QED
  BY <1>1, <1>2, <1>3, <1>4, <1>5, <1>6, <1>7 DEF Next, Command, Progress

(* Every step keeps the flags and the ranges so.                           *)
LEMMA NextWidth == WidthAssumption /\ WidthInv /\ [Next]_vars => WidthInv'
<1> SUFFICES ASSUME WidthAssumption, WidthInv, [Next]_vars
             PROVE  (BelowPeriod /\ StartsAtZero /\ MetNow)'
  BY NextIInv, NextCalibrated DEF WidthInv
<1>0. /\ Registered \subseteq Index /\ Servos \in [Index -> Servo]
      /\ level \in [Pins -> Level]
      /\ \A i \in Registered : Servos[i].max <= Overflow
  BY RegisteredInTable DEF WidthInv, IInv, TypeOK, BelowPeriod
<1>1. CASE Tick
  BY <1>1, TickWidth
<1>2. CASE _servos_irq
  BY <1>2, IrqWidth
<1>3. CASE button_pressed \/ ClearEnabled \/ DriveLow
  <2>1. UNCHANGED timer /\ Registered' = Registered
    BY <1>3 DEF button_pressed, ClearEnabled, DriveLow, Registered
  <2>2. ASSUME NEW i \in Registered PROVE Servos'[i].max <= Overflow
    <3>1. Servos'[i] = Servos[i] \/ Servos'[i] = [Servos[i] EXCEPT !.enabled = FALSE]
      BY <1>0, <1>3, <2>2 DEF button_pressed, ClearEnabled, DriveLow
    <3> QED
      BY <1>0, <2>2, <3>1 DEF Servo
  <2>3. \A p \in Pins : level'[p] = "HIGH" => level[p] = "HIGH"
    BY <1>0, <1>3 DEF button_pressed, ClearEnabled, DriveLow
  <2> QED
    BY <2>1, <2>2, <2>3, QuietWidth
<1>4. CASE \E pin \in Pins : servos_register(pin)
  BY <1>4, RegisterWidth
<1>5. ASSUME NEW i \in Registered,
             \/ \E c \in Calibrations : servos_calibrate(i, c)
             \/ \E pos \in Positions \cup {Servos[i].init} : servos_set_pos(i, pos)
             \/ Servos' = [Servos EXCEPT ![i] = Enabled(Servos[i])],
             UNCHANGED <<Servos_count, timer, level>>
      PROVE  (BelowPeriod /\ StartsAtZero /\ MetNow)'
  <2>1. i \in Index /\ Servos[i] \in Servo /\ Servos[i].max <= Overflow
    BY <1>0
  <2>2. \A j \in Registered \ {i} : Servos'[j] = Servos[j]
    BY <1>0, <1>5, <2>1 DEF servos_calibrate, servos_set_pos
  <2>3. CASE \E c \in Calibrations : servos_calibrate(i, c)
    <3>1. PICK c \in Calibrations : servos_calibrate(i, c)
      BY <2>3
    <3>2. Servos'[i].max = Servos[i].max
      BY <1>0, <2>1, <3>1 DEF servos_calibrate, Servo
    <3> QED
      BY <1>0, <1>5, <2>1, <2>2, <3>2, QuietWidth DEF Registered
  <2>4. CASE \E pos \in Positions \cup {Servos[i].init} : servos_set_pos(i, pos)
    <3>1. Servos'[i].max = Servos[i].max
      BY <1>0, <2>1, <2>4 DEF servos_set_pos, Servo
    <3> QED
      BY <1>0, <1>5, <2>1, <2>2, <3>1, QuietWidth DEF Registered
  <2>5. CASE Servos' = [Servos EXCEPT ![i] = Enabled(Servos[i])]
    <3>1. Servos'[i].max = Servos[i].max
      BY <1>0, <2>1, <2>5 DEF Enabled, Servo
    <3> QED
      BY <1>0, <1>5, <2>1, <2>2, <3>1, QuietWidth DEF Registered
  <2> QED
    BY <1>5, <2>3, <2>4, <2>5
<1>6. ASSUME NEW i \in Index,
             \/ \E c \in Calibrations : servos_calibrate(i, c)
             \/ \E pos \in Positions \cup {Servos[i].init} : servos_set_pos(i, pos)
             \/ servos_enable(i)
      PROVE  (BelowPeriod /\ StartsAtZero /\ MetNow)'
  <2>1. i \in Registered /\ UNCHANGED <<Servos_count, timer, level>>
    BY <1>6 DEF servos_calibrate, servos_set_pos, servos_enable
  <2>2. servos_enable(i) => Servos' = [Servos EXCEPT ![i] = Enabled(Servos[i])]
    BY <1>0 DEF servos_enable
  <2> QED
    BY <1>5, <1>6, <2>1, <2>2
<1>7. CASE EnableNext
  <2>1. main \in Activity /\ Servos_count \in 0 .. SERVOS_MAX_NB
    BY DEF WidthInv, IInv, TypeOK
  <2>2. main.i \in Registered
    BY <1>7, <2>1, TableSize DEF EnableNext, Registered, Activity
  <2>3. Servos' = [Servos EXCEPT ![main.i] = Enabled(Servos[main.i])]
    BY <1>0, <1>7 DEF EnableNext
  <2> QED
    BY <1>5, <1>7, <2>2, <2>3 DEF EnableNext
<1>8. ASSUME UNCHANGED <<Servos, timer, level>>, Registered' \subseteq Registered
      PROVE  (BelowPeriod /\ StartsAtZero /\ MetNow)'
  BY <1>0, <1>8, QuietWidth
<1>9. CASE EndStart \/ EndStop \/ EndFlush
  <2>1. Registered' \subseteq Registered
    BY <1>9, TableSize DEF EndStart, EndStop, EndFlush, Registered, WidthInv, IInv, TypeOK
  <2> QED
    BY <1>8, <1>9, <2>1 DEF EndStart, EndStop, EndFlush
<1>10. CASE \E i \in Index, op \in {"disable", "start", "stop", "flush"} : Begin(op, i)
  BY <1>8, <1>10 DEF Begin, Registered
<1>11. CASE UNCHANGED vars
  BY <1>8, <1>11 DEF vars, Registered
<1>12. CASE CalibrateMax \/ CalibrateInit \/ CalibratePos
  <2>1. /\ main.i \in Registered /\ main.i \in Index /\ main.given[3] <= Overflow
        /\ Servos[main.i] \in Servo /\ Servos[main.i].max <= Overflow
    BY <1>0, <1>12 DEF CalibrateMax, CalibrateInit, CalibratePos, Doing, WidthInv, IInv,
                       CalibrateInv, CalibratedBelow
  <2>2. \A j \in Registered \ {main.i} : Servos'[j] = Servos[j]
    BY <1>0, <1>12, <2>1 DEF CalibrateMax, CalibrateInit, CalibratePos
  <2>3. Servos'[main.i].max \in {Servos[main.i].max, main.given[3]}
    BY <1>0, <1>12, <2>1 DEF CalibrateMax, CalibrateInit, CalibratePos, Servo
  <2>4. \A j \in Registered : Servos'[j].max <= Overflow
    BY <1>0, <2>1, <2>2, <2>3
  <2>5. UNCHANGED <<Servos_count, timer, level>>
    BY <1>12 DEF CalibrateMax, CalibrateInit, CalibratePos
  <2> QED
    BY <2>4, <2>5, QuietWidth DEF Registered
<1> QED
  BY <1>1, <1>2, <1>3, <1>4, <1>6, <1>7, <1>9, <1>10, <1>11, <1>12
     DEF Next, Command, Progress

(* The interrupt raises a pin when it opens the slot of its servo, whose   *)
(* position it loads, and lowers it when the counter has just got there.   *)
LEMMA IrqEdges ==
  ASSUME WidthInv, _servos_irq, NEW i \in Registered
  PROVE  LET s == Servos[i]
             c == i \div PerChannel
         IN  /\ level[s.pin] = "LOW" /\ level'[s.pin] = "HIGH"
                  => counter = 0 /\ compare'[c] = s.pos
             /\ level[s.pin] = "HIGH" /\ level'[s.pin] = "LOW" /\ s.enabled
                  => counter = compare[c]
<1> USE DEF _servos_irq
<1> DEFINE p == Servos[i].pin
<1>1. /\ ServedSlot \in Slot /\ CC4 \notin Channel /\ pending \subseteq Channel \cup {CC4}
      /\ level \in [Pins -> Level]
  BY ServosAssumption
     DEF WidthInv, IInv, TypeOK, ServedSlot, NextSlot, Slot, CC4, Channel
<1>2. Servos[i] \in Servo /\ p \in Pins /\ i \in Index
  BY RegisteredInTable DEF WidthInv, IInv, TypeOK, Servo
<1>3. ASSUME NEW c \in Channel, Servos[SERVO_FOR_CHANNEL(c, ServedSlot)].enabled,
             Servos[SERVO_FOR_CHANNEL(c, ServedSlot)].pin = p
      PROVE  i = SERVO_FOR_CHANNEL(c, ServedSlot) /\ i \div PerChannel = c
  <2> DEFINE j == SERVO_FOR_CHANNEL(c, ServedSlot)
  <2>1. j \in Registered
    BY <1>1, <1>3, SlotInTable DEF WidthInv, IInv, EnabledIsRegistered
  <2>2. i = j
    BY <1>3, <2>1 DEF WidthInv, IInv, PinsDistinct
  <2>3. j \div PerChannel = c
    BY <1>1, SlotOfServo
  <2> QED
    BY <2>2, <2>3
<1>4. ASSUME level[p] = "LOW", level'[p] = "HIGH"
      PROVE  counter = 0 /\ compare'[i \div PerChannel] = Servos[i].pos
  <2>1. p \in Raised
    BY <1>2, <1>4
  <2>2. \E c \in Channel :
          LET s == Servos[SERVO_FOR_CHANNEL(c, ServedSlot)]
          IN  CC4 \in pending /\ s.enabled /\ s.pin = p
    BY <2>1 DEF Raised, Served
  <2>3. PICK c \in Channel :
          LET s == Servos[SERVO_FOR_CHANNEL(c, ServedSlot)]
          IN  CC4 \in pending /\ s.enabled /\ s.pin = p
    BY <2>2
  <2>4. i = SERVO_FOR_CHANNEL(c, ServedSlot) /\ i \div PerChannel = c
    BY <1>3, <2>3
  <2>5. compare'[c] = CompareFor(Servos[i])
    BY <2>3, <2>4
  <2>6. Servos[i].enabled /\ ~(Servos[i].pos > Overflow)
    <3>1. \/ Servos[i].pos <= Servos[i].max /\ Servos[i].max <= Overflow
          \/ Servos[i].pos <= Overflow
      BY DEF WidthInv, BelowPeriod, IInv, PositionInRange, CalibratedBelow, Calibrating
    <3>2. Servos[i].pos \in Nat /\ Servos[i].max \in Nat /\ Overflow \in Nat
      BY <1>2, ServosAssumption DEF Servo
    <3> QED
      BY <2>3, <2>4, <3>1, <3>2
  <2>7. CompareFor(Servos[i]) = Servos[i].pos
    BY <2>6 DEF CompareFor
  <2>8. counter = 0
    BY <2>3 DEF WidthInv, StartsAtZero
  <2> QED
    BY <2>4, <2>5, <2>7, <2>8
<1>5. ASSUME level[p] = "HIGH", level'[p] = "LOW"
      PROVE  counter = compare[i \div PerChannel]
  <2>1. p \in Lowered
    BY <1>2, <1>5
  <2>2. \E c \in pending \ {CC4} :
          LET s == Servos[SERVO_FOR_CHANNEL(c, ServedSlot)]
          IN  s.enabled /\ s.pin = p
    BY <2>1 DEF Lowered, Served
  <2>3. PICK c \in pending \ {CC4} :
          LET s == Servos[SERVO_FOR_CHANNEL(c, ServedSlot)]
          IN  s.enabled /\ s.pin = p
    BY <2>2
  <2>4. i \div PerChannel = c
    BY <1>1, <1>3, <2>3
  <2>5. compare[c] = counter
    BY <1>2, <1>5, <2>3 DEF WidthInv, MetNow
  <2> QED
    BY <2>4, <2>5
<1> QED
  BY <1>4, <1>5

(* Every other step raises no pin, and lowers none of a servo that stays   *)
(* enabled.                                                                *)
LEMMA QuietEdges ==
  ASSUME WidthInv, [Next]_vars, ~_servos_irq, NEW i \in Registered
  PROVE  /\ level[Servos[i].pin] = "LOW" => level'[Servos[i].pin] # "HIGH"
         /\ level[Servos[i].pin] = "HIGH" /\ level'[Servos[i].pin] = "LOW"
              => ~(Servos[i].enabled /\ Servos'[i].enabled)
<1> DEFINE p == Servos[i].pin
<1>1. /\ Servos[i] \in Servo /\ p \in Pins /\ i \in Index
      /\ level \in [Pins -> Level] /\ Servos \in [Index -> Servo]
  BY RegisteredInTable DEF WidthInv, IInv, TypeOK, Servo
<1>2. CASE level' = level
  BY <1>2
<1>3. CASE button_pressed
  <2>1. level[p] = "LOW" => level'[p] # "HIGH"
    BY <1>1, <1>3 DEF button_pressed
  <2>2. ~(Servos[i].enabled /\ Servos'[i].enabled)
    <3>1. i \in Driven => Servos'[i] = [Servos[i] EXCEPT !.enabled = FALSE]
      BY <1>1, <1>3 DEF button_pressed
    <3>2. i \in Driven => ~Servos'[i].enabled
      BY <1>1, <3>1 DEF Servo
    <3> QED
      BY <3>2 DEF Driven
  <2> QED
    BY <2>1, <2>2
<1>4. CASE DriveLow
  <2>1. level[p] = "LOW" => level'[p] # "HIGH"
    BY <1>1, <1>4 DEF DriveLow
  <2>2. main.i \in Registered /\ ~Servos[main.i].enabled
    BY <1>4 DEF DriveLow, WidthInv, IInv, LoopInv
  <2>3. Servos[i].enabled => p # Servos[main.i].pin
    BY <2>2 DEF WidthInv, IInv, PinsDistinct
  <2>4. Servos[i].enabled => level'[p] = level[p]
    BY <1>1, <1>4, <2>3 DEF DriveLow
  <2> QED
    BY <2>1, <2>4
<1>5. ASSUME NEW pin \in Pins, servos_register(pin)
      PROVE  level'[p] = level[p]
  BY <1>1, <1>5 DEF servos_register
<1>6. level' = level \/ button_pressed \/ DriveLow \/ \E pin \in Pins : servos_register(pin)
  <2>1. Tick \/ UNCHANGED vars => level' = level
    BY DEF Tick, vars
  <2>2. CalibrateMax \/ CalibrateInit \/ CalibratePos \/ ClearEnabled \/ EnableNext
        \/ EndStart \/ EndStop \/ EndFlush => level' = level
    BY DEF CalibrateMax, CalibrateInit, CalibratePos, ClearEnabled, EnableNext, EndStart,
           EndStop, EndFlush
  <2>3. Command => level' = level \/ \E pin \in Pins : servos_register(pin)
    BY DEF Command, servos_calibrate, servos_set_pos, servos_enable, Begin
  <2> QED
    BY <2>1, <2>2, <2>3 DEF Next, Progress
<1> QED
  BY <1>2, <1>3, <1>4, <1>5, <1>6

(* A pulse is as long as the position commanded when it began, for any     *)
(* number of channels and servos, any period, and any orders, calibrations *)
(* and presses of the button in the middle of it.                          *)
THEOREM ServosPulseWidth ==
  ASSUME WidthAssumption PROVE Spec => PulseWidth
<1>1. Init => WidthInv
  BY InitWidth
<1>2. WidthInv /\ [Next]_vars => WidthInv'
  BY NextWidth
<1>3. WidthInv /\ [Next]_vars =>
        [\A i \in Registered :
           LET s == Servos[i]
               c == i \div PerChannel
           IN  /\ level[s.pin] = "LOW" /\ level'[s.pin] = "HIGH"
                    => counter = 0 /\ compare'[c] = s.pos
               /\ level[s.pin] = "HIGH" /\ level'[s.pin] = "LOW"
                  /\ s.enabled /\ Servos'[i].enabled
                    => counter = compare[c]]_vars
  BY IrqEdges, QuietEdges
<1> QED
  BY <1>1, <1>2, <1>3, PTL DEF Spec, PulseWidth
=============================================================================
