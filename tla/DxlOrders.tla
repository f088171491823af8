------------------------------ MODULE DxlOrders ------------------------------
(***************************************************************************)
(* Position orders to the Dynamixel servos (dxl.cpp).  In asynchronous     *)
(* mode, the mode of the main loop (main.cpp), dxl_set_position only notes *)
(* the order in a table, as the position and a dirty flag; dxl_flush, run  *)
(* by the loop at 50 Hz, sends the dirty entries in sync-write packets.    *)
(* In synchronous mode the order is written to the bus at once.            *)
(*                                                                         *)
(* `goal' is the environment: the goal position register of each servo.    *)
(* The button interrupt may come while a packet is on the wire; it sends   *)
(* its own packets in the middle of it and turns the bus back to reading,  *)
(* after which the interrupted packet may or may not be understood.        *)
(***************************************************************************)
EXTENDS Integers, FiniteSets, Functions

CONSTANTS
  MaxId,        (* DXL_MAX_ID                                               *)
  PerPacket,    (* servos in one sync-write packet: 10 in dxl_flush         *)
  Span,         (* degrees over which a servo turns: 300                    *)
  Resolution,   (* steps of the position register over Span: 1024           *)
  Orders,       (* the positions asked for, in degrees                      *)
  Limits,       (* the <<zero, min, max>> a servo may be configured with    *)
  Unknown       (* the goal of a servo nothing was sent to                  *)

ASSUME DxlOrdersAssumption ==
  /\ MaxId \in Nat /\ MaxId < 254
  /\ PerPacket \in Nat \ {0}
  /\ Span \in Nat \ {0} /\ Resolution \in Nat \ {0}
  /\ Orders \subseteq Int
  /\ Limits \subseteq Int \X Int \X Int
  /\ Unknown \notin Int

VARIABLES
  initialized,   (* dxl_init has run                                        *)
  dxl_is_async,
  limits,        (* zero, min and max of dxl_configs[id-1]                  *)
  position,      (* dxl_configs[id-1].position                              *)
  dirty,         (* the ids whose dxl_configs[id-1].dirty is set            *)
  main,          (* what the main thread is in the middle of                *)
  packet,        (* the orders it is sending, by servo                      *)
  cut,           (* history: the button interrupted that packet             *)
  goal,          (* the goal register of each servo of the bus              *)
  astray         (* history: the servos for which the last packet with an   *)
                 (* order was not understood, or was a broadcast the table  *)
                 (* knows nothing of                                        *)

table == <<limits, position, dirty>>
bus == <<packet, cut, goal, astray>>
vars == <<initialized, dxl_is_async, table, main, bus>>

DXL_BROADCAST == 254

(* The servos the table follows: the test is id < DXL_MAX_ID && id != 0.   *)
Tracked == 1 .. MaxId - 1

(* The servos dxl_flush looks at, which are those of the bus here.         *)
Servo == 1 .. MaxId

(* The servos that obey a write to an id.                                  *)
Addressed(id) == IF id = DXL_BROADCAST THEN Servo ELSE {id}

NoOrder == [id \in {} |-> 0]
Sending == DOMAIN packet

-----------------------------------------------------------------------------
(* A C conversion truncates towards zero.                                  *)
dxl_position_to_value(degrees) ==
  LET steps == degrees * Resolution + Span * (Resolution \div 2)
  IN  IF steps >= 0 THEN steps \div Span ELSE -((-steps) \div Span)

Clamp(degrees, l) ==
  LET least == IF degrees < l.min THEN l.min ELSE degrees
  IN  IF least > l.max THEN l.max ELSE least

dxl_order_to_value(id, degrees) ==
  dxl_position_to_value(
    IF id \in Tracked THEN Clamp(degrees + limits[id].zero, limits[id])
    ELSE degrees)

Init ==
  /\ initialized = FALSE
  /\ dxl_is_async = FALSE
  /\ limits = [id \in Servo |-> [zero |-> 0, min |-> -(Span \div 2),
                                 max |-> Span \div 2]]
  /\ position = [id \in Servo |-> 0]
  /\ dirty = {}
  /\ main = "idle"
  /\ packet = NoOrder
  /\ cut = FALSE
  /\ goal = [id \in Servo |-> Unknown]
  /\ astray = {}

-----------------------------------------------------------------------------
(* dxl_init; its other effects are on the bus and on torques.              *)
dxl_init ==
  /\ main = "idle"
  /\ initialized' = TRUE
  /\ UNCHANGED <<dxl_is_async, table, main, bus>>

dxl_async(async) ==
  /\ main = "idle"
  /\ dxl_is_async' = async
  /\ UNCHANGED <<initialized, table, main, bus>>

(* dxl_set_zero and dxl_set_min_max.  The table keeps the position it has. *)
dxl_set_limits(id, l) ==
  /\ main = "idle"
  /\ id \in Tracked
  /\ limits' = [limits EXCEPT ![id] = [zero |-> l[1], min |-> l[2], max |-> l[3]]]
  /\ UNCHANGED <<initialized, dxl_is_async, position, dirty, main, bus>>

(* The order an untracked servo is given is not noted, and in asynchronous *)
(* mode it goes nowhere.                                                   *)
Noted_ComparesNew(id, value) ==
  IF id \notin Tracked THEN UNCHANGED <<position, dirty>>
  ELSE /\ position' = [position EXCEPT ![id] = value]
       /\ dirty' = IF dxl_is_async /\ position'[id] # value
                   THEN dirty \cup {id} ELSE dirty

Noted(id, value) ==
  IF id \notin Tracked THEN UNCHANGED <<position, dirty>>
  ELSE /\ position' = [position EXCEPT ![id] = value]
       /\ dirty' = IF dxl_is_async /\ position[id] # value
                   THEN dirty \cup {id} ELSE dirty

dxl_set_position(id, degrees) ==
  LET value == dxl_order_to_value(id, degrees)
  IN  /\ main = "idle"
      /\ Noted(id, value)
      /\ IF dxl_is_async THEN UNCHANGED <<main, packet>>
         ELSE /\ main' = IF id = DXL_BROADCAST THEN "broadcast" ELSE "write"
              /\ packet' = [s \in Addressed(id) |-> value]
      /\ UNCHANGED <<initialized, dxl_is_async, limits, cut, goal, astray>>

-----------------------------------------------------------------------------
(* dxl_flush, called by the main loop after tick().                        *)
BeginFlush ==
  /\ main = "idle"
  /\ main' = "flush"
  /\ UNCHANGED <<initialized, dxl_is_async, table, bus>>

(* The ids one round takes: the first PerPacket of the dirty ones.         *)
InPacket_OneMore ==
  {id \in dirty : Cardinality({d \in dirty : d < id}) <= PerPacket}

InPacket == {id \in dirty : Cardinality({d \in dirty : d < id}) < PerPacket}

(* One round of the loop: the flags are cleared and the packet is built.   *)
Collect_KeepsFlags ==
  /\ main = "flush" /\ Sending = {}
  /\ dirty # {}
  /\ packet' = Restrict(position, InPacket)
  /\ UNCHANGED <<initialized, dxl_is_async, table, main, cut, goal, astray>>

Collect ==
  /\ main = "flush" /\ Sending = {}
  /\ dirty # {}
  /\ packet' = Restrict(position, InPacket)
  /\ dirty' = dirty \ InPacket
  /\ UNCHANGED <<initialized, dxl_is_async, limits, position, main, cut, goal,
                 astray>>

(* The end of a packet: dxl_send gives up before dxl_init has run, and a   *)
(* packet the button cut is understood or not.                             *)
EndSend(understood) ==
  /\ Sending # {}
  /\ IF initialized THEN ~understood => cut ELSE ~understood
  /\ goal' = [s \in Servo |-> IF understood /\ s \in Sending
                              THEN packet[s] ELSE goal[s]]
  /\ astray' = IF understood /\ main # "broadcast" THEN astray \ Sending
               ELSE astray \cup Sending
  /\ main' = IF main = "flush" THEN "flush" ELSE "idle"
  /\ packet' = NoOrder
  /\ cut' = FALSE
  /\ UNCHANGED <<initialized, dxl_is_async, table>>

EndFlush ==
  /\ main = "flush" /\ Sending = {}
  /\ dirty = {}
  /\ main' = "idle"
  /\ UNCHANGED <<initialized, dxl_is_async, table, bus>>

(* button_pressed: the packets of dxl_disable_all in the middle of ours.   *)
button_pressed ==
  /\ initialized
  /\ Sending # {}
  /\ cut' = TRUE
  /\ UNCHANGED <<initialized, dxl_is_async, table, main, packet, goal, astray>>

Progress == Collect \/ (\E understood \in BOOLEAN : EndSend(understood)) \/ EndFlush

Next ==
  \/ dxl_init
  \/ \E async \in BOOLEAN : dxl_async(async)
  \/ \E id \in Tracked, l \in Limits : dxl_set_limits(id, l)
  \/ \E id \in Servo \cup {DXL_BROADCAST}, degrees \in Orders :
       dxl_set_position(id, degrees)
  \/ BeginFlush
  \/ Progress
  \/ button_pressed

Spec == Init /\ [][Next]_vars

(* The loop comes back to dxl_flush 50 times a second, whatever else it    *)
(* does in between, and what the main thread begins it carries on with.    *)
FairSpec == Spec /\ SF_vars(BeginFlush) /\ WF_vars(Progress)

-----------------------------------------------------------------------------
(* Every variable keeps its type; only followed servos are ever dirty, and *)
(* a packet of dxl_flush holds no more servos than fit (its parameters are *)
(* written without a check).                                               *)
TypeOK ==
  /\ initialized \in BOOLEAN /\ dxl_is_async \in BOOLEAN
  /\ limits \in [Servo -> [zero : Int, min : Int, max : Int]]
  /\ position \in [Servo -> Int]
  /\ dirty \subseteq Tracked
  /\ main \in {"idle", "flush", "write", "broadcast"}
  /\ packet \in [Sending -> Int] /\ Sending \subseteq Servo
  /\ cut \in BOOLEAN
  /\ main = "flush" => Cardinality(Sending) <= PerPacket
  /\ goal \in [Servo -> Int \cup {Unknown}]
  /\ astray \subseteq Servo

(* A servo is where its table entry says it was ordered, unless the order  *)
(* still waits in the table or is on the wire, or was lost on the bus.     *)
(* dxl_flush clears the dirty flag before it sends, and a repeated order   *)
(* is not marked dirty: an order dropped in between stays dropped.  The    *)
(* position an entry has before any order is 0, which an order of 0 does   *)
(* not differ from.                                                        *)
InStep(id) == goal[id] = position[id] \/ (goal[id] = Unknown /\ position[id] = 0)

Delivered ==
  \A id \in Tracked : id \in dirty \/ id \in Sending \/ id \in astray \/ InStep(id)

(* The orders that wait are sent: dxl_flush returns, with nothing dirty,   *)
(* again and again, whatever the button does to its packets.               *)
Flushed == []<>(main = "idle" /\ dirty = {})
=============================================================================
