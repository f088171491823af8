------------------------------ MODULE DxlProofs ------------------------------
(***************************************************************************)
(* What holds on the Dynamixel bus for every value of the constants: the   *)
(* orders (DxlOrders), the packets and their parser (DxlPackets), and the  *)
(* replies (DxlBus).                                                       *)
(***************************************************************************)
EXTENDS DxlOrders, DxlBus, FunctionTheorems, FiniteSetTheorems,
        SequenceTheorems, WellFoundedInduction, TLAPS

-----------------------------------------------------------------------------
(* Part 1, the orders: safety of DxlOrders for any number of servos,       *)
(* packet size and limits.                                                 *)

(* A packet carries what the table holds, except a broadcast; nothing is   *)
(* on the wire between two operations.                                     *)
PacketFromTable ==
  /\ main = "idle" => Sending = {}
  /\ main # "broadcast" =>
       \A id \in Tracked \cap Sending : packet[id] = position[id]

IInv == TypeOK /\ PacketFromTable /\ Delivered
-----------------------------------------------------------------------------
(* The servos the table follows are servos dxl_flush looks at.             *)
LEMMA FollowedIsOnTheBus == Tracked \subseteq Servo
BY DxlOrdersAssumption DEF Tracked, Servo

(* A position in degrees has a register value.                             *)
LEMMA ValueIsInt ==
  ASSUME NEW degrees \in Int
  PROVE  dxl_position_to_value(degrees) \in Int
<1>1. Resolution \div 2 \in Int
  BY DxlOrdersAssumption
<1>2. degrees * Resolution + Span * (Resolution \div 2) \in Int
  BY <1>1, DxlOrdersAssumption
<1> QED
  BY <1>2, DxlOrdersAssumption DEF dxl_position_to_value

(* An order, shifted and clamped or not, has a register value              *)
(* (dxl_order_to_value).                                                   *)
LEMMA OrderIsInt ==
  ASSUME TypeOK, NEW id, NEW degrees \in Int
  PROVE  dxl_order_to_value(id, degrees) \in Int
<1>1. CASE id \in Tracked
  <2>1. limits[id] \in [zero : Int, min : Int, max : Int]
    BY <1>1, FollowedIsOnTheBus DEF TypeOK
  <2>2. Clamp(degrees + limits[id].zero, limits[id]) \in Int
    BY <2>1 DEF Clamp
  <2> QED
    BY <1>1, <2>2, ValueIsInt DEF dxl_order_to_value
<1>2. CASE id \notin Tracked
  BY <1>2, ValueIsInt DEF dxl_order_to_value
<1> QED
  BY <1>1, <1>2

(* A round of dxl_flush takes dirty servos, and no more than fit: ranking  *)
(* each by the dirty ids below it is injective into 0 .. PerPacket - 1.    *)
LEMMA PacketFits ==
  ASSUME dirty \subseteq Tracked
  PROVE  /\ InPacket \subseteq dirty
         /\ IsFiniteSet(InPacket)
         /\ Cardinality(InPacket) <= PerPacket
<1> DEFINE below(id) == {d \in dirty : d < id}
           rank == [id \in InPacket |-> Cardinality(below(id))]
           Ranks == 0 .. PerPacket - 1
<1>1. IsFiniteSet(dirty)
  <2>1. IsFiniteSet(Tracked)
    BY FS_Interval, DxlOrdersAssumption DEF Tracked
  <2> QED
    BY <2>1, FS_Subset
<1>2. InPacket \subseteq dirty
  BY DEF InPacket
<1>3. IsFiniteSet(InPacket) /\ Cardinality(InPacket) \in Nat
  BY <1>1, <1>2, FS_Subset, FS_CardinalityType
<1>4. \A id \in dirty : IsFiniteSet(below(id)) /\ Cardinality(below(id)) \in Nat
  BY <1>1, FS_Subset, FS_CardinalityType
<1>5. IsFiniteSet(Ranks) /\ Cardinality(Ranks) = PerPacket
  BY FS_Interval, DxlOrdersAssumption
<1>6. rank \in [InPacket -> Ranks]
  BY <1>2, <1>4, DxlOrdersAssumption DEF InPacket
<1>7. ASSUME NEW x \in InPacket, NEW y \in InPacket, x < y
      PROVE  rank[x] < rank[y]
  <2>1. below(x) \cup {x} \subseteq below(y)
    <3>1. x \in dirty /\ y \in dirty /\ dirty \subseteq Int
      BY <1>2, DxlOrdersAssumption DEF Tracked
    <3>2. \A d \in below(x) \cup {x} : d \in dirty /\ d < y
      BY <1>7, <3>1
    <3> QED
      BY <3>2
  <2>2. x \notin below(x)
    BY <1>2, DxlOrdersAssumption DEF Tracked
  <2>3. Cardinality(below(x) \cup {x}) = Cardinality(below(x)) + 1
    BY <1>2, <1>4, <2>2, FS_AddElement
  <2>4. Cardinality(below(x) \cup {x}) <= Cardinality(below(y))
    BY <1>2, <1>4, <2>1, FS_Subset
  <2> HIDE DEF below
  <2> QED
    BY <1>2, <1>4, <2>3, <2>4
<1>8. ASSUME PerPacket < Cardinality(InPacket) PROVE FALSE
  <2>1. PICK x \in InPacket, y \in InPacket : x # y /\ rank[x] = rank[y]
    <3> HIDE DEF rank, Ranks
    <3> QED
      BY <1>3, <1>5, <1>6, <1>8, FS_PigeonHole
  <2>2. x < y \/ y < x
    BY <1>2, <2>1, DxlOrdersAssumption DEF Tracked
  <2>3. rank[x] \in Int /\ rank[y] \in Int
    BY <1>2, <1>4
  <2> HIDE DEF rank
  <2> QED
    BY <1>7, <2>1, <2>2, <2>3
<1> QED
  BY <1>2, <1>3, <1>8, DxlOrdersAssumption

(* The type of packets, and of those of dxl_flush.                         *)
LEMMA NothingSent == DOMAIN NoOrder = {} /\ NoOrder \in [{} -> Int]
BY DEF NoOrder

(* The invariant holds before dxl_init.                                    *)
LEMMA InitIInv == Init => IInv
<1> SUFFICES ASSUME Init PROVE IInv
  OBVIOUS
<1>1. limits \in [Servo -> [zero : Int, min : Int, max : Int]]
  BY DxlOrdersAssumption DEF Init
<1>2. Sending = {} /\ packet \in [Sending -> Int]
  BY NothingSent DEF Init, Sending
<1>3. position \in [Servo -> Int] /\ goal \in [Servo -> Int \cup {Unknown}]
  BY DEF Init
<1>4. TypeOK
  BY <1>1, <1>2, <1>3 DEF Init, TypeOK
<1>5. PacketFromTable
  BY <1>2 DEF PacketFromTable
<1>6. Delivered
  BY FollowedIsOnTheBus DEF Init, Delivered, InStep
<1> QED
  BY <1>4, <1>5, <1>6 DEF IInv

(* The actions that move neither the orders nor the bus.                   *)
LEMMA SettingsIInv ==
  ASSUME IInv, UNCHANGED <<position, dirty, main, bus>>,
         initialized' \in BOOLEAN, dxl_is_async' \in BOOLEAN,
         limits' \in [Servo -> [zero : Int, min : Int, max : Int]]
  PROVE  IInv'
<1>1. TypeOK'
  BY DEF IInv, TypeOK, bus, Sending
<1>2. PacketFromTable'
  BY DEF IInv, PacketFromTable, bus, Sending
<1>3. Delivered'
  BY DEF IInv, Delivered, InStep, bus, Sending
<1> QED
  BY <1>1, <1>2, <1>3 DEF IInv

(* Changing the limits of a servo moves no order (dxl_set_min_max).        *)
LEMMA LimitsIInv ==
  ASSUME IInv, NEW id \in Tracked, NEW l \in Limits, dxl_set_limits(id, l)
  PROVE  IInv'
<1>1. l[1] \in Int /\ l[2] \in Int /\ l[3] \in Int
  BY DxlOrdersAssumption
<1>2. limits' \in [Servo -> [zero : Int, min : Int, max : Int]]
  BY <1>1, FollowedIsOnTheBus DEF dxl_set_limits, IInv, TypeOK
<1> QED
  BY <1>2, SettingsIInv DEF dxl_set_limits, IInv, TypeOK

(* An order is noted, and marked dirty when it waits; one written at once  *)
(* is on the wire.                                                         *)
LEMMA OrderIInv ==
  ASSUME IInv, NEW id \in Servo \cup {DXL_BROADCAST}, NEW degrees \in Orders,
         dxl_set_position(id, degrees)
  PROVE  IInv'
<1> DEFINE value == dxl_order_to_value(id, degrees)
<1> USE DEF dxl_set_position
<1>1. value \in Int
  BY OrderIsInt, DxlOrdersAssumption DEF IInv
<1> HIDE DEF value
<1>2. Noted(id, value) /\ Sending = {}
  BY DEF IInv, PacketFromTable, value
<1>3. position' \in [Servo -> Int] /\ dirty' \subseteq Tracked
  BY <1>1, <1>2 DEF Noted, IInv, TypeOK
<1>4. CASE dxl_is_async
  <2>1. TypeOK'
    BY <1>3, <1>4 DEF IInv, TypeOK, Sending
  <2>2. PacketFromTable'
    BY <1>2, <1>4 DEF IInv, PacketFromTable, Sending
  <2>3. ASSUME NEW i \in Tracked, i \notin dirty', i \notin astray
        PROVE  position'[i] = position[i] /\ i \notin dirty
    BY <1>2, <1>4, <2>3, FollowedIsOnTheBus DEF Noted, IInv, TypeOK
  <2>4. Delivered'
    BY <1>2, <1>4, <2>3 DEF IInv, Delivered, InStep, Sending
  <2> QED
    BY <2>1, <2>2, <2>4 DEF IInv
<1>5. CASE ~dxl_is_async
  <2>1. Addressed(id) \subseteq Servo
    BY DEF Addressed
  <2>2. packet' = [s \in Addressed(id) |-> value]
    BY <1>5 DEF value
  <2>3. Sending' = Addressed(id) /\ packet' \in [Sending' -> Int]
    BY <1>1, <2>2 DEF Sending
  <2>4. main' = IF id = DXL_BROADCAST THEN "broadcast" ELSE "write"
    BY <1>5
  <2>5. TypeOK'
    BY <1>3, <2>1, <2>3, <2>4 DEF IInv, TypeOK
  <2>6. PacketFromTable'
    <3>1. id = DXL_BROADCAST => main' = "broadcast"
      BY <2>4
    <3>2. ASSUME id # DXL_BROADCAST, NEW i \in Tracked, i \in Sending'
          PROVE  packet'[i] = position'[i]
      <4>1. i = id
        BY <2>3, <3>2 DEF Addressed
      <4> QED
        BY <1>2, <2>2, <2>3, <3>2, <4>1, FollowedIsOnTheBus DEF Noted, IInv, TypeOK
    <3>3. main' # "idle"
      BY <2>4
    <3> QED
      BY <3>1, <3>2, <3>3 DEF PacketFromTable
  <2>7. ASSUME NEW i \in Tracked, i \notin Sending' PROVE position'[i] = position[i]
    BY <1>2, <2>3, <2>7, FollowedIsOnTheBus DEF Noted, Addressed, IInv, TypeOK
  <2>8. dirty' = dirty
    BY <1>2, <1>5 DEF Noted
  <2>9. Delivered'
    BY <1>2, <2>7, <2>8 DEF IInv, Delivered, InStep
  <2> QED
    BY <2>5, <2>6, <2>9 DEF IInv
<1> QED
  BY <1>4, <1>5

(* Entering dxl_flush moves no order.                                      *)
LEMMA BeginFlushIInv == IInv /\ BeginFlush => IInv'
<1> SUFFICES ASSUME IInv, BeginFlush PROVE IInv'
  OBVIOUS
<1> USE DEF BeginFlush, table, bus
<1>1. Sending = {} /\ Sending' = {}
  BY DEF IInv, PacketFromTable, Sending
<1>2. TypeOK'
  BY <1>1, FS_EmptySet, DxlOrdersAssumption DEF IInv, TypeOK
<1>3. PacketFromTable' /\ Delivered'
  BY <1>1 DEF IInv, PacketFromTable, Delivered, InStep
<1> QED
  BY <1>2, <1>3 DEF IInv

(* The servos whose flag a round clears are in its packet.                 *)
LEMMA CollectIInv == IInv /\ Collect => IInv'
<1> SUFFICES ASSUME IInv, Collect PROVE IInv'
  OBVIOUS
<1> USE DEF Collect
<1>1. InPacket \subseteq dirty /\ Cardinality(InPacket) <= PerPacket
  BY PacketFits DEF IInv, TypeOK
<1>2. dirty \subseteq Tracked /\ Tracked \subseteq Servo
  BY FollowedIsOnTheBus DEF IInv, TypeOK
<1>3. packet' = [id \in InPacket |-> position[id]]
  BY DEF Restrict
<1>4. Sending' = InPacket /\ packet' \in [InPacket -> Int]
  BY <1>1, <1>2, <1>3 DEF Sending, IInv, TypeOK
<1>5. TypeOK'
  BY <1>1, <1>2, <1>4 DEF IInv, TypeOK
<1>6. PacketFromTable'
  BY <1>3, <1>4 DEF PacketFromTable
<1>7. Delivered'
  BY <1>4 DEF IInv, Delivered, InStep
<1> QED
  BY <1>5, <1>6, <1>7 DEF IInv

(* A packet understood brings its servos in step with the table.           *)
LEMMA SendIInv ==
  ASSUME IInv, NEW understood \in BOOLEAN, EndSend(understood)
  PROVE  IInv'
<1> USE DEF EndSend
<1>1. Sending' = {} /\ packet' \in [Sending' -> Int]
  BY NothingSent DEF Sending
<1>2. goal' \in [Servo -> Int \cup {Unknown}]
  BY DEF IInv, TypeOK
<1>3. TypeOK'
  <2>1. Cardinality(Sending') <= PerPacket /\ Sending' \subseteq Servo
    BY <1>1, FS_EmptySet, DxlOrdersAssumption
  <2>2. main' \in {"idle", "flush", "write", "broadcast"} /\ cut' \in BOOLEAN
    OBVIOUS
  <2>3. astray' \subseteq Servo
    BY DEF IInv, TypeOK
  <2> QED
    BY <1>1, <1>2, <2>1, <2>2, <2>3 DEF IInv, TypeOK, table
<1>4. PacketFromTable'
  BY <1>1 DEF PacketFromTable
<1>5. ASSUME NEW id \in Tracked, id \in Sending
      PROVE  id \in astray' \/ goal'[id] = position'[id]
  BY <1>5, FollowedIsOnTheBus DEF IInv, TypeOK, PacketFromTable, table
<1>6. ASSUME NEW id \in Tracked, id \notin Sending
      PROVE  /\ goal'[id] = goal[id] /\ position'[id] = position[id]
             /\ dirty' = dirty /\ (id \in astray => id \in astray')
  BY <1>6, FollowedIsOnTheBus DEF IInv, TypeOK, table
<1>7. Delivered'
  BY <1>5, <1>6 DEF IInv, Delivered, InStep
<1> QED
  BY <1>3, <1>4, <1>7 DEF IInv

(* Leaving dxl_flush moves no order.                                       *)
LEMMA EndFlushIInv == IInv /\ EndFlush => IInv'
<1> SUFFICES ASSUME IInv, EndFlush PROVE IInv'
  OBVIOUS
<1> USE DEF EndFlush, table, bus
<1>1. Sending' = {} /\ Sending = {}
  BY DEF Sending
<1>2. TypeOK' /\ PacketFromTable' /\ Delivered'
  BY <1>1 DEF IInv, TypeOK, PacketFromTable, Delivered, InStep
<1> QED
  BY <1>2 DEF IInv

(* The button handler marks the packet it cuts and moves no order          *)
(* (dxl_disable_all).                                                      *)
LEMMA ButtonIInv == IInv /\ button_pressed => IInv'
<1> SUFFICES ASSUME IInv, button_pressed PROVE IInv'
  OBVIOUS
<1> USE DEF button_pressed, table
<1>1. TypeOK'
  BY DEF IInv, TypeOK, Sending
<1>2. PacketFromTable' /\ Delivered'
  BY DEF IInv, PacketFromTable, Delivered, InStep, Sending
<1> QED
  BY <1>1, <1>2 DEF IInv

(* Every step keeps the invariant.                                         *)
LEMMA NextIInv == IInv /\ [Next]_vars => IInv'
<1> SUFFICES ASSUME IInv, [Next]_vars PROVE IInv'
  OBVIOUS
<1>1. CASE dxl_init
  BY <1>1, SettingsIInv DEF dxl_init, IInv, TypeOK, table
<1>2. ASSUME NEW async \in BOOLEAN, dxl_async(async) PROVE IInv'
  BY <1>2, SettingsIInv DEF dxl_async, IInv, TypeOK, table
<1>3. ASSUME NEW id \in Tracked, NEW l \in Limits, dxl_set_limits(id, l) PROVE IInv'
  BY <1>3, LimitsIInv
<1>4. ASSUME NEW id \in Servo \cup {DXL_BROADCAST}, NEW degrees \in Orders,
             dxl_set_position(id, degrees)
      PROVE  IInv'
  BY <1>4, OrderIInv
<1>5. CASE BeginFlush
  BY <1>5, BeginFlushIInv
<1>6. CASE Progress
  BY <1>6, CollectIInv, SendIInv, EndFlushIInv DEF Progress
<1>7. CASE button_pressed
  BY <1>7, ButtonIInv
<1>8. CASE UNCHANGED vars
  BY <1>8, SettingsIInv DEF vars, table, IInv, TypeOK
<1> QED
  BY <1>1, <1>2, <1>3, <1>4, <1>5, <1>6, <1>7, <1>8 DEF Next

(* The inductive invariant holds in every reachable state.                 *)
THEOREM SpecIInv == Spec => []IInv
BY InitIInv, NextIInv, PTL DEF Spec

(* No packet of dxl_flush overruns its buffer, only followed servos are    *)
(* ever dirty, and every variable keeps its type (dxl_flush,               *)
(* dxl_set_position).                                                      *)
THEOREM OrdersTypeOK == Spec => []TypeOK
<1>1. IInv => TypeOK
  BY DEF IInv
<1> QED
  BY <1>1, SpecIInv, PTL

(* Every servo is where the table says, unless its order waits, is on the  *)
(* wire, or was lost on the bus: dxl_flush and dxl_set_position lose none. *)
THEOREM OrdersDelivered == Spec => []Delivered
<1>1. IInv => Delivered
  BY DEF IInv
<1> QED
  BY <1>1, SpecIInv, PTL

-----------------------------------------------------------------------------
(* Part 2, the packets.  The library's induction theorems take an          *)
(* operator; here induction is over a set: the numbers, or the sequences,  *)
(* that do well, whose smallest exception would have to be preceded by one *)
(* that does well.                                                         *)

(* The smallest of some natural numbers.                                   *)
Below == {pair \in Nat \X Nat : pair[1] < pair[2]}

LEMMA Least ==
  ASSUME NEW T \in SUBSET Nat, T # {}
  PROVE  \E x \in T : \A y \in T : x <= y
<1>1. IsWellFoundedOn(Below, Nat)
  BY NatLessThanWellFounded DEF OpToRel, Below
<1>2. \E x \in T : \A y \in T : <<y, x>> \notin Below
  BY <1>1, WFMin
<1>3. \A x, y \in T : <<y, x>> \notin Below => x <= y
  BY DEF Below
<1> QED
  BY <1>2, <1>3

(* Induction, for a set of numbers.                                        *)
LEMMA AllNumbers ==
  ASSUME NEW T, 0 \in T, \A n \in Nat : n \in T => n + 1 \in T
  PROVE  Nat \subseteq T
<1> SUFFICES ASSUME Nat \ T # {} PROVE FALSE
  OBVIOUS
<1>1. PICK x \in Nat \ T : \A y \in Nat \ T : x <= y
  BY Least
<1>2. x # 0 /\ x - 1 \in Nat
  BY <1>1
<1>3. x - 1 \in T
  BY <1>1, <1>2
<1> QED
  BY <1>1, <1>2, <1>3

(* A function defined by recursion from 0 on, and that there is one.       *)
Recursive(f, n, first, step) ==
  f[0] = first /\ \A i \in 1 .. n : f[i] = step[i][f[i-1]]

LEMMA RecursiveExists ==
  ASSUME NEW V, NEW n \in Nat, NEW first \in V, NEW step \in [1 .. n -> [V -> V]]
  PROVE  \E f \in [0 .. n -> V] : Recursive(f, n, first, step)
<1> DEFINE T == {k \in Nat : k <= n => \E f \in [0 .. k -> V] : Recursive(f, k, first, step)}
<1>1. 0 \in T
  <2>1. [i \in 0 .. 0 |-> first] \in [0 .. 0 -> V]
    OBVIOUS
  <2>2. Recursive([i \in 0 .. 0 |-> first], 0, first, step)
    BY DEF Recursive
  <2> QED
    BY <2>1, <2>2
<1>2. ASSUME NEW k \in Nat, k \in T PROVE k + 1 \in T
  <2> SUFFICES ASSUME k + 1 <= n
               PROVE  \E g \in [0 .. k + 1 -> V] : Recursive(g, k + 1, first, step)
    OBVIOUS
  <2>1. \E f \in [0 .. k -> V] : Recursive(f, k, first, step)
    BY <1>2
  <2>2. PICK f \in [0 .. k -> V] : Recursive(f, k, first, step)
    BY <2>1
  <2> DEFINE g == [i \in 0 .. k + 1 |-> IF i = k + 1 THEN step[k + 1][f[k]] ELSE f[i]]
  <2>3. f[k] \in V /\ k + 1 \in 1 .. n
    OBVIOUS
  <2>4. step[k + 1][f[k]] \in V
    BY <2>3
  <2>5. g \in [0 .. k + 1 -> V]
    BY <2>4
  <2>6. g[0] = first
    BY <2>2 DEF Recursive
  <2>7. \A i \in 1 .. k + 1 : g[i] = step[i][g[i-1]]
    BY <2>2 DEF Recursive
  <2> HIDE DEF g
  <2> QED
    BY <2>5, <2>6, <2>7 DEF Recursive
<1> HIDE DEF T
<1>3. Nat \subseteq T
  BY <1>1, <1>2, AllNumbers
<1> QED
  BY <1>3 DEF T

(* A sequence that is not empty has a last element.                        *)
LEMMA LastElement ==
  ASSUME NEW S, NEW n \in Nat, NEW s \in Seq(S), Len(s) = n + 1
  PROVE  \E t \in Seq(S), e \in S : Len(t) = n /\ s = Append(t, e)
<1> DEFINE t == [i \in 1 .. n |-> s[i]]
<1>1. s \in [1 .. n + 1 -> S]
  BY LenProperties
<1>2. t \in Seq(S) /\ Len(t) = n
  BY <1>1
<1>3. s[n + 1] \in S
  BY <1>1
<1>4. s = Append(t, s[n + 1])
  BY <1>1, <1>2, <1>3
<1> QED
  BY <1>2, <1>3, <1>4

(* Induction, for a set of sequences.                                      *)
LEMMA AllSequences ==
  ASSUME NEW S, NEW T, <<>> \in T,
         \A s \in Seq(S), e \in S : s \in T => Append(s, e) \in T
  PROVE  Seq(S) \subseteq T
<1> DEFINE N == {n \in Nat : \A s \in Seq(S) : Len(s) = n => s \in T}
<1>1. 0 \in N
  BY EmptySeq
<1>2. ASSUME NEW n \in Nat, n \in N PROVE n + 1 \in N
  <2> SUFFICES ASSUME NEW s \in Seq(S), Len(s) = n + 1 PROVE s \in T
    OBVIOUS
  <2>1. PICK t \in Seq(S), e \in S : Len(t) = n /\ s = Append(t, e)
    BY LastElement
  <2>2. t \in T
    BY <1>2, <2>1
  <2> QED
    BY <2>1, <2>2
<1> HIDE DEF N
<1>3. Nat \subseteq N
  BY <1>1, <1>2, AllNumbers
<1> QED
  BY <1>3 DEF N

(* A function that joins the pieces one after another ends with what       *)
(* FlattenSeq gives.                                                       *)
Joins(f, q, n) == f[0] = <<>> /\ \A i \in 1 .. n : f[i] = f[i-1] \o q[i]

(* There is such a function.                                               *)
LEMMA JoinsExists ==
  ASSUME NEW S, NEW q \in Seq(Seq(S)), NEW n \in Nat, Len(q) = n
  PROVE  \E f \in [0 .. n -> Seq(S)] : Joins(f, q, n)
<1> DEFINE step == [i \in 1 .. n |-> [v \in Seq(S) |-> v \o q[i]]]
<1>1. \A i \in 1 .. n : q[i] \in Seq(S)
  BY ElementOfSeq
<1>2. \A i \in 1 .. n, v \in Seq(S) : v \o q[i] \in Seq(S)
  BY <1>1, ConcatProperties
<1>3. step \in [1 .. n -> [Seq(S) -> Seq(S)]]
  BY <1>2
<1>4. \A i \in 1 .. n, v \in Seq(S) : step[i][v] = v \o q[i]
  OBVIOUS
<1> HIDE DEF step
<1>5. <<>> \in Seq(S)
  BY EmptySeq
<1>6. \E f \in [0 .. n -> Seq(S)] : Recursive(f, n, <<>>, step)
  BY <1>3, <1>5, RecursiveExists
<1>7. PICK f \in [0 .. n -> Seq(S)] : Recursive(f, n, <<>>, step)
  BY <1>6
<1>8. ASSUME NEW i \in 1 .. n PROVE f[i] = f[i-1] \o q[i]
  <2>1. f[i-1] \in Seq(S)
    OBVIOUS
  <2>2. f[i] = step[i][f[i-1]]
    BY <1>7 DEF Recursive
  <2> QED
    BY <1>4, <2>1, <2>2
<1>9. f[0] = <<>>
  BY <1>7 DEF Recursive
<1>10. Joins(f, q, n)
  BY <1>8, <1>9 DEF Joins
<1> QED
  BY <1>10

(* It ends with what FlattenSeq gives: FlattenSeq is defined by recursion, *)
(* and CHOOSE picks a function that joins.                                 *)
LEMMA FlattenIsJoining ==
  ASSUME NEW S, NEW q \in Seq(Seq(S)), NEW n \in Nat, Len(q) = n,
         NEW f \in [0 .. n -> Seq(S)], Joins(f, q, n)
  PROVE  FlattenSeq(q) = f[n]
<1>0. \A i \in 1 .. n : q[i] \in Seq(S) /\ f[i] = f[i-1] \o q[i]
  BY ElementOfSeq DEF Joins
<1>1. CASE n = 0
  <2>1. q = <<>>
    BY <1>1, EmptySeq
  <2> QED
    BY <1>1, <2>1 DEF FlattenSeq, Joins
<1>2. CASE n # 0
  <2> DEFINE F(g) == [i \in 1 .. n |-> IF i = 1 THEN q[i] ELSE g[i-1] \o q[i]]
             joining == CHOOSE g : g = F(g)
             h == [i \in 1 .. n |-> f[i]]
  <2>1. f[1] = q[1]
    <3>1. 1 \in 1 .. n /\ f[0] = <<>> /\ 1 - 1 = 0
      BY <1>2 DEF Joins
    <3>2. f[1] = <<>> \o q[1] /\ q[1] \in Seq(S)
      BY <1>0, <3>1
    <3> QED
      BY <3>2, ConcatEmptySeq
  <2>2. \A i \in 1 .. n : i # 1 => i - 1 \in 1 .. n
    OBVIOUS
  <2>3. h = F(h)
    BY <1>0, <2>1, <2>2
  <2>4. joining = F(joining)
    <3> HIDE DEF h, F
    <3> QED
      BY <2>3
  <2>5. FlattenSeq(q) = joining[n]
    BY <1>2 DEF FlattenSeq
  <2> HIDE DEF joining
  <2>6. joining[1] = q[1]
    <3>1. 1 \in 1 .. n
      BY <1>2
    <3> QED
      BY <2>4, <3>1
  <2>7. ASSUME NEW i \in 2 .. n PROVE joining[i] = joining[i-1] \o q[i]
    <3>1. i \in 1 .. n /\ i # 1
      OBVIOUS
    <3>2. joining[i] = F(joining)[i]
      BY <2>4
    <3> QED
      BY <3>1, <3>2
  <2> DEFINE T == {k \in Nat : k + 1 <= n => joining[k + 1] = f[k + 1]}
  <2>8. 0 \in T
    BY <2>1, <2>6
  <2>9. ASSUME NEW k \in Nat, k \in T PROVE k + 1 \in T
    <3> SUFFICES ASSUME k + 2 <= n PROVE joining[k + 2] = f[k + 2]
      OBVIOUS
    <3>1. joining[k + 1] = f[k + 1]
      BY <2>9
    <3>2. k + 2 \in 2 .. n /\ k + 2 \in 1 .. n /\ (k + 2) - 1 = k + 1
      OBVIOUS
    <3>3. joining[k + 2] = joining[k + 1] \o q[k + 2]
      BY <2>7, <3>2
    <3>4. f[k + 2] = f[k + 1] \o q[k + 2]
      BY <1>0, <3>2
    <3> QED
      BY <3>1, <3>3, <3>4
  <2> HIDE DEF T
  <2>10. Nat \subseteq T
    BY <2>8, <2>9, AllNumbers
  <2>11. n - 1 \in T
    BY <1>2, <2>10
  <2> QED
    BY <2>5, <2>11 DEF T
<1> QED
  BY <1>1, <1>2

(* FlattenSeq, piece by piece.                                             *)
LEMMA FlattenEmpty == FlattenSeq(<<>>) = <<>>
BY DEF FlattenSeq

(* One more piece stands at the end.                                       *)
LEMMA FlattenAppend ==
  ASSUME NEW S, NEW q \in Seq(Seq(S)), NEW piece \in Seq(S)
  PROVE  /\ FlattenSeq(q) \in Seq(S)
         /\ FlattenSeq(Append(q, piece)) = FlattenSeq(q) \o piece
<1>1. PICK n \in Nat : n = Len(q)
  BY LenProperties
<1>2. PICK r : r = Append(q, piece)
  OBVIOUS
<1>3. /\ r \in Seq(Seq(S)) /\ Len(r) = n + 1
      /\ r[n + 1] = piece /\ \A i \in 1 .. n : r[i] = q[i]
  BY <1>1, <1>2
<1>4. \E f \in [0 .. n + 1 -> Seq(S)] : Joins(f, r, n + 1)
  BY <1>3, JoinsExists
<1>5. PICK f \in [0 .. n + 1 -> Seq(S)] : Joins(f, r, n + 1)
  BY <1>4
<1>6. FlattenSeq(r) = f[n + 1]
  BY <1>3, <1>5, FlattenIsJoining
<1> DEFINE g == [i \in 0 .. n |-> f[i]]
<1>7. g \in [0 .. n -> Seq(S)] /\ \A i \in 0 .. n : g[i] = f[i]
  OBVIOUS
<1> HIDE DEF g
<1>8. Joins(g, q, n)
  <2>1. g[0] = <<>>
    BY <1>5, <1>7 DEF Joins
  <2>2. ASSUME NEW i \in 1 .. n PROVE g[i] = g[i-1] \o q[i]
    <3>1. i \in 1 .. n + 1 /\ i \in 0 .. n /\ i - 1 \in 0 .. n
      OBVIOUS
    <3>2. f[i] = f[i-1] \o r[i]
      BY <1>5, <3>1 DEF Joins
    <3> QED
      BY <1>3, <1>7, <3>1, <3>2
  <2> QED
    BY <2>1, <2>2 DEF Joins
<1>9. FlattenSeq(q) = f[n]
  <2>1. FlattenSeq(q) = g[n]
    BY <1>1, <1>7, <1>8, FlattenIsJoining
  <2> QED
    BY <1>7, <2>1
<1>10. f[n + 1] = f[n] \o piece
  <2>1. n + 1 \in 1 .. n + 1 /\ (n + 1) - 1 = n
    OBVIOUS
  <2>2. f[n + 1] = f[(n + 1) - 1] \o r[n + 1]
    BY <1>5, <2>1 DEF Joins
  <2> QED
    BY <1>3, <2>1, <2>2
<1>11. f[n] \in Seq(S)
  OBVIOUS
<1> QED
  BY <1>2, <1>6, <1>9, <1>10, <1>11

(* Stuffed and dxl_unstuff, byte by byte.                                  *)
LEMMA StuffAppend ==
  ASSUME NEW s \in Seq(Byte), NEW b \in Byte
  PROVE  /\ Stuffed(s) \in Seq(Byte)
         /\ Stuffed(Append(s, b)) =
              Stuffed(s) \o (IF HeaderAt(Append(s, b), Len(s) + 1) THEN <<253, 253>> ELSE <<b>>)
<1> DEFINE P(u, i) == IF HeaderAt(u, i) THEN <<253, 253>> ELSE <<u[i]>>
           q == [i \in DOMAIN s |-> P(s, i)]
<1>1. PICK n \in Nat : n = Len(s) /\ DOMAIN s = 1 .. n
  BY LenProperties
<1>2. PICK t : t = Append(s, b)
  OBVIOUS
<1>3. t \in Seq(Byte) /\ Len(t) = n + 1 /\ DOMAIN t = 1 .. n + 1
      /\ t[n + 1] = b /\ \A i \in 1 .. n : t[i] = s[i]
  BY <1>1, <1>2
<1>4. \A i \in 1 .. n : HeaderAt(t, i) <=> HeaderAt(s, i)
  BY <1>3 DEF HeaderAt
<1>5. \A u \in Seq(Byte) : \A i \in 1 .. Len(u) : P(u, i) \in Seq(Byte)
  <2>1. \A u \in Seq(Byte) : \A i \in 1 .. Len(u) : u[i] \in Byte
    BY ElementOfSeq
  <2>2. \A e \in Byte : <<e>> \in Seq(Byte)
    OBVIOUS
  <2>3. <<253, 253>> \in Seq(Byte)
    BY DEF Byte
  <2> QED
    BY <2>1, <2>2, <2>3
<1>6. \A i \in 1 .. n : P(s, i) = P(t, i)
  BY <1>3, <1>4
<1>7. P(t, n + 1) = IF HeaderAt(t, n + 1) THEN <<253, 253>> ELSE <<b>>
  BY <1>3
<1>8. P(t, n + 1) \in Seq(Byte)
  BY <1>3, <1>5
<1>9. q \in Seq(Seq(Byte)) /\ Len(q) = n
  <2> HIDE DEF P
  <2> QED
    BY <1>1, <1>5
<1>10. [i \in DOMAIN t |-> P(t, i)] = Append(q, P(t, n + 1))
  <2> HIDE DEF P
  <2> QED
    BY <1>1, <1>3, <1>6, <1>8
<1>11. Stuffed(s) = FlattenSeq(q) /\ Stuffed(t) = FlattenSeq([i \in DOMAIN t |-> P(t, i)])
  BY DEF Stuffed
<1> HIDE DEF P, q
<1>12. /\ FlattenSeq(q) \in Seq(Byte)
       /\ FlattenSeq(Append(q, P(t, n + 1))) = FlattenSeq(q) \o P(t, n + 1)
  BY <1>8, <1>9, FlattenAppend
<1> QED
  BY <1>1, <1>2, <1>7, <1>10, <1>11, <1>12

(* A byte 253 after a header goes, every other byte stays.                 *)
LEMMA UnstuffAppend ==
  ASSUME NEW w \in Seq(Byte), NEW b \in Byte
  PROVE  /\ dxl_unstuff(w) \in Seq(Byte)
         /\ dxl_unstuff(Append(w, b)) =
              dxl_unstuff(w) \o (IF b = 253 /\ HeaderAt(w, Len(w)) THEN <<>> ELSE <<b>>)
<1> DEFINE P(u, i) == IF u[i] = 253 /\ HeaderAt(u, i - 1) THEN <<>> ELSE <<u[i]>>
           q == [i \in DOMAIN w |-> P(w, i)]
<1>1. PICK n \in Nat : n = Len(w) /\ DOMAIN w = 1 .. n
  BY LenProperties
<1>2. PICK t : t = Append(w, b)
  OBVIOUS
<1>3. t \in Seq(Byte) /\ Len(t) = n + 1 /\ DOMAIN t = 1 .. n + 1
      /\ t[n + 1] = b /\ \A i \in 1 .. n : t[i] = w[i]
  BY <1>1, <1>2
<1>4. \A i \in 1 .. n + 1 : HeaderAt(t, i - 1) <=> HeaderAt(w, i - 1)
  BY <1>3 DEF HeaderAt
<1>5. \A u \in Seq(Byte) : \A i \in 1 .. Len(u) : P(u, i) \in Seq(Byte)
  <2>1. \A u \in Seq(Byte) : \A i \in 1 .. Len(u) : u[i] \in Byte
    BY ElementOfSeq
  <2>2. \A e \in Byte : <<e>> \in Seq(Byte)
    OBVIOUS
  <2>3. <<>> \in Seq(Byte)
    BY EmptySeq
  <2> QED
    BY <2>1, <2>2, <2>3
<1>6. \A i \in 1 .. n : P(w, i) = P(t, i)
  BY <1>3, <1>4
<1>7. P(t, n + 1) = IF b = 253 /\ HeaderAt(w, n) THEN <<>> ELSE <<b>>
  <2>1. (n + 1) - 1 = n /\ n + 1 \in 1 .. n + 1
    OBVIOUS
  <2> QED
    BY <1>3, <1>4, <2>1
<1>8. P(t, n + 1) \in Seq(Byte)
  BY <1>3, <1>5
<1>9. q \in Seq(Seq(Byte)) /\ Len(q) = n
  <2> HIDE DEF P
  <2> QED
    BY <1>1, <1>5
<1>10. [i \in DOMAIN t |-> P(t, i)] = Append(q, P(t, n + 1))
  <2> HIDE DEF P
  <2> QED
    BY <1>1, <1>3, <1>6, <1>8
<1>11. /\ dxl_unstuff(w) = FlattenSeq(q)
       /\ dxl_unstuff(t) = FlattenSeq([i \in DOMAIN t |-> P(t, i)])
  BY DEF dxl_unstuff
<1> HIDE DEF P, q
<1>12. /\ FlattenSeq(q) \in Seq(Byte)
       /\ FlattenSeq(Append(q, P(t, n + 1))) = FlattenSeq(q) \o P(t, n + 1)
  BY <1>8, <1>9, FlattenAppend
<1> QED
  BY <1>1, <1>2, <1>7, <1>10, <1>11, <1>12

(* Nothing stays nothing.                                                  *)
LEMMA StuffEmpty == Stuffed(<<>>) = <<>> /\ dxl_unstuff(<<>>) = <<>>
BY FlattenEmpty DEF Stuffed, dxl_unstuff

(* What stuffing depends on, at the end of a sequence.                     *)
EndsIn255(s) == Len(s) >= 1 /\ s[Len(s)] = 255
EndsInTwo255(s) == EndsIn255(s) /\ Len(s) >= 2 /\ s[Len(s)-1] = 255

(* No header: after 255 255 253 comes another 253.                         *)
Guarded(w) == \A i \in 1 .. Len(w) : HeaderAt(w, i) => i < Len(w) /\ w[i+1] = 253

(* A sequence, its stuffed form, and how they end.                         *)
Undone(s) ==
  LET w == Stuffed(s)
  IN  /\ w \in Seq(Byte) /\ dxl_unstuff(w) = s
      /\ Guarded(w)
      /\ EndsIn255(w) <=> EndsIn255(s)
      /\ EndsInTwo255(w) <=> EndsInTwo255(s)

(* What one more byte does to the end of a sequence.                       *)
LEMMA EndOfAppend ==
  ASSUME NEW s \in Seq(Byte), NEW b \in Byte
  PROVE  /\ Append(s, b) \in Seq(Byte) /\ Len(Append(s, b)) = Len(s) + 1
         /\ EndsIn255(Append(s, b)) <=> b = 255
         /\ EndsInTwo255(Append(s, b)) <=> b = 255 /\ EndsIn255(s)
         /\ HeaderAt(Append(s, b), Len(s) + 1) <=> b = 253 /\ EndsInTwo255(s)
         /\ Guarded(s) /\ ~(b = 253 /\ EndsInTwo255(s)) => Guarded(Append(s, b))
<1>1. PICK n \in Nat : n = Len(s)
  BY LenProperties
<1>2. PICK t : t = Append(s, b)
  OBVIOUS
<1>3. t \in Seq(Byte) /\ Len(t) = n + 1 /\ t[n + 1] = b /\ \A i \in 1 .. n : t[i] = s[i]
  BY <1>1, <1>2
<1>4. EndsIn255(t) <=> b = 255
  BY <1>3 DEF EndsIn255
<1>5. EndsInTwo255(t) <=> b = 255 /\ EndsIn255(s)
  BY <1>1, <1>3 DEF EndsIn255, EndsInTwo255
<1>6. HeaderAt(t, n + 1) <=> b = 253 /\ EndsInTwo255(s)
  BY <1>1, <1>3 DEF EndsIn255, EndsInTwo255, HeaderAt
<1>7. ASSUME Guarded(s), ~(b = 253 /\ EndsInTwo255(s)) PROVE Guarded(t)
  <2> SUFFICES ASSUME NEW i \in 1 .. n + 1, HeaderAt(t, i) PROVE i < n + 1 /\ t[i+1] = 253
    BY <1>3 DEF Guarded
  <2>1. i # n + 1
    BY <1>6, <1>7
  <2>2. i \in 1 .. n /\ HeaderAt(s, i)
    BY <1>3, <2>1 DEF HeaderAt
  <2>3. i < n /\ s[i+1] = 253
    BY <1>1, <1>7, <2>2 DEF Guarded
  <2> QED
    BY <1>3, <2>3
<1> QED
  BY <1>1, <1>2, <1>3, <1>4, <1>5, <1>6, <1>7

(* Two bytes 253 after 255 255 are no header, and one of them goes.        *)
LEMMA EndOfStuffing ==
  ASSUME NEW w \in Seq(Byte), EndsInTwo255(w), Guarded(w)
  PROVE  LET v == Append(Append(w, 253), 253)
         IN  /\ v = w \o <<253, 253>> /\ v \in Seq(Byte)
             /\ ~EndsIn255(v) /\ Guarded(v)
             /\ ~HeaderAt(w, Len(w)) => dxl_unstuff(v) = Append(dxl_unstuff(w), 253)
<1>0. 253 \in Byte
  BY DEF Byte
<1>1. PICK n \in Nat : n = Len(w)
  BY LenProperties
<1>2. PICK u : u = Append(w, 253)
  OBVIOUS
<1>3. PICK v : v = Append(u, 253)
  OBVIOUS
<1>4. u \in Seq(Byte) /\ Len(u) = n + 1 /\ u[n + 1] = 253 /\ \A i \in 1 .. n : u[i] = w[i]
  BY <1>0, <1>1, <1>2
<1>5. v \in Seq(Byte) /\ Len(v) = n + 2 /\ v[n + 1] = 253 /\ v[n + 2] = 253
      /\ \A i \in 1 .. n : v[i] = w[i]
  BY <1>0, <1>3, <1>4
<1>6. v = w \o <<253, 253>>
  BY <1>0, <1>1, <1>2, <1>3
<1>7. ~EndsIn255(v)
  BY <1>5 DEF EndsIn255
<1>8. Guarded(v)
  <2> SUFFICES ASSUME NEW i \in 1 .. n + 2, HeaderAt(v, i) PROVE i < n + 2 /\ v[i+1] = 253
    BY <1>5 DEF Guarded
  <2>1. i # n + 2
    BY <1>5 DEF HeaderAt
  <2>2. CASE i = n + 1
    BY <1>5, <2>2
  <2>3. CASE i \in 1 .. n
    <3>1. HeaderAt(w, i)
      BY <1>5, <2>3 DEF HeaderAt
    <3>2. i < n /\ w[i+1] = 253
      BY <1>1, <2>3, <3>1 DEF Guarded
    <3> QED
      BY <1>5, <3>2
  <2> QED
    BY <2>1, <2>2, <2>3
<1>9. ASSUME ~HeaderAt(w, n) PROVE dxl_unstuff(v) = Append(dxl_unstuff(w), 253)
  <2>1. dxl_unstuff(w) \in Seq(Byte) /\ dxl_unstuff(u) = dxl_unstuff(w) \o <<253>>
    BY <1>0, <1>1, <1>2, <1>9, UnstuffAppend
  <2>2. HeaderAt(u, n + 1)
    BY <1>0, <1>1, <1>2, EndOfAppend
  <2>3. dxl_unstuff(u) \in Seq(Byte) /\ dxl_unstuff(v) = dxl_unstuff(u) \o <<>>
    <3>1. u \in Seq(Byte) /\ HeaderAt(u, Len(u))
      BY <1>4, <2>2
    <3> QED
      BY <1>0, <1>3, <3>1, UnstuffAppend
  <2>4. dxl_unstuff(v) = dxl_unstuff(u)
    BY <2>3, ConcatEmptySeq
  <2> QED
    BY <1>0, <2>1, <2>4
<1> QED
  BY <1>1, <1>2, <1>3, <1>5, <1>6, <1>7, <1>8, <1>9

(* The induction: a byte is added, stuffed when it ends a header.          *)
LEMMA UndoneStep ==
  ASSUME NEW s \in Seq(Byte), NEW b \in Byte, Undone(s)
  PROVE  Undone(Append(s, b))
<1>1. PICK w : w = Stuffed(s)
  OBVIOUS
<1>2. /\ w \in Seq(Byte) /\ dxl_unstuff(w) = s /\ Guarded(w)
      /\ EndsIn255(w) <=> EndsIn255(s)
      /\ EndsInTwo255(w) <=> EndsInTwo255(s)
  BY <1>1 DEF Undone
<1>3. PICK t : t = Append(s, b)
  OBVIOUS
<1>4. PICK v : v = Stuffed(t)
  OBVIOUS
<1>5. ~HeaderAt(w, Len(w))
  <2>1. Len(w) \in Nat
    BY <1>2
  <2> QED
    BY <1>2, <2>1 DEF Guarded, HeaderAt
<1>6. CASE b = 253 /\ EndsInTwo255(s)
  <2>1. v = w \o <<253, 253>>
    <3>1. HeaderAt(t, Len(s) + 1)
      BY <1>3, <1>6, EndOfAppend
    <3> QED
      BY <1>1, <1>3, <1>4, <3>1, StuffAppend
  <2>2. v \in Seq(Byte) /\ ~EndsIn255(v) /\ Guarded(v) /\ dxl_unstuff(v) = Append(s, 253)
    <3>1. EndsInTwo255(w)
      BY <1>2, <1>6
    <3>2. PICK x : x = Append(Append(w, 253), 253)
      OBVIOUS
    <3>3. /\ x = w \o <<253, 253>> /\ x \in Seq(Byte)
          /\ ~EndsIn255(x) /\ Guarded(x) /\ dxl_unstuff(x) = Append(dxl_unstuff(w), 253)
      BY <1>2, <1>5, <3>1, <3>2, EndOfStuffing
    <3> QED
      BY <1>2, <2>1, <3>3
  <2>3. ~EndsIn255(t)
    BY <1>3, <1>6, EndOfAppend
  <2> QED
    BY <1>3, <1>4, <1>6, <2>2, <2>3 DEF Undone, EndsInTwo255
<1>7. CASE ~(b = 253 /\ EndsInTwo255(s))
  <2>1. v = w \o <<b>>
    BY <1>1, <1>3, <1>4, <1>7, StuffAppend, EndOfAppend
  <2>2. v = Append(w, b)
    BY <1>2, <2>1
  <2>3. v \in Seq(Byte) /\ Guarded(v) /\ (EndsIn255(v) <=> b = 255)
        /\ (EndsInTwo255(v) <=> b = 255 /\ EndsIn255(w))
    BY <1>2, <1>7, <2>2, EndOfAppend
  <2>4. (EndsIn255(t) <=> b = 255) /\ (EndsInTwo255(t) <=> b = 255 /\ EndsIn255(s))
    BY <1>3, EndOfAppend
  <2>5. dxl_unstuff(v) = s \o <<b>>
    BY <1>2, <1>5, <2>2, UnstuffAppend
  <2>6. dxl_unstuff(v) = t
    BY <1>3, <2>5
  <2> QED
    BY <1>2, <1>3, <1>4, <2>3, <2>4, <2>6 DEF Undone
<1> QED
  BY <1>6, <1>7

(* Every sequence of bytes is stuffed and unstuffed that way.              *)
LEMMA AllUndone == \A s \in Seq(Byte) : Undone(s)
<1> DEFINE T == {s \in Seq(Byte) : Undone(s)}
<1>1. Undone(<<>>)
  <2>1. <<>> \in Seq(Byte) /\ Len(<<>>) = 0
    BY EmptySeq
  <2>2. Guarded(<<>>) /\ ~EndsIn255(<<>>) /\ ~EndsInTwo255(<<>>)
    BY <2>1 DEF EndsIn255, EndsInTwo255, Guarded
  <2> QED
    BY <2>1, <2>2, StuffEmpty DEF Undone
<1>2. <<>> \in T
  BY <1>1, EmptySeq
<1>3. \A s \in Seq(Byte), b \in Byte : s \in T => Append(s, b) \in T
  BY UndoneStep
<1> HIDE DEF T
<1>4. Seq(Byte) \subseteq T
  BY <1>2, <1>3, AllSequences
<1> QED
  BY <1>4 DEF T

(* A stuffed packet is read back as it was.                                *)
THEOREM StuffingIsUndone == \A s \in Seq(Byte) : dxl_unstuff(Stuffed(s)) = s
BY AllUndone DEF Undone

(* Stuffed parameters hold no header.                                      *)
THEOREM NoHeaderInside ==
  \A s \in Seq(Byte) : \A i \in 1 .. Len(Stuffed(s)) - 3 :
    SubSeq(Stuffed(s), i, i + 3) # HEADER
<1> SUFFICES ASSUME NEW s \in Seq(Byte), NEW i \in 1 .. Len(Stuffed(s)) - 3,
                    SubSeq(Stuffed(s), i, i + 3) = HEADER
             PROVE  FALSE
  OBVIOUS
<1>1. PICK w : w = Stuffed(s)
  OBVIOUS
<1>2. w \in Seq(Byte) /\ Guarded(w) /\ Len(w) \in Nat
  BY <1>1, AllUndone DEF Undone
<1>3. i \in 1 .. Len(w) - 3 /\ SubSeq(w, i, i + 3) = HEADER
  BY <1>1
<1>4. ASSUME NEW k \in 1 .. 4 PROVE HEADER[k] = w[i + k - 1]
  <2>1. SubSeq(w, i, i + 3)[k] = w[i + k - 1]
    BY <1>2, <1>3
  <2> QED
    BY <1>3, <2>1
<1>5. w[i] = 255 /\ w[i+1] = 255 /\ w[i+2] = 253 /\ w[i+3] = 0
  <2>1. HEADER[1] = 255 /\ HEADER[2] = 255 /\ HEADER[3] = 253 /\ HEADER[4] = 0
    BY DEF HEADER
  <2>2. i + 1 - 1 = i /\ i + 2 - 1 = i + 1 /\ i + 3 - 1 = i + 2 /\ i + 4 - 1 = i + 3
    BY <1>3
  <2>3. HEADER[1] = w[i + 1 - 1]
    BY <1>4
  <2>4. HEADER[2] = w[i + 2 - 1]
    BY <1>4
  <2>5. HEADER[3] = w[i + 3 - 1]
    BY <1>4
  <2>6. HEADER[4] = w[i + 4 - 1]
    BY <1>4
  <2> QED
    BY <2>1, <2>2, <2>3, <2>4, <2>5, <2>6
<1>6. HeaderAt(w, i + 2)
  BY <1>2, <1>3, <1>5 DEF HeaderAt
<1> QED
  BY <1>2, <1>3, <1>5, <1>6 DEF Guarded

(* Numbers that the provers are not to compute again and again.            *)
LEMMA Powers == 2^0 = 1 /\ 2^2 = 4 /\ 2^15 = 32768 /\ 2^16 = 65536
BY SMT

(* An interval whose bound is a symbol.                                    *)
LEMMA Upto ==
  ASSUME NEW m \in Int PROVE \A n : n \in 0 .. m <=> n \in Nat /\ n <= m
BY SMT

(* The words, without the interval.                                        *)
LEMMA Words == \A n : n \in Word <=> n \in Nat /\ n <= 65535
<1>1. PICK m : m = 2^16 - 1
  OBVIOUS
<1>2. m = 65535
  BY <1>1, Powers, SMT
<1>3. m \in Int
  BY <1>2, SMT
<1>4. Word = 0 .. m
  BY <1>1 DEF Word
<1>5. \A n : n \in 0 .. m <=> n \in Nat /\ n <= m
  BY <1>3, Upto
<1>6. \A n : n \in Word <=> n \in Nat /\ n <= m
  BY <1>4, <1>5
<1> QED
  BY <1>2, <1>6

(* A bit of a word that is turned, for the bits of the polynomial: bit 2,  *)
LEMMA TurnThird ==
  ASSUME NEW n \in Nat, n <= 65535
  PROVE  /\ (n \div 4) % 2 = 0 => n + 4 <= 65535
         /\ (n \div 4) % 2 # 0 => n - 4 \in Nat
<1>2. PICK q : q = n \div 4
  OBVIOUS
<1>3. q \in Nat /\ n - 4 * q \in 0 .. 3
  BY <1>2, SMT
<1>4. q % 2 = 0 => q # 16383
  BY <1>3, SMT
<1>5. q % 2 # 0 => q # 0
  BY <1>3, SMT
<1>6. q # 16383 => n + 4 <= 65535
  BY <1>3, SMT
<1>7. q # 0 => n - 4 \in Nat
  BY <1>3, SMT
<1> QED
  BY <1>2, <1>4, <1>5, <1>6, <1>7

(* bit 15,                                                                 *)
LEMMA TurnHigh ==
  ASSUME NEW n \in Nat, n <= 65535
  PROVE  /\ (n \div 32768) % 2 = 0 => n + 32768 <= 65535
         /\ (n \div 32768) % 2 # 0 => n - 32768 \in Nat
<1>2. PICK q : q = n \div 32768
  OBVIOUS
<1>3. q \in Nat /\ 0 <= n - 32768 * q /\ n - 32768 * q < 32768
  BY <1>2, SMT
<1>4. q = 0 \/ q = 1
  BY <1>3, SMT
<1>5. q % 2 = q
  BY <1>4, SMT
<1>6. q = 0 => n + 32768 <= 65535
  BY <1>3, SMT
<1>7. q = 1 => n - 32768 \in Nat
  BY <1>3, SMT
<1> QED
  BY <1>2, <1>4, <1>5, <1>6, <1>7

(* and bit 0.                                                              *)
LEMMA TurnLow ==
  ASSUME NEW n \in Nat, n <= 65535
  PROVE  /\ n % 2 = 0 => n + 1 <= 65535
         /\ n % 2 # 0 => n - 1 \in Nat
<1>2. n % 2 = 0 => n # 65535
  BY SMT
<1>3. n % 2 # 0 => n # 0
  BY SMT
<1>4. n # 65535 => n + 1 <= 65535
  BY SMT
<1>5. n # 0 => n - 1 \in Nat
  BY SMT
<1> QED
  BY <1>2, <1>3, <1>4, <1>5

(* A word with a bit of the polynomial turned is a word.                   *)
LEMMA FlipIsWord ==
  ASSUME NEW word \in Word, NEW k \in {0, 2, 15}
  PROVE  Flip(word, k) \in Word
<1>1. word \in Nat /\ word <= 65535
  BY Words
<1>2. PICK p : p = 2^k
  OBVIOUS
<1>3. Flip(word, k) = IF (word \div p) % 2 = 0 THEN word + p ELSE word - p
  BY <1>2 DEF Flip
<1>4. /\ (word \div p) % 2 = 0 => word + p \in Nat /\ word + p <= 65535
      /\ (word \div p) % 2 # 0 => word - p \in Nat /\ word - p <= 65535
  <2>1. CASE k = 0
    <3>1. p = 1
      BY <1>2, <2>1, Powers
    <3>2. word \div 1 = word
      BY <1>1, SMT
    <3> QED
      BY <1>1, <3>1, <3>2, TurnLow, SMT
  <2>2. CASE k = 2
    <3>1. p = 4
      BY <1>2, <2>2, Powers
    <3> QED
      BY <1>1, <3>1, TurnThird, SMT
  <2>3. CASE k = 15
    <3>1. p = 32768
      BY <1>2, <2>3, Powers
    <3> QED
      BY <1>1, <3>1, TurnHigh, SMT
  <2> QED
    BY <2>1, <2>2, <2>3
<1>5. /\ (word \div p) % 2 = 0 => word + p \in Word
      /\ (word \div p) % 2 # 0 => word - p \in Word
  BY <1>4, Words
<1> QED
  BY <1>3, <1>5

(* What the table of crc16.cpp makes of a bit.                             *)
LEMMA DividedIsWord ==
  ASSUME NEW word \in Word, NEW bit PROVE Divided(bit)[word] \in Word
<1>1. Divided(bit) \in [Word -> Word]
  <2> SUFFICES ASSUME NEW w \in Word
               PROVE  LET shifted == (2 * w) % 2^16
                      IN  /\ shifted \in Word
                          /\ Flip(Flip(Flip(shifted, 0), 2), 15) \in Word
    BY DEF Divided
  <2>1. PICK shifted : shifted = (2 * w) % 2^16
    OBVIOUS
  <2>2. shifted \in Word
    <3>1. w \in Nat
      BY Words
    <3>2. shifted = (2 * w) % 65536
      BY <2>1, Powers
    <3>3. shifted \in Nat /\ shifted <= 65535
      BY <3>1, <3>2, SMT
    <3> QED
      BY <3>3, Words
  <2>3. Flip(Flip(Flip(shifted, 0), 2), 15) \in Word
    BY <2>2, FlipIsWord
  <2> QED
    BY <2>1, <2>2, <2>3
<1> QED
  BY <1>1

(* The checksum is a word.                                                 *)
LEMMA CrcIsWord ==
  ASSUME NEW crc \in Word, NEW byte \in Byte
  PROVE  update_crc(crc, byte) \in Word
BY DividedIsWord, Zenon DEF update_crc

(* The checksums of the beginnings of a sequence, each from the one        *)
(* before.                                                                 *)
LEMMA ChecksumsStep ==
  ASSUME NEW bytes \in Seq(Byte)
  PROVE  /\ \A n \in 0 .. Len(bytes) : Checksums(bytes)[n] \in Word
         /\ Checksums(bytes)[0] = 0
         /\ \A n \in 1 .. Len(bytes) :
              Checksums(bytes)[n] = update_crc(Checksums(bytes)[n-1], bytes[n])
<1> DEFINE L == Len(bytes)
           step == [n \in 1 .. L |-> [crc \in Word |-> update_crc(crc, bytes[n])]]
           F(f) == [n \in 0 .. L |-> IF n = 0 THEN 0 ELSE update_crc(f[n-1], bytes[n])]
           crc == CHOOSE f : f = F(f)
<1>1. L \in Nat /\ \A n \in 1 .. L : bytes[n] \in Byte
  BY LenProperties, ElementOfSeq
<1>2. step \in [1 .. L -> [Word -> Word]]
  BY <1>1, CrcIsWord
<1>3. \A n \in 1 .. L, c \in Word : step[n][c] = update_crc(c, bytes[n])
  OBVIOUS
<1> HIDE DEF step
<1>4. 0 \in Word
  BY Words
<1>5. \E f \in [0 .. L -> Word] : Recursive(f, L, 0, step)
  <2> HIDE DEF L
  <2> QED
    BY <1>1, <1>2, <1>4, RecursiveExists
<1>6. PICK f \in [0 .. L -> Word] : Recursive(f, L, 0, step)
  BY <1>5
<1>7. ASSUME NEW n \in 1 .. L PROVE f[n] = update_crc(f[n-1], bytes[n])
  <2>1. f[n-1] \in Word
    BY <1>1
  <2> QED
    BY <1>3, <1>6, <2>1 DEF Recursive
<1>8. f = F(f)
  <2>1. f[0] = 0
    BY <1>6 DEF Recursive
  <2>2. \A n \in 0 .. L : f[n] = F(f)[n]
    BY <1>1, <1>7, <2>1
  <2> QED
    BY <2>2
<1>9. crc = F(crc)
  <2> HIDE DEF F
  <2> QED
    BY <1>8
<1>10. Checksums(bytes) = crc
  BY DEF Checksums
<1> HIDE DEF crc
<1>11. crc[0] = 0
  BY <1>1, <1>9
<1>12. ASSUME NEW n \in 1 .. L PROVE crc[n] = update_crc(crc[n-1], bytes[n])
  <2>1. n \in 0 .. L /\ n # 0
    BY <1>1
  <2> QED
    BY <1>9, <2>1
<1> DEFINE T == {n \in Nat : n <= L => crc[n] \in Word}
<1>13. 0 \in T
  BY <1>4, <1>11
<1>14. ASSUME NEW n \in Nat, n \in T PROVE n + 1 \in T
  <2> SUFFICES ASSUME n + 1 <= L PROVE crc[n + 1] \in Word
    OBVIOUS
  <2>1. crc[n] \in Word /\ n + 1 \in 1 .. L /\ (n + 1) - 1 = n
    BY <1>1, <1>14
  <2>2. crc[n + 1] = update_crc(crc[n], bytes[n + 1]) /\ bytes[n + 1] \in Byte
    BY <1>1, <1>12, <2>1
  <2> QED
    BY <2>1, <2>2, CrcIsWord
<1> HIDE DEF T
<1>15. Nat \subseteq T
  BY <1>13, <1>14, AllNumbers
<1>16. \A n \in 0 .. L : crc[n] \in Word
  BY <1>1, <1>15 DEF T
<1> QED
  BY <1>10, <1>11, <1>12, <1>16

(* Unstuffing gives bytes, and no more than there were.                    *)
LEMMA UnstuffShortens ==
  \A w \in Seq(Byte) : dxl_unstuff(w) \in Seq(Byte) /\ Len(dxl_unstuff(w)) <= Len(w)
<1> DEFINE T == {w \in Seq(Byte) : Len(dxl_unstuff(w)) <= Len(w)}
<1>1. <<>> \in T
  BY StuffEmpty, EmptySeq
<1>2. ASSUME NEW w \in Seq(Byte), NEW b \in Byte, w \in T PROVE Append(w, b) \in T
  <2>1. PICK u : u = dxl_unstuff(w)
    OBVIOUS
  <2>2. PICK v : v = dxl_unstuff(Append(w, b))
    OBVIOUS
  <2>3. u \in Seq(Byte) /\ Len(u) <= Len(w)
    BY <1>2, <2>1, UnstuffAppend
  <2>4. v = u \o <<>> \/ v = u \o <<b>>
    BY <2>1, <2>2, UnstuffAppend
  <2>5. u \o <<>> = u
    BY <2>3, ConcatEmptySeq
  <2>6. Len(u \o <<b>>) = Len(u) + 1
    BY <2>3
  <2>7. Len(v) <= Len(w) + 1
    BY <2>3, <2>4, <2>5, <2>6
  <2> QED
    BY <2>2, <2>7
<1> HIDE DEF T
<1>3. Seq(Byte) \subseteq T
  BY <1>1, <1>2, AllSequences
<1>4. ASSUME NEW w \in Seq(Byte) PROVE dxl_unstuff(w) \in Seq(Byte)
  <2>1. 0 \in Byte
    BY DEF Byte
  <2> QED
    BY <2>1, UnstuffAppend
<1> QED
  BY <1>3, <1>4 DEF T

(* The bytes, without the interval.                                        *)
LEMMA Bytes == \A n : n \in Byte <=> n \in Nat /\ n <= 255
BY DEF Byte

(* The numbers of the parser.                                              *)
LEMMA ParserNumbers ==
  /\ CRC_LOW \in Nat /\ CRC_LOW > 300 /\ CRC_HIGH = CRC_LOW + 1
  /\ Rest \subseteq Int /\ Word \subseteq Nat /\ 0 \in Word
  /\ \A n \in Word : n \in Rest
  /\ \A n \in Word, b \in Byte : n - b \in Rest
<1>1. CRC_LOW \in Nat /\ CRC_LOW > 300 /\ CRC_HIGH = CRC_LOW + 1
  BY Powers DEF CRC_LOW, CRC_HIGH
<1>2. ASSUME NEW m \in Int
      PROVE  \A n : n \in -255 .. m <=> n \in Int /\ -255 <= n /\ n <= m
  BY SMT
<1>3. PICK m : m = 2^16 - 1
  OBVIOUS
<1>4. m = 65535
  BY <1>3, Powers
<1>5. m \in Int
  BY <1>4
<1>6. Rest = -255 .. m
  BY <1>3 DEF Rest
<1>7. \A n : n \in Rest <=> n \in Int /\ -255 <= n /\ n <= 65535
  <2>1. \A n : n \in Rest <=> n \in Int /\ -255 <= n /\ n <= m
    BY <1>2, <1>5, <1>6
  <2> QED
    BY <1>4, <2>1
<1>8. \A b \in Byte : b \in Nat /\ b <= 255
  BY Bytes
<1>9. Rest \subseteq Int /\ Word \subseteq Nat
  BY <1>7, Words
<1>10. \A n \in Word : n \in Rest
  BY <1>7, Words
<1>11. ASSUME NEW n \in Word, NEW b \in Byte PROVE n - b \in Rest
  <2>1. n \in Nat /\ n <= 65535
    BY Words
  <2>2. b \in Nat /\ b <= 255
    BY <1>8
  <2>3. n - b \in Int /\ -255 <= n - b /\ n - b <= 65535
    BY <2>1, <2>2
  <2> QED
    BY <1>7, <2>3
<1> QED
  BY <1>1, <1>9, <1>10, <1>11, Words

(* What the parser relies on: it has the parameters it has counted, and    *)
(* all of them when it comes to the checksum.                              *)
Parsing(p) ==
  /\ p \in Packet
  /\ p.dxl_state = 0 => p.crc16 = 0
  /\ p.dxl_state # CRC_HIGH => p.crc16 \in Word
  /\ p.dxl_state \in 8 .. DXL_MAX_PARAMS + 8 => Len(p.parameters) >= p.dxl_state - 8
  /\ p.dxl_state >= CRC_LOW => Len(p.parameters) >= p.parameter_nb

(* The fields of a packet.                                                 *)
LEMMA Fields ==
  ASSUME NEW p \in Packet
  PROVE  /\ p.id \in Byte /\ p.parameter_nb \in Nat /\ p.parameter_nb <= 255
         /\ p.parameters \in Seq(Byte) /\ Len(p.parameters) \in Nat
         /\ p.dxl_state \in Nat /\ p.dxl_state <= CRC_HIGH
         /\ p.process \in BOOLEAN
<1>1. /\ p.id \in Byte /\ p.parameter_nb \in Byte /\ p.parameters \in Seq(Byte)
      /\ p.dxl_state \in 0 .. CRC_HIGH /\ p.process \in BOOLEAN
  BY DEF Packet
<1> QED
  BY <1>1, Bytes, ParserNumbers

(* The parser starts so,                                                   *)
LEMMA BlankParses == Parsing(Blank)
<1>1. <<>> \in Seq(Byte) /\ 0 \in Byte /\ 0 \in 0 .. CRC_HIGH /\ 0 \in Rest
  BY ParserNumbers, EmptySeq DEF Byte
<1> QED
  BY <1>1, ParserNumbers DEF Parsing, Blank, Packet

(* and goes back to the header so.                                         *)
LEMMA RestartParses ==
  ASSUME NEW p \in Packet
  PROVE  Parsing(Restart(p))
<1>1. CASE p.process
  <2>1. 0 \in 0 .. CRC_HIGH /\ 0 \in Rest
    BY ParserNumbers
  <2>2. [p EXCEPT !.dxl_state = 0, !.crc16 = 0] \in Packet
    BY <2>1 DEF Packet
  <2>3. Restart(p) = [p EXCEPT !.dxl_state = 0, !.crc16 = 0]
    BY <1>1 DEF Restart
  <2>4. Restart(p).dxl_state = 0 /\ Restart(p).crc16 = 0
    BY <2>3 DEF Packet
  <2> QED
    BY <2>2, <2>3, <2>4, ParserNumbers DEF Parsing
<1>2. CASE ~p.process
  BY <1>2, BlankParses DEF Restart
<1> QED
  BY <1>1, <1>2

(* The bound of the parameters.                                            *)
LEMMA MaxParams == DXL_MAX_PARAMS \in Nat /\ DXL_MAX_PARAMS <= 251
BY DxlPacketsAssumption

(* What dxl_packet_push_byte does with the checksum.                       *)
LEMMA PushEnds ==
  ASSUME NEW p, NEW b
  PROVE  /\ p.dxl_state = CRC_LOW => dxl_packet_push_byte(p, b) = PushLow(p, b)
         /\ p.dxl_state = CRC_HIGH => dxl_packet_push_byte(p, b) = PushEnd(p, b)
<1>1. CRC_LOW # CRC_HIGH
  BY ParserNumbers
<1>2. ASSUME p.dxl_state = CRC_LOW PROVE dxl_packet_push_byte(p, b) = PushLow(p, b)
  BY <1>1, <1>2 DEF dxl_packet_push_byte
<1>3. ASSUME p.dxl_state = CRC_HIGH PROVE dxl_packet_push_byte(p, b) = PushEnd(p, b)
  <2>1. CRC_HIGH \notin DXL_MAX_PARAMS + 8 .. CRC_LOW - 1
    BY ParserNumbers, MaxParams
  <2> QED
    BY <1>1, <1>3, <2>1 DEF dxl_packet_push_byte
<1> QED
  BY <1>2, <1>3

(* What dxl_packet_push_byte does in each state of the parser.             *)
LEMMA PushCases ==
  ASSUME NEW p \in Packet, NEW b
  PROVE  /\ \/ p.dxl_state < DXL_MAX_PARAMS + 8
            \/ p.dxl_state = DXL_MAX_PARAMS + 8
            \/ p.dxl_state > DXL_MAX_PARAMS + 8 /\ p.dxl_state < CRC_LOW
            \/ p.dxl_state = CRC_LOW
            \/ p.dxl_state = CRC_HIGH
         /\ p.dxl_state < DXL_MAX_PARAMS + 8 =>
              p.dxl_state < CRC_LOW /\ dxl_packet_push_byte(p, b) = PushContent(p, b)
         /\ p.dxl_state >= DXL_MAX_PARAMS + 8 /\ p.dxl_state < CRC_LOW =>
              dxl_packet_push_byte(p, b) = PushBeyond(p, b)
         /\ p.dxl_state = CRC_LOW => dxl_packet_push_byte(p, b) = PushLow(p, b)
         /\ p.dxl_state = CRC_HIGH => dxl_packet_push_byte(p, b) = PushEnd(p, b)
<1>1. PICK d : d = p.dxl_state
  OBVIOUS
<1>2. d \in Nat /\ d <= CRC_HIGH
  BY <1>1, Fields
<1>3. CRC_LOW \in Nat /\ CRC_LOW > 300 /\ CRC_HIGH = CRC_LOW + 1
  BY ParserNumbers
<1>4. DXL_MAX_PARAMS \in Nat /\ DXL_MAX_PARAMS <= 251
  BY MaxParams
<1>5. CASE d < DXL_MAX_PARAMS + 8
  <2>1. d < CRC_LOW /\ d # CRC_LOW /\ d # CRC_HIGH /\ d \notin DXL_MAX_PARAMS + 8 .. CRC_LOW - 1
    BY <1>2, <1>3, <1>4, <1>5
  <2> QED
    BY <1>1, <1>2, <1>4, <1>5, <2>1 DEF dxl_packet_push_byte
<1>6. CASE d >= DXL_MAX_PARAMS + 8 /\ d < CRC_LOW
  <2>1. d # CRC_LOW /\ d # CRC_HIGH /\ d \in DXL_MAX_PARAMS + 8 .. CRC_LOW - 1
    BY <1>2, <1>3, <1>4, <1>6
  <2> QED
    BY <1>1, <1>2, <1>4, <1>6, <2>1 DEF dxl_packet_push_byte
<1>7. CASE d = CRC_LOW \/ d = CRC_HIGH
  <2>1. CRC_LOW # CRC_HIGH /\ ~(d < DXL_MAX_PARAMS + 8) /\ ~(d < CRC_LOW)
    BY <1>3, <1>4, <1>7
  <2> QED
    BY <1>1, <1>7, <2>1, PushEnds
<1> QED
  BY <1>1, <1>2, <1>3, <1>4, <1>5, <1>6, <1>7

(* What a byte of the content changes, and what it leaves.                 *)
LEMMA StoredTypes ==
  ASSUME NEW p \in Packet, NEW b \in Byte, Parsing(p), p.dxl_state < DXL_MAX_PARAMS + 8
  PROVE  /\ Stored(p, b) \in Packet
         /\ Stored(p, b).dxl_state = p.dxl_state
         /\ Stored(p, b).crc16 = p.crc16
         /\ Stored(p, b).process = p.process
         /\ p.dxl_state >= 8 =>
              /\ Stored(p, b).parameter_nb = p.parameter_nb
              /\ Stored(p, b).id = p.id
              /\ Len(Stored(p, b).parameters) >= p.dxl_state - 7
              /\ Stored(p, b).parameters[p.dxl_state - 7] = b
              /\ \A i \in 1 .. p.dxl_state - 8 :
                   Stored(p, b).parameters[i] = p.parameters[i]
<1>1. p.dxl_state \in Nat /\ p.parameter_nb \in Nat /\ p.parameters \in Seq(Byte)
  BY Fields
<1>2. CASE p.dxl_state < 4
  BY <1>1, <1>2 DEF Stored
<1>3. CASE p.dxl_state = 4
  BY <1>1, <1>3 DEF Stored, Packet
<1>4. CASE p.dxl_state = 5
  BY <1>1, <1>4 DEF Stored, Packet
<1>5. CASE p.dxl_state = 6
  <2>1. (p.parameter_nb - 3) % 256 \in Byte
    <3>1. (p.parameter_nb - 3) % 256 \in Nat /\ (p.parameter_nb - 3) % 256 <= 255
      BY <1>1
    <3> QED
      BY <3>1, Bytes
  <2>2. Stored(p, b) = [p EXCEPT !.parameter_nb = (p.parameter_nb - 3) % 256]
    BY <1>1, <1>5 DEF Stored
  <2> QED
    BY <1>1, <1>5, <2>1, <2>2 DEF Packet
<1>6. CASE p.dxl_state = 7
  BY <1>1, <1>6 DEF Stored
<1>7. CASE p.dxl_state >= 8
  <2>1. PICK n \in Nat : n = p.dxl_state - 8
    BY <1>1, <1>7
  <2>2. PICK s \in Seq(Byte) : s = p.parameters
    BY <1>1
  <2>3. Len(s) \in Nat /\ n <= Len(s)
    BY <1>1, <1>7, <2>1, <2>2, MaxParams DEF Parsing
  <2>4. PICK t : t = IF n < Len(s) THEN ReplaceAt(s, n + 1, b) ELSE Append(s, b)
    OBVIOUS
  <2>5. Stored(p, b) = [p EXCEPT !.parameters = t]
    BY <1>1, <1>7, <2>1, <2>2, <2>4 DEF Stored
  <2>6. t \in Seq(Byte) /\ Len(t) >= n + 1 /\ t[n + 1] = b /\ \A i \in 1 .. n : t[i] = s[i]
    <3>1. CASE n < Len(s)
      <4>1. t = [s EXCEPT ![n + 1] = b] /\ n + 1 \in 1 .. Len(s)
        BY <2>3, <2>4, <3>1 DEF ReplaceAt
      <4> QED
        BY <2>3, <4>1, ExceptSeq
    <3>2. CASE ~(n < Len(s))
      <4>1. t = Append(s, b) /\ n = Len(s)
        BY <2>3, <2>4, <3>2
      <4> QED
        BY <4>1
    <3> QED
      BY <3>1, <3>2
  <2>7. n + 1 = p.dxl_state - 7
    BY <1>1, <2>1
  <2> QED
    BY <2>1, <2>2, <2>5, <2>6, <2>7 DEF Packet
<1> QED
  BY <1>1, <1>2, <1>3, <1>4, <1>5, <1>6, <1>7

(* A byte of the content.                                                  *)
LEMMA ContentParses ==
  ASSUME NEW p \in Packet, NEW b \in Byte, Parsing(p), p.dxl_state < DXL_MAX_PARAMS + 8
  PROVE  Parsing(PushContent(p, b))
<1>1. PICK s : s = Stored(p, b)
  OBVIOUS
<1>2. /\ s \in Packet /\ s.dxl_state = p.dxl_state /\ s.crc16 = p.crc16
      /\ p.dxl_state >= 8 => /\ s.parameter_nb = p.parameter_nb
                             /\ Len(s.parameters) >= p.dxl_state - 7
  BY <1>1, StoredTypes
<1>3. p.dxl_state \in Nat /\ p.crc16 \in Word /\ p.parameter_nb \in Nat
  <2>1. p.dxl_state \in Nat /\ p.parameter_nb \in Nat
    BY Fields
  <2>2. p.dxl_state # CRC_HIGH
    BY <2>1, ParserNumbers, MaxParams
  <2> QED
    BY <2>1, <2>2 DEF Parsing
<1>4. CASE ~Expected(p, b)
  BY <1>1, <1>2, <1>4, RestartParses DEF PushContent
<1>5. CASE Expected(p, b)
  <2>1. PICK c : c = update_crc(p.crc16, b)
    OBVIOUS
  <2>2. c \in Word /\ c \in Rest
    BY <1>3, <2>1, CrcIsWord, ParserNumbers
  <2>3. p.dxl_state + 1 < CRC_LOW
    BY <1>3, ParserNumbers, MaxParams
  <2>4. PICK d : d = IF LastParameter(p) THEN CRC_LOW ELSE p.dxl_state + 1
    OBVIOUS
  <2>5. d \in 0 .. CRC_HIGH
    BY <1>3, <2>3, <2>4, ParserNumbers
  <2>6. PushContent(p, b) = [s EXCEPT !.crc16 = c, !.dxl_state = d]
    BY <1>1, <1>2, <1>5, <2>1, <2>4 DEF PushContent, Packet
  <2>7. PICK r : r = PushContent(p, b)
    OBVIOUS
  <2>8. /\ r \in Packet /\ r.crc16 = c /\ r.dxl_state = d
        /\ r.parameters = s.parameters /\ r.parameter_nb = s.parameter_nb
    BY <1>2, <2>2, <2>5, <2>6, <2>7 DEF Packet
  <2>9. Len(s.parameters) \in Nat
    BY <1>2 DEF Packet
  <2>10. CASE LastParameter(p)
    <3>1. d = CRC_LOW /\ p.dxl_state >= 8 /\ p.dxl_state - 7 >= p.parameter_nb
      BY <2>4, <2>10 DEF LastParameter
    <3>2. Len(r.parameters) >= r.parameter_nb
      BY <1>2, <1>3, <2>8, <2>9, <3>1
    <3> QED
      BY <2>2, <2>7, <2>8, <3>1, <3>2, ParserNumbers, MaxParams DEF Parsing
  <2>11. CASE ~LastParameter(p)
    <3>1. d = p.dxl_state + 1
      BY <2>4, <2>11
    <3>2. d >= 8 => Len(r.parameters) >= d - 8
      BY <1>2, <1>3, <2>8, <2>9, <3>1
    <3> QED
      BY <1>3, <2>2, <2>3, <2>7, <2>8, <3>1, <3>2, ParserNumbers DEF Parsing
  <2> QED
    BY <2>10, <2>11
<1> QED
  BY <1>4, <1>5

(* A byte beyond the parameters.                                           *)
LEMMA BeyondParses ==
  ASSUME NEW p \in Packet, NEW b \in Byte, Parsing(p),
         p.dxl_state >= DXL_MAX_PARAMS + 8, p.dxl_state < CRC_LOW
  PROVE  /\ Parsing(PushBeyond(p, b))
         /\ p.dxl_state > DXL_MAX_PARAMS + 8 => PushBeyond(p, b) = Restart(p)
         /\ p.dxl_state = DXL_MAX_PARAMS + 8 =>
              PushBeyond(p, b).dxl_state = DXL_MAX_PARAMS + 9
<1>1. p.dxl_state \in Nat /\ DXL_MAX_PARAMS \in Nat /\ DXL_MAX_PARAMS <= 251
  BY Fields, MaxParams
<1>2. CASE p.dxl_state > DXL_MAX_PARAMS + 8
  <2>1. PushBeyond(p, b) = Restart(p)
    BY <1>1, <1>2 DEF PushBeyond
  <2> QED
    BY <1>1, <1>2, <2>1, RestartParses
<1>3. CASE p.dxl_state = DXL_MAX_PARAMS + 8
  <2>1. PICK c : c = update_crc(p.crc16, b)
    OBVIOUS
  <2>2. c \in Word /\ c \in Rest
    <3>1. p.dxl_state # CRC_HIGH
      BY <1>1, ParserNumbers
    <3> QED
      BY <2>1, <3>1, CrcIsWord, ParserNumbers DEF Parsing
  <2>3. PICK f : f = (b # 0)
    OBVIOUS
  <2>4. f \in BOOLEAN
    BY <2>3
  <2>5. PICK d : d = DXL_MAX_PARAMS + 9
    OBVIOUS
  <2>6. d \in 0 .. CRC_HIGH /\ d # 0 /\ d # CRC_HIGH /\ ~(d >= CRC_LOW)
        /\ d \notin 8 .. DXL_MAX_PARAMS + 8
    BY <1>1, <2>5, ParserNumbers
  <2>7. PICK r : r = PushBeyond(p, b)
    OBVIOUS
  <2>8. r = [p EXCEPT !.process = f, !.crc16 = c, !.dxl_state = d]
    <3>1. ~(p.dxl_state - 8 > DXL_MAX_PARAMS) /\ p.dxl_state + 1 = d
      BY <1>1, <1>3, <2>5
    <3> QED
      BY <2>1, <2>3, <2>7, <3>1 DEF PushBeyond, Packet
  <2>9. r \in Packet /\ r.crc16 = c /\ r.dxl_state = d
    BY <2>2, <2>4, <2>6, <2>8 DEF Packet
  <2> QED
    BY <1>1, <1>3, <2>2, <2>5, <2>6, <2>7, <2>9 DEF Parsing
<1> QED
  BY <1>1, <1>2, <1>3

(* The first byte of the checksum.                                         *)
LEMMA LowParses ==
  ASSUME NEW p \in Packet, NEW b \in Byte, Parsing(p), p.dxl_state = CRC_LOW
  PROVE  Parsing(PushLow(p, b))
<1>1. p.crc16 \in Word /\ p.crc16 - b \in Rest
  <2>1. CRC_LOW # CRC_HIGH
    BY ParserNumbers
  <2>2. p.crc16 \in Word
    BY <2>1 DEF Parsing
  <2> QED
    BY <2>2, ParserNumbers
<1>2. CRC_HIGH \in 0 .. CRC_HIGH
  BY ParserNumbers
<1>3. PICK r : r = PushLow(p, b)
  OBVIOUS
<1>4. r \in Packet /\ r.dxl_state = CRC_HIGH
      /\ r.parameters = p.parameters /\ r.parameter_nb = p.parameter_nb
  BY <1>1, <1>2, <1>3 DEF PushLow, Packet
<1> QED
  BY <1>3, <1>4, ParserNumbers, MaxParams DEF Parsing

(* The last byte.                                                          *)
LEMMA EndParses ==
  ASSUME NEW p \in Packet, NEW b \in Byte, Parsing(p), p.dxl_state = CRC_HIGH
  PROVE  Parsing(PushEnd(p, b))
<1>1. p.parameters \in Seq(Byte) /\ p.parameter_nb \in Nat /\ p.parameter_nb <= 255
      /\ p.parameter_nb <= Len(p.parameters)
  <2>1. CRC_HIGH >= CRC_LOW
    BY ParserNumbers
  <2>2. Len(p.parameters) >= p.parameter_nb
    BY <2>1 DEF Parsing
  <2> QED
    BY <2>2, Fields
<1>2. PICK w : w = SubSeq(p.parameters, 1, p.parameter_nb)
  OBVIOUS
<1>3. w \in Seq(Byte) /\ Len(w) = p.parameter_nb
  <2>1. \A i \in 1 .. p.parameter_nb : p.parameters[i] \in Byte
    BY <1>1, ElementOfSeq
  <2> QED
    BY <1>1, <1>2, <2>1, SubSeqProperties
<1>4. PICK body : body = dxl_unstuff(w)
  OBVIOUS
<1>5. body \in Seq(Byte) /\ Len(body) \in Byte
  <2>1. body \in Seq(Byte) /\ Len(body) <= Len(w)
    BY <1>3, <1>4, UnstuffShortens
  <2>2. Len(body) \in Nat
    BY <2>1
  <2> QED
    BY <1>1, <1>3, <2>1, <2>2, Bytes
<1>6. PICK q : q = [p EXCEPT !.process = TRUE, !.parameters = body, !.parameter_nb = Len(body)]
  OBVIOUS
<1>7. q \in Packet
  BY <1>5, <1>6 DEF Packet
<1>8. PushEnd(p, b) = Restart(q) \/ PushEnd(p, b) = Restart(p)
  BY <1>2, <1>4, <1>6 DEF PushEnd
<1> QED
  BY <1>7, <1>8, RestartParses

(* The parser never leaves its states and never reads a parameter that it  *)
(* has not got, whatever bytes come.                                       *)
THEOREM ParserKeepsTypes ==
  ASSUME NEW p, NEW b \in Byte, Parsing(p)
  PROVE  Parsing(dxl_packet_push_byte(p, b))
<1>1. p \in Packet /\ p.dxl_state \in Nat /\ DXL_MAX_PARAMS \in Nat
  BY Fields, MaxParams DEF Parsing
<1>2. CASE p.dxl_state < DXL_MAX_PARAMS + 8
  BY <1>1, <1>2, PushCases, ContentParses
<1>3. CASE p.dxl_state >= DXL_MAX_PARAMS + 8 /\ p.dxl_state < CRC_LOW
  BY <1>1, <1>3, PushCases, BeyondParses
<1>4. CASE p.dxl_state = CRC_LOW
  BY <1>1, <1>4, PushCases, LowParses
<1>5. CASE p.dxl_state = CRC_HIGH
  BY <1>1, <1>5, PushCases, EndParses
<1> QED
  BY <1>1, <1>2, <1>3, <1>4, <1>5, PushCases, ParserNumbers, MaxParams

(* Two sequences, one after the other.                                     *)
LEMMA Places ==
  ASSUME NEW S, NEW s \in Seq(S), NEW t \in Seq(S), NEW u, u = s \o t
  PROVE  /\ u \in Seq(S) /\ Len(u) = Len(s) + Len(t)
         /\ \A i \in 1 .. Len(s) : u[i] = s[i]
         /\ \A i \in 1 .. Len(t) : u[Len(s) + i] = t[i]
<1>1. PICK a \in Nat, b \in Nat : a = Len(s) /\ b = Len(t)
  BY LenProperties
<1>3. /\ u \in Seq(S) /\ Len(u) = a + b
      /\ \A i \in 1 .. a + b : u[i] = IF i <= a THEN s[i] ELSE t[i - a]
  BY <1>1, ConcatProperties
<1>4. \A i \in 1 .. a : u[i] = s[i]
  BY <1>3
<1>5. ASSUME NEW i \in 1 .. b PROVE u[a + i] = t[i]
  <2>1. a + i \in 1 .. a + b /\ ~(a + i <= a) /\ (a + i) - a = i
    OBVIOUS
  <2> QED
    BY <1>3, <2>1
<1> QED
  BY <1>1, <1>3, <1>4, <1>5

(* The same of bytes, as one formula.                                      *)
Joined(u, s, t) ==
  /\ u \in Seq(Byte) /\ Len(u) = Len(s) + Len(t)
  /\ \A i \in 1 .. Len(s) : u[i] = s[i]
  /\ \A i \in 1 .. Len(t) : u[Len(s) + i] = t[i]

(* What \o makes is joined so.                                             *)
LEMMA BytePlaces == \A s \in Seq(Byte), t \in Seq(Byte) : Joined(s \o t, s, t)
<1> SUFFICES ASSUME NEW s \in Seq(Byte), NEW t \in Seq(Byte) PROVE Joined(s \o t, s, t)
  OBVIOUS
<1>1. PICK u : u = s \o t
  OBVIOUS
<1>2. Joined(u, s, t)
  BY <1>1, Places, SMT DEF Joined
<1> QED
  BY <1>1, <1>2

(* What dxl_write_packet writes before the checksum, for a body that fits. *)
Content(id, instruction, body) ==
  HEADER \o <<id, Len(body) + 3, 0, instruction>> \o body

(* Its bytes, one by one, but for those that the parser does not look at:  *)
(* the high byte of the length, and the instruction.                       *)
IsContent(c, id, m, body) ==
  /\ c \in Seq(Byte) /\ Len(c) = m + 8
  /\ c[1] = 255 /\ c[2] = 255 /\ c[3] = 253 /\ c[4] = 0
  /\ c[5] = id /\ c[6] = m + 3
  /\ \A i \in 1 .. m : c[8 + i] = body[i]

(* What dxl_write_packet writes is such a content.                         *)
LEMMA ContentBytes ==
  ASSUME NEW id \in Byte, NEW instruction \in Byte, NEW body \in Seq(Byte),
         NEW m \in Nat, Len(body) = m, m + 3 <= 255
  PROVE  IsContent(Content(id, instruction, body), id, m, body)
<1> DEFINE c == Content(id, instruction, body)
<1>1. m + 3 \in Byte /\ 255 \in Byte /\ 253 \in Byte /\ 0 \in Byte
  BY Bytes
<1>2. HEADER \in Seq(Byte) /\ Len(HEADER) = 4
      /\ HEADER[1] = 255 /\ HEADER[2] = 255 /\ HEADER[3] = 253 /\ HEADER[4] = 0
  BY <1>1 DEF HEADER
<1>3. PICK f : f = <<id, m + 3, 0, instruction>>
  OBVIOUS
<1>4. f \in Seq(Byte) /\ Len(f) = 4 /\ f[1] = id /\ f[2] = m + 3 /\ f[3] = 0
  BY <1>1, <1>3
<1>5. PICK h : h = HEADER \o f
  OBVIOUS
<1>6. /\ h \in Seq(Byte) /\ Len(h) = 4 + 4
      /\ \A i \in 1 .. 4 : h[i] = HEADER[i]
      /\ \A i \in 1 .. 4 : h[4 + i] = f[i]
  <2>1. HEADER \in Seq(Byte) /\ f \in Seq(Byte)
    BY <1>2, <1>4
  <2>2. Joined(h, HEADER, f)
    BY <1>5, <2>1, BytePlaces
  <2> QED
    BY <1>2, <1>4, <2>2 DEF Joined
<1>7. /\ Len(h) = 8 /\ h[1] = 255 /\ h[2] = 255 /\ h[3] = 253 /\ h[4] = 0
      /\ h[5] = id /\ h[6] = m + 3 /\ h[7] = 0
  <2>1. h[4 + 1] = f[1] /\ h[4 + 2] = f[2] /\ h[4 + 3] = f[3]
    BY <1>6
  <2>2. 4 + 1 = 5 /\ 4 + 2 = 6 /\ 4 + 3 = 7 /\ 4 + 4 = 8
    OBVIOUS
  <2> QED
    BY <1>2, <1>4, <1>6, <2>1, <2>2
<1>8. c = h \o body
  BY <1>3, <1>5 DEF Content
<1> HIDE DEF c
<1>9. /\ c \in Seq(Byte) /\ Len(c) = 8 + m
      /\ \A i \in 1 .. 8 : c[i] = h[i]
      /\ \A i \in 1 .. m : c[8 + i] = body[i]
  <2>1. h \in Seq(Byte)
    BY <1>6
  <2>2. Joined(c, h, body)
    BY <1>8, <2>1, BytePlaces
  <2> QED
    BY <1>7, <2>2 DEF Joined
<1> QED
  BY <1>7, <1>9 DEF IsContent, c

(* The bytes of a packet are its content and two bytes of checksum.        *)
LEMMA WrittenBytes ==
  ASSUME NEW id, NEW instruction, NEW parameters \in Seq(Byte),
         Len(Stuffed(parameters)) + 3 <= 255,
         NEW c, c = Content(id, instruction, Stuffed(parameters)),
         NEW k, k = Checksums(c)[Len(c)]
  PROVE  dxl_write_packet(id, instruction, parameters) = c \o <<k % 256, k \div 256>>
<1>1. Len(Stuffed(parameters)) \in Nat
  BY AllUndone DEF Undone
<1>2. PICK n : n = Len(Stuffed(parameters)) + 3
  OBVIOUS
<1>3. n % 256 = n /\ n \div 256 = 0
  BY <1>1, <1>2
<1>4. c = HEADER \o <<id, n % 256, n \div 256, instruction>> \o Stuffed(parameters)
  BY <1>2, <1>3, Zenon DEF Content
<1> QED
  BY <1>2, <1>4, SMT DEF dxl_write_packet

(* The parser after n bytes of a content.                                  *)
ReadSoFar(p, n, id, body, crc) ==
  /\ Parsing(p) /\ p.dxl_state = n /\ p.crc16 = crc[n]
  /\ n >= 5 => p.id = id
  /\ n = 6 => p.parameter_nb = Len(body) + 3
  /\ n >= 7 => p.parameter_nb = Len(body)
  /\ \A i \in 1 .. n - 8 : p.parameters[i] = body[i]

(* After the whole content.                                                *)
ReadAll(p, id, body, crc) ==
  /\ Parsing(p) /\ p.dxl_state = CRC_LOW /\ p.crc16 = crc[Len(body) + 8]
  /\ p.id = id /\ p.parameter_nb = Len(body)
  /\ \A i \in 1 .. Len(body) : p.parameters[i] = body[i]

(* One byte of the content, from the header to the last parameter.         *)
LEMMA ReadContent ==
  ASSUME NEW id \in Byte, NEW body \in Seq(Byte),
         body # <<>>, Len(body) + 3 < DXL_MAX_PARAMS,
         NEW c, IsContent(c, id, Len(body), body),
         NEW n \in 0 .. Len(body) + 7, NEW p,
         ReadSoFar(p, n, id, body, Checksums(c)),
         NEW r, r = dxl_packet_push_byte(p, c[n + 1])
  PROVE  IF n = Len(body) + 7 THEN ReadAll(r, id, body, Checksums(c))
                              ELSE ReadSoFar(r, n + 1, id, body, Checksums(c))
<1>1. PICK m \in Nat : m = Len(body) /\ m # 0
  BY LenProperties, EmptySeq
<1>2. PICK b : b = c[n + 1]
  OBVIOUS
<1>3. DXL_MAX_PARAMS \in Nat /\ DXL_MAX_PARAMS <= 251 /\ m + 3 < DXL_MAX_PARAMS
  BY <1>1, MaxParams
<1>4. /\ c \in Seq(Byte) /\ Len(c) = m + 8
      /\ c[1] = 255 /\ c[2] = 255 /\ c[3] = 253 /\ c[4] = 0
      /\ c[5] = id /\ c[6] = m + 3
      /\ \A i \in 1 .. m : c[8 + i] = body[i]
  <2>1. IsContent(c, id, m, body)
    BY <1>1
  <2> QED
    BY <2>1 DEF IsContent
<1>5. PICK crc : crc = Checksums(c)
  OBVIOUS
<1>6. b \in Byte /\ crc[n + 1] = update_crc(crc[n], b)
  <2>1. n + 1 \in 1 .. Len(c) /\ (n + 1) - 1 = n
    BY <1>1, <1>4
  <2>2. b \in Byte
    BY <1>2, <1>4, <2>1, ElementOfSeq
  <2>3. c \in Seq(Byte)
    BY <1>4
  <2>4. \A k \in 1 .. Len(c) : crc[k] = update_crc(crc[k - 1], c[k])
    BY <1>5, <2>3, ChecksumsStep
  <2> QED
    BY <1>2, <2>1, <2>2, <2>4
<1>7. /\ Parsing(p) /\ p \in Packet /\ p.dxl_state = n /\ p.crc16 = crc[n]
      /\ n >= 5 => p.id = id
      /\ n = 6 => p.parameter_nb = m + 3
      /\ n >= 7 => p.parameter_nb = m
      /\ \A i \in 1 .. n - 8 : p.parameters[i] = body[i]
  BY <1>1, <1>5 DEF ReadSoFar, Parsing
<1>8. n \in Nat /\ n < DXL_MAX_PARAMS + 8
  BY <1>1, <1>3
<1>9. r = PushContent(p, b) /\ Parsing(r)
  <2>1. r = PushContent(p, b)
    BY <1>2, <1>7, <1>8, PushCases
  <2> QED
    BY <1>6, <1>7, <1>8, <2>1, ContentParses
<1>10. Expected(p, b)
  <2>1. CASE n < 4
    <3>1. b = HEADER[n + 1]
      <4>1. n = 0 \/ n = 1 \/ n = 2 \/ n = 3
        BY <1>8, <2>1
      <4> QED
        BY <1>2, <1>4, <4>1 DEF HEADER
    <3> QED
      BY <1>7, <1>8, <2>1, <3>1 DEF Expected
  <2>2. CASE n = 5
    <3>1. b < DXL_MAX_PARAMS
      BY <1>2, <1>3, <1>4, <2>2
    <3> QED
      BY <1>7, <2>2, <3>1 DEF Expected
  <2>3. CASE ~(n < 4) /\ n # 5
    BY <1>7, <1>8, <2>3 DEF Expected
  <2> QED
    BY <2>1, <2>2, <2>3
<1>11. LastParameter(p) <=> n = m + 7
  <2>1. CASE n >= 8
    BY <1>1, <1>7, <1>8, <2>1 DEF LastParameter
  <2>2. CASE ~(n >= 8)
    BY <1>1, <1>7, <1>8, <2>2 DEF LastParameter
  <2> QED
    BY <2>1, <2>2
<1>12. PICK s : s = Stored(p, b)
  OBVIOUS
<1>13. PICK d : d = IF n = m + 7 THEN CRC_LOW ELSE n + 1
  OBVIOUS
<1>14. /\ s \in Packet /\ s.dxl_state = n /\ s.crc16 = crc[n]
       /\ n >= 8 => /\ s.parameter_nb = m /\ s.id = id
                    /\ s.parameters[n - 7] = b
                    /\ \A i \in 1 .. n - 8 : s.parameters[i] = p.parameters[i]
  <2>1. p \in Packet /\ b \in Byte /\ Parsing(p) /\ p.dxl_state < DXL_MAX_PARAMS + 8
    BY <1>6, <1>7, <1>8
  <2>2. /\ s \in Packet /\ s.dxl_state = p.dxl_state /\ s.crc16 = p.crc16
        /\ p.dxl_state >= 8 => /\ s.parameter_nb = p.parameter_nb /\ s.id = p.id
                               /\ s.parameters[p.dxl_state - 7] = b
                               /\ \A i \in 1 .. p.dxl_state - 8 : s.parameters[i] = p.parameters[i]
    BY <1>12, <2>1, StoredTypes
  <2>3. n >= 8 => p.id = id /\ p.parameter_nb = m
    BY <1>7, <1>8
  <2> QED
    BY <1>7, <2>2, <2>3
<1>15. /\ r.crc16 = crc[n + 1] /\ r.dxl_state = d
       /\ r.id = s.id /\ r.parameter_nb = s.parameter_nb /\ r.parameters = s.parameters
  <2>1. r = [s EXCEPT !.crc16 = crc[n + 1], !.dxl_state = d]
    BY <1>6, <1>7, <1>9, <1>10, <1>11, <1>12, <1>13, <1>14 DEF PushContent, Packet
  <2> QED
    BY <1>14, <2>1 DEF Packet
<1>16. n = 4 => s.id = id
  BY <1>2, <1>4, <1>7, <1>12 DEF Stored, Packet
<1>17. n \in 5 .. 7 => s.id = id
  BY <1>7, <1>12 DEF Stored, Packet
<1>18. n = 5 => s.parameter_nb = m + 3
  BY <1>2, <1>4, <1>7, <1>12 DEF Stored, Packet
<1>19. n = 6 => s.parameter_nb = m
  <2>1. (m + 3 - 3) % 256 = m
    BY <1>3
  <2> QED
    BY <1>7, <1>12, <2>1 DEF Stored, Packet
<1>20. n = 7 => s.parameter_nb = m
  BY <1>7, <1>12 DEF Stored, Packet
<1>21. \A i \in 1 .. n - 7 : s.parameters[i] = body[i]
  <2> SUFFICES ASSUME NEW i \in 1 .. n - 7 PROVE s.parameters[i] = body[i]
    OBVIOUS
  <2>1. n >= 8
    BY <1>8
  <2>2. CASE i = n - 7
    <3>1. i \in 1 .. m /\ 8 + i = n + 1
      BY <1>1, <1>8, <2>2
    <3> QED
      BY <1>2, <1>4, <1>14, <2>1, <2>2, <3>1
  <2>3. CASE i # n - 7
    <3>1. i \in 1 .. n - 8
      BY <1>8, <2>3
    <3> QED
      BY <1>7, <1>14, <2>1, <3>1
  <2> QED
    BY <2>2, <2>3
<1>22. CASE n = m + 7
  <2>1. n >= 8 /\ n - 7 = m /\ n + 1 = m + 8
    BY <1>1, <1>22
  <2> QED
    BY <1>1, <1>5, <1>9, <1>13, <1>14, <1>15, <1>21, <1>22, <2>1 DEF ReadAll
<1>23. CASE n # m + 7
  <2>1. d = n + 1 /\ (n + 1) - 8 = n - 7
    BY <1>8, <1>13, <1>23
  <2>2. n + 1 >= 5 => s.id = id
    <3>1. n + 1 >= 5 => n = 4 \/ n \in 5 .. 7 \/ n >= 8
      BY <1>8
    <3> QED
      BY <1>14, <1>16, <1>17, <3>1
  <2>3. n + 1 = 6 => s.parameter_nb = m + 3
    BY <1>8, <1>18
  <2>4. n + 1 >= 7 => s.parameter_nb = m
    <3>1. n + 1 >= 7 => n = 6 \/ n = 7 \/ n >= 8
      BY <1>8
    <3> QED
      BY <1>14, <1>19, <1>20, <3>1
  <2> QED
    BY <1>1, <1>5, <1>9, <1>15, <1>21, <1>23, <2>1, <2>2, <2>3, <2>4 DEF ReadSoFar
<1> QED
  BY <1>1, <1>22, <1>23

(* A packet whose parameters are replaced by the unstuffed ones.           *)
Unstuffed(q, u) ==
  [q EXCEPT !.process = TRUE, !.parameters = u, !.parameter_nb = Len(u)]

(* The end of a packet whose checksum fits.                                *)
LEMMA Accepted ==
  ASSUME NEW q, NEW b, q.crc16 = 256 * b
  PROVE  PushEnd(q, b)
           = Restart(Unstuffed(q, dxl_unstuff(SubSeq(q.parameters, 1, q.parameter_nb))))
BY Zenon DEF PushEnd, Unstuffed

(* A packet that was accepted.                                             *)
Accepting(id, parameters, dxl_state, crc16) ==
  [id |-> id, parameter_nb |-> Len(parameters), parameters |-> parameters,
   process |-> TRUE, dxl_state |-> dxl_state, crc16 |-> crc16]

(* It stays in the packet when the parser goes back to the header.         *)
LEMMA Restarted ==
  \A id, ps, d, c : Restart(Accepting(id, ps, d, c)) = Accepting(id, ps, 0, 0)
BY DEF Restart, Accepting

(* The checksum, and what is left when the parser has taken it away.       *)
LEMMA ReadChecksum ==
  ASSUME NEW id \in Byte, NEW parameters \in Seq(Byte), NEW crc, NEW p, NEW body,
         body = Stuffed(parameters), Len(body) + 3 <= 255,
         ReadAll(p, id, body, crc),
         NEW q, q = dxl_packet_push_byte(p, crc[Len(body) + 8] % 256),
         NEW r, r = dxl_packet_push_byte(q, crc[Len(body) + 8] \div 256)
  PROVE  r = Accepting(id, parameters, 0, 0)
<1>1. PICK k : k = p.crc16 /\ k = crc[Len(body) + 8]
  BY DEF ReadAll
<1>2. /\ p \in Packet /\ p.dxl_state = CRC_LOW /\ p.id = id
      /\ p.parameter_nb = Len(body) /\ p.parameters \in Seq(Byte)
      /\ Len(p.parameters) >= Len(body)
      /\ \A i \in 1 .. Len(body) : p.parameters[i] = body[i]
  <2>1. p \in Packet /\ p.dxl_state = CRC_LOW /\ CRC_LOW >= CRC_LOW
    BY ParserNumbers DEF ReadAll, Parsing
  <2>2. Len(p.parameters) >= p.parameter_nb
    BY <2>1 DEF ReadAll, Parsing
  <2> QED
    BY <2>1, <2>2, Fields DEF ReadAll
<1>3. body \in Seq(Byte) /\ dxl_unstuff(body) = parameters
  BY AllUndone DEF Undone
<1>4. k \in Nat
  <2>1. CRC_LOW # CRC_HIGH
    BY ParserNumbers
  <2>2. k \in Word
    BY <1>1, <1>2, <2>1 DEF ReadAll, Parsing
  <2> QED
    BY <2>2, ParserNumbers
<1>5. k - (k % 256) = 256 * (k \div 256)
  BY <1>4, SMT
<1>6. q = [p EXCEPT !.crc16 = k - (k % 256), !.dxl_state = CRC_HIGH]
  <2>1. q = PushLow(p, k % 256)
    <3>1. CRC_LOW # CRC_HIGH
      BY ParserNumbers
    <3> QED
      BY <1>1, <1>2, <3>1 DEF dxl_packet_push_byte
  <2> QED
    BY <1>1, <2>1 DEF PushLow
<1>7. /\ q.dxl_state = CRC_HIGH /\ q.crc16 = 256 * (k \div 256)
      /\ q.parameters = p.parameters /\ q.parameter_nb = Len(body)
  BY <1>2, <1>5, <1>6, Zenon DEF Packet
<1>8. r = PushEnd(q, k \div 256)
  BY <1>1, <1>7, PushEnds
<1>9. SubSeq(q.parameters, 1, q.parameter_nb) = body
  <2>1. PICK w : w = SubSeq(p.parameters, 1, Len(body))
    OBVIOUS
  <2>2. Len(body) \in Nat /\ \A i \in 1 .. Len(body) : p.parameters[i] \in Byte
    BY <1>2, <1>3, LenProperties, ElementOfSeq
  <2>3. w \in Seq(Byte) /\ Len(w) = Len(body) /\ \A i \in 1 .. Len(body) : w[i] = p.parameters[i]
    BY <2>1, <2>2, SubSeqProperties
  <2>4. w = body
    BY <1>2, <1>3, <2>3, SeqEqual
  <2> QED
    BY <1>7, <2>1, <2>4
<1>10. PICK t : t = Unstuffed(q, parameters)
  OBVIOUS
<1>11. r = Restart(t)
  <2>1. q.crc16 = 256 * (k \div 256)
    BY <1>7
  <2>2. PushEnd(q, k \div 256)
          = Restart(Unstuffed(q, dxl_unstuff(SubSeq(q.parameters, 1, q.parameter_nb))))
    BY <2>1, Accepted
  <2>3. dxl_unstuff(SubSeq(q.parameters, 1, q.parameter_nb)) = parameters
    BY <1>3, <1>9
  <2> QED
    BY <1>8, <1>10, <2>2, <2>3
<1>12. t = Accepting(id, parameters, CRC_HIGH, k - (k % 256))
  BY <1>2, <1>6, <1>10, Zenon DEF Packet, Accepting, Unstuffed
<1> QED
  BY <1>11, <1>12, Restarted

(* The states of the parser while bytes come.                              *)
Parses(state, p, bytes) ==
  /\ state[0] = p
  /\ \A n \in 1 .. Len(bytes) : state[n] = dxl_packet_push_byte(state[n-1], bytes[n])

(* A packet with this body being read, up to its last byte but one.        *)
ReadUpTo(state, bytes, id, body, crc) ==
  /\ Len(bytes) = Len(body) + 10
  /\ \A n \in 0 .. Len(body) + 7 : ReadSoFar(state[n], n, id, body, crc)
  /\ ReadAll(state[Len(body) + 8], id, body, crc)
  /\ state[Len(body) + 9]
       = dxl_packet_push_byte(state[Len(body) + 8], crc[Len(body) + 8] % 256)
  /\ state[Len(body) + 10]
       = dxl_packet_push_byte(state[Len(body) + 9], crc[Len(body) + 8] \div 256)

(* A content, with two bytes behind it that may be its checksum, is read   *)
(* byte by byte.                                                           *)
LEMMA ContentIsRead ==
  ASSUME NEW id \in Byte, NEW body \in Seq(Byte),
         body # <<>>, Len(body) + 3 < DXL_MAX_PARAMS,
         NEW c, IsContent(c, id, Len(body), body),
         NEW p, Parsing(p), p.dxl_state = 0,
         NEW bytes, Len(bytes) = Len(body) + 10,
         \A n \in 1 .. Len(body) + 8 : bytes[n] = c[n],
         NEW state, Parses(state, p, bytes)
  PROVE  /\ \A n \in 0 .. Len(body) + 7 : ReadSoFar(state[n], n, id, body, Checksums(c))
         /\ ReadAll(state[Len(body) + 8], id, body, Checksums(c))
<1>1. PICK m \in Nat : m = Len(body)
  BY LenProperties
<1>2. c \in Seq(Byte) /\ Len(bytes) = m + 10 /\ \A n \in 1 .. m + 8 : bytes[n] = c[n]
  BY <1>1 DEF IsContent
<1>3. PICK crc : crc = Checksums(c)
  OBVIOUS
<1> DEFINE T == {n \in Nat : n <= m + 7 => ReadSoFar(state[n], n, id, body, crc)}
<1>4. 0 \in T
  <2>1. crc[0] = 0
    BY <1>2, <1>3, ChecksumsStep
  <2> QED
    BY <2>1 DEF ReadSoFar, Parses, Parsing
<1>5. \A n \in 0 .. m + 7 : state[n + 1] = dxl_packet_push_byte(state[n], c[n + 1])
  <2> SUFFICES ASSUME NEW n \in 0 .. m + 7
               PROVE  state[n + 1] = dxl_packet_push_byte(state[n], c[n + 1])
    OBVIOUS
  <2>1. n + 1 \in 1 .. Len(bytes) /\ (n + 1) - 1 = n /\ n + 1 \in 1 .. m + 8
    BY <1>2
  <2> QED
    BY <1>2, <2>1 DEF Parses
<1>6. ASSUME NEW n \in Nat, n \in T PROVE n + 1 \in T
  <2> SUFFICES ASSUME n + 1 <= m + 7 PROVE ReadSoFar(state[n + 1], n + 1, id, body, crc)
    OBVIOUS
  <2>1. ReadSoFar(state[n], n, id, body, crc) /\ n \in 0 .. Len(body) + 7 /\ n # Len(body) + 7
    BY <1>1, <1>6
  <2>2. state[n + 1] = dxl_packet_push_byte(state[n], c[n + 1])
    BY <1>1, <1>5, <2>1
  <2> QED
    BY <1>3, <2>1, <2>2, ReadContent
<1> HIDE DEF T
<1>7. Nat \subseteq T
  BY <1>4, <1>6, AllNumbers
<1>8. \A n \in 0 .. m + 7 : ReadSoFar(state[n], n, id, body, crc)
  BY <1>1, <1>7 DEF T
<1>9. ReadAll(state[m + 8], id, body, crc)
  <2>1. m + 7 \in 0 .. Len(body) + 7 /\ m + 7 = Len(body) + 7 /\ m + 7 \in 0 .. m + 7
        /\ (m + 7) + 1 = m + 8
    BY <1>1
  <2>2. ReadSoFar(state[m + 7], m + 7, id, body, crc)
    BY <1>8, <2>1
  <2>3. state[m + 8] = dxl_packet_push_byte(state[m + 7], c[(m + 7) + 1])
    BY <1>5, <2>1
  <2> QED
    BY <1>3, <2>1, <2>2, <2>3, ReadContent
<1> QED
  BY <1>1, <1>3, <1>8, <1>9

(* A packet: a content and its checksum.                                   *)
IsPacket(bytes, c, id, body, k) ==
  /\ IsContent(c, id, Len(body), body) /\ k \in Word /\ k = Checksums(c)[Len(body) + 8]
  /\ Len(bytes) = Len(body) + 10
  /\ \A n \in 1 .. Len(body) + 8 : bytes[n] = c[n]
  /\ bytes[Len(body) + 9] = k % 256 /\ bytes[Len(body) + 10] = k \div 256

(* What is stuffed and fits.                                               *)
Fitting(body) == body \in Seq(Byte) /\ body # <<>> /\ Len(body) + 3 < DXL_MAX_PARAMS

(* What dxl_write_packet writes is a packet.                               *)
LEMMA WrittenIsPacket ==
  ASSUME NEW id \in Byte, NEW instruction \in Byte,
         NEW parameters \in Seq(Byte), parameters # <<>>,
         NEW body, body = Stuffed(parameters), Len(body) + 3 < DXL_MAX_PARAMS,
         NEW bytes, bytes = dxl_write_packet(id, instruction, parameters)
  PROVE  Fitting(body) /\ \E c, k : IsPacket(bytes, c, id, body, k)
<1>1. Len(body) + 3 < DXL_MAX_PARAMS
  OBVIOUS
<1>2. body \in Seq(Byte) /\ dxl_unstuff(body) = parameters
  BY AllUndone DEF Undone
<1>3. body # <<>>
  BY <1>2, StuffEmpty
<1>4. PICK m \in Nat : m = Len(body) /\ m # 0
  BY <1>2, <1>3, LenProperties, EmptySeq
<1>5. m + 3 < DXL_MAX_PARAMS /\ m + 3 <= 255
  BY <1>1, <1>4, DxlPacketsAssumption
<1>6. PICK c : c = Content(id, instruction, body)
  OBVIOUS
<1>7. c \in Seq(Byte) /\ Len(c) = m + 8
  <2>1. IsContent(c, id, m, body)
    BY <1>2, <1>4, <1>5, <1>6, ContentBytes
  <2> QED
    BY <2>1 DEF IsContent
<1>8. PICK crc : crc = Checksums(c)
  OBVIOUS
<1>9. PICK k \in Word : k = crc[m + 8]
  <2>1. m + 8 \in 0 .. Len(c)
    BY <1>7
  <2> QED
    BY <1>7, <1>8, <2>1, ChecksumsStep
<1>10. bytes = c \o <<k % 256, k \div 256>>
  <2>1. Len(body) + 3 <= 255 /\ k = Checksums(c)[Len(c)]
    BY <1>4, <1>5, <1>7, <1>8, <1>9
  <2> QED
    BY <1>6, <2>1, WrittenBytes
<1>11. /\ Len(bytes) = m + 10
       /\ \A n \in 1 .. m + 8 : bytes[n] = c[n]
       /\ bytes[m + 9] = k % 256 /\ bytes[m + 10] = k \div 256
  <2>1. PICK e : e = <<k % 256, k \div 256>>
    OBVIOUS
  <2>2. k \in Nat
    BY ParserNumbers
  <2>3. e \in Seq(Nat) /\ Len(e) = 2 /\ e[1] = k % 256 /\ e[2] = k \div 256
    BY <2>1, <2>2
  <2>4. c \in Seq(Nat)
    BY <1>7, Bytes, SeqMonotonic
  <2>5. /\ Len(bytes) = (m + 8) + 2
        /\ \A n \in 1 .. m + 8 : bytes[n] = c[n]
        /\ \A n \in 1 .. 2 : bytes[(m + 8) + n] = e[n]
    <3>1. bytes = c \o e
      BY <1>10, <2>1
    <3>2. /\ Len(bytes) = Len(c) + Len(e)
          /\ \A n \in 1 .. Len(c) : bytes[n] = c[n]
          /\ \A n \in 1 .. Len(e) : bytes[Len(c) + n] = e[n]
      <4>1. e \in Seq(Nat)
        BY <2>3
      <4> QED
        BY <2>4, <3>1, <4>1, Places, SMT
    <3> QED
      BY <1>7, <2>3, <3>2
  <2>6. bytes[(m + 8) + 1] = e[1] /\ bytes[(m + 8) + 2] = e[2]
    BY <2>5
  <2>7. (m + 8) + 1 = m + 9 /\ (m + 8) + 2 = m + 10
    OBVIOUS
  <2> QED
    BY <2>3, <2>5, <2>6, <2>7
<1>12. IsContent(c, id, Len(body), body)
  BY <1>2, <1>4, <1>5, <1>6, ContentBytes
<1>13. IsPacket(bytes, c, id, body, k)
  BY <1>4, <1>8, <1>9, <1>11, <1>12 DEF IsPacket
<1> QED
  BY <1>1, <1>2, <1>3, <1>13 DEF Fitting

(* What dxl_write_packet writes is read so, byte by byte.                  *)
LEMMA PacketIsRead ==
  ASSUME NEW id \in Byte, NEW instruction \in Byte,
         NEW parameters \in Seq(Byte), parameters # <<>>,
         Len(Stuffed(parameters)) + 3 < DXL_MAX_PARAMS,
         NEW p, Parsing(p), p.dxl_state = 0,
         NEW bytes, bytes = dxl_write_packet(id, instruction, parameters),
         NEW state, Parses(state, p, bytes)
  PROVE  /\ Stuffed(parameters) \in Seq(Byte) /\ Stuffed(parameters) # <<>>
         /\ Len(Stuffed(parameters)) + 3 <= 255
         /\ \E crc : ReadUpTo(state, bytes, id, Stuffed(parameters), crc)
<1>1. PICK body : body = Stuffed(parameters)
  OBVIOUS
<1>2. Fitting(body) /\ \E c, k : IsPacket(bytes, c, id, body, k)
  BY <1>1, WrittenIsPacket
<1>3. PICK c, k : IsPacket(bytes, c, id, body, k)
  BY <1>2
<1>4. PICK m \in Nat : m = Len(body)
  BY <1>2, LenProperties DEF Fitting
<1>5. m + 3 <= 255
  BY <1>2, <1>4, DxlPacketsAssumption DEF Fitting
<1>6. PICK crc : crc = Checksums(c)
  OBVIOUS
<1>7. /\ Len(bytes) = m + 10 /\ k = crc[m + 8]
      /\ bytes[m + 9] = k % 256 /\ bytes[m + 10] = k \div 256
  BY <1>3, <1>4, <1>6 DEF IsPacket
<1>8. /\ \A n \in 0 .. m + 7 : ReadSoFar(state[n], n, id, body, crc)
      /\ ReadAll(state[m + 8], id, body, crc)
  <2>1. /\ IsContent(c, id, Len(body), body) /\ Len(bytes) = Len(body) + 10
        /\ \A n \in 1 .. Len(body) + 8 : bytes[n] = c[n]
    BY <1>3 DEF IsPacket
  <2>2. body \in Seq(Byte) /\ body # <<>> /\ Len(body) + 3 < DXL_MAX_PARAMS
    BY <1>2 DEF Fitting
  <2>3. /\ \A n \in 0 .. Len(body) + 7 : ReadSoFar(state[n], n, id, body, Checksums(c))
        /\ ReadAll(state[Len(body) + 8], id, body, Checksums(c))
    BY <2>1, <2>2, ContentIsRead
  <2> QED
    BY <1>4, <1>6, <2>3
<1>9. state[m + 9] = dxl_packet_push_byte(state[m + 8], k % 256)
  <2>1. m + 9 \in 1 .. Len(bytes) /\ (m + 9) - 1 = m + 8
    BY <1>7
  <2> QED
    BY <1>7, <2>1 DEF Parses
<1>10. state[m + 10] = dxl_packet_push_byte(state[m + 9], k \div 256)
  <2>1. m + 10 \in 1 .. Len(bytes) /\ (m + 10) - 1 = m + 9
    BY <1>7
  <2> QED
    BY <1>7, <2>1 DEF Parses
<1>11. ReadUpTo(state, bytes, id, body, crc)
  BY <1>4, <1>7, <1>8, <1>9, <1>10 DEF ReadUpTo
<1> QED
  BY <1>1, <1>2, <1>4, <1>5, <1>11 DEF Fitting

(* What dxl_write_packet writes, the parser accepts, and it finds the id   *)
(* and the parameters again.                                               *)
THEOREM WrittenIsRead ==
  ASSUME NEW id \in Byte, NEW instruction \in Byte,
         NEW parameters \in Seq(Byte), parameters # <<>>,
         Len(Stuffed(parameters)) + 3 < DXL_MAX_PARAMS,
         NEW p, Parsing(p), p.dxl_state = 0,
         NEW bytes, bytes = dxl_write_packet(id, instruction, parameters),
         NEW state, Parses(state, p, bytes)
  PROVE  state[Len(bytes)] = Accepting(id, parameters, 0, 0)
<1>1. PICK body : body = Stuffed(parameters)
  OBVIOUS
<1>2. PICK crc : ReadUpTo(state, bytes, id, body, crc)
  BY <1>1, PacketIsRead
<1>3. PICK t : t = state[Len(body) + 8]
  OBVIOUS
<1>4. PICK q : q = dxl_packet_push_byte(t, crc[Len(body) + 8] % 256)
  OBVIOUS
<1>5. PICK r : r = dxl_packet_push_byte(q, crc[Len(body) + 8] \div 256)
  OBVIOUS
<1>6. ReadAll(t, id, body, crc) /\ r = state[Len(body) + 10] /\ Len(bytes) = Len(body) + 10
  BY <1>2, <1>3, <1>4, <1>5 DEF ReadUpTo
<1>7. Len(body) + 3 <= 255
  BY <1>1, PacketIsRead
<1>8. r = Accepting(id, parameters, 0, 0)
  BY <1>1, <1>4, <1>5, <1>6, <1>7, ReadChecksum
<1> QED
  BY <1>6, <1>8

(* The checksum, split into bytes, and the length likewise.                *)
LEMMA WordSplits ==
  ASSUME NEW n \in Nat, n <= 65535
  PROVE  n % 256 \in Byte /\ n \div 256 \in Byte
<1>1. n % 256 \in Nat /\ n % 256 <= 255
  BY SMT
<1>2. PICK q : q = n \div 256
  OBVIOUS
<1>3. q \in Nat /\ 256 * q <= n
  BY <1>2, SMT
<1>4. q <= 255
  BY <1>3, SMT
<1> QED
  BY <1>1, <1>2, <1>3, <1>4, Bytes

(* A packet is what comes before the checksum, and the checksum.           *)
Begun(id, instruction, body) ==
  HEADER \o <<id, (Len(body) + 3) % 256, (Len(body) + 3) \div 256, instruction>> \o body

Ended(bytes) ==
  bytes \o <<(Checksums(bytes)[Len(bytes)]) % 256, (Checksums(bytes)[Len(bytes)]) \div 256>>

(* dxl_write_packet, with its local definitions expanded.                  *)
LEMMA WrittenEnds ==
  \A id, instruction, parameters :
    dxl_write_packet(id, instruction, parameters)
      = Ended(Begun(id, instruction, Stuffed(parameters)))
BY SMT DEF dxl_write_packet, Begun, Ended

(* What dxl_write_packet writes are bytes.                                 *)
LEMMA WrittenTypes ==
  ASSUME NEW id \in Byte, NEW instruction \in Byte, NEW parameters \in Seq(Byte),
         Len(Stuffed(parameters)) + 3 < 2^16
  PROVE  dxl_write_packet(id, instruction, parameters) \in Seq(Byte)
<1>1. PICK body : body = Stuffed(parameters)
  OBVIOUS
<1>2. body \in Seq(Byte) /\ Len(body) \in Nat
  BY <1>1, AllUndone DEF Undone
<1>3. PICK length : length = Len(body) + 3
  OBVIOUS
<1>4. length \in Nat /\ length <= 65535
  BY <1>1, <1>2, <1>3, Powers
<1>5. length % 256 \in Byte /\ length \div 256 \in Byte
  BY <1>4, WordSplits
<1>6. PICK f : f = <<id, length % 256, length \div 256, instruction>>
  OBVIOUS
<1>7. f \in Seq(Byte)
  BY <1>5, <1>6
<1>8. HEADER \in Seq(Byte)
  <2>1. 255 \in Byte /\ 253 \in Byte /\ 0 \in Byte
    BY Bytes
  <2> QED
    BY <2>1 DEF HEADER
<1>9. HEADER \o f \in Seq(Byte)
  BY <1>7, <1>8, BytePlaces DEF Joined
<1>10. PICK bytes : bytes = HEADER \o f \o body
  OBVIOUS
<1>11. bytes \in Seq(Byte)
  BY <1>2, <1>9, <1>10, BytePlaces DEF Joined
<1>12. PICK crc16 : crc16 = Checksums(bytes)[Len(bytes)]
  OBVIOUS
<1>13. crc16 \in Word
  <2>1. Len(bytes) \in 0 .. Len(bytes)
    BY <1>11, LenProperties
  <2> QED
    BY <1>11, <1>12, <2>1, ChecksumsStep
<1>14. crc16 % 256 \in Byte /\ crc16 \div 256 \in Byte
  BY <1>13, Words, WordSplits
<1>15. PICK e : e = <<crc16 % 256, crc16 \div 256>>
  OBVIOUS
<1>16. e \in Seq(Byte)
  BY <1>14, <1>15
<1>17. bytes \o e \in Seq(Byte)
  BY <1>11, <1>16, BytePlaces DEF Joined
<1>18. dxl_write_packet(id, instruction, parameters) = bytes \o e
  <2>1. bytes = Begun(id, instruction, body)
    BY <1>3, <1>6, <1>10, Zenon DEF Begun
  <2>2. bytes \o e = Ended(bytes)
    BY <1>12, <1>15, Zenon DEF Ended
  <2> QED
    BY <1>1, <2>1, <2>2, WrittenEnds, Zenon
<1> QED
  BY <1>17, <1>18

(* A packet of the parser has its type.                                    *)
LEMMA ParsingTypes == \A p : Parsing(p) => p \in Packet
BY DEF Parsing

(* Only the last byte of a packet makes a reply of it, or the byte that    *)
(* overwrites `process'.                                                   *)
LEMMA ProcessKept ==
  ASSUME NEW p, NEW b \in Byte, Parsing(p), p.dxl_state # CRC_HIGH,
         p.dxl_state # DXL_MAX_PARAMS + 8
  PROVE  dxl_packet_push_byte(p, b).process = p.process
<1>1. p \in Packet /\ p.process \in BOOLEAN /\ p.dxl_state \in Nat /\ DXL_MAX_PARAMS \in Nat
  BY Fields, MaxParams DEF Parsing
<1>2. ASSUME NEW s \in Packet PROVE Restart(s).process = s.process
  <2>1. CASE s.process
    <3>1. Restart(s) = [s EXCEPT !.dxl_state = 0, !.crc16 = 0]
      BY <2>1 DEF Restart
    <3> QED
      BY <3>1 DEF Packet
  <2>2. CASE ~s.process
    <3>1. Restart(s) = Blank /\ Blank.process = FALSE /\ s.process \in BOOLEAN
      BY <2>2, Fields DEF Restart, Blank
    <3> QED
      BY <2>2, <3>1
  <2> QED
    BY <2>1, <2>2
<1>3. CASE p.dxl_state = CRC_LOW
  <2>1. dxl_packet_push_byte(p, b) = [p EXCEPT !.crc16 = p.crc16 - b, !.dxl_state = CRC_HIGH]
    BY <1>1, <1>3, PushCases DEF PushLow
  <2> QED
    BY <1>1, <2>1 DEF Packet
<1>4. CASE p.dxl_state < DXL_MAX_PARAMS + 8
  <2>1. PICK s : s = Stored(p, b)
    OBVIOUS
  <2>2. s \in Packet /\ s.process = p.process
    BY <1>1, <1>4, <2>1, StoredTypes
  <2>3. dxl_packet_push_byte(p, b) = PushContent(p, b)
    BY <1>1, <1>4, PushCases
  <2>4. CASE ~Expected(p, b)
    BY <1>2, <2>1, <2>2, <2>3, <2>4 DEF PushContent
  <2>5. CASE Expected(p, b)
    <3>1. PICK c, d : dxl_packet_push_byte(p, b) = [s EXCEPT !.crc16 = c, !.dxl_state = d]
      BY <2>1, <2>3, <2>5 DEF PushContent
    <3> QED
      BY <2>2, <3>1 DEF Packet
  <2> QED
    BY <2>4, <2>5
<1>5. CASE p.dxl_state > DXL_MAX_PARAMS + 8 /\ p.dxl_state < CRC_LOW
  <2>1. dxl_packet_push_byte(p, b) = Restart(p)
    BY <1>1, <1>5, PushCases, BeyondParses
  <2> QED
    BY <1>1, <1>2, <2>1
<1> QED
  BY <1>1, <1>3, <1>4, <1>5, PushCases

(* The states in which a byte may make a reply.                            *)
Replying == {CRC_HIGH, DXL_MAX_PARAMS + 8}

(* There is no reply while a content is read, and none after the first     *)
(* byte behind it.                                                         *)
LEMMA NoReplyYet ==
  ASSUME NEW m \in Nat, NEW bytes \in Seq(Byte), Len(bytes) = m + 10,
         NEW state, NEW p, Parses(state, p, bytes), Parsing(p), ~p.process,
         \A n \in 0 .. m + 8 : Parsing(state[n]) /\ state[n].dxl_state \notin Replying
  PROVE  \A n \in 0 .. m + 9 : state[n].process = FALSE
<1> DEFINE Q(n) == state[n].process = FALSE
           T == {n \in Nat : n <= m + 9 => Q(n)}
<1>1. 0 \in T
  BY DEF Parses, Parsing, Packet
<1> HIDE DEF Q
<1>2. ASSUME NEW n \in Nat, n \in T PROVE n + 1 \in T
  <2> SUFFICES ASSUME n + 1 <= m + 9 PROVE Q(n + 1)
    OBVIOUS
  <2>1. n \in 0 .. m + 8 /\ n + 1 \in 1 .. Len(bytes) /\ (n + 1) - 1 = n
    OBVIOUS
  <2>2. state[n + 1] = dxl_packet_push_byte(state[n], bytes[n + 1])
    BY <2>1 DEF Parses
  <2>3. bytes[n + 1] \in Byte
    BY <2>1, ElementOfSeq
  <2>4. state[n].process = FALSE
    BY <1>2, <2>1 DEF Q
  <2> QED
    BY <2>1, <2>2, <2>3, <2>4, ProcessKept DEF Q, Replying
<1> HIDE DEF T
<1>3. Nat \subseteq T
  BY <1>1, <1>2, AllNumbers
<1> QED
  BY <1>3 DEF T, Q

(* In the middle of a packet the parser is not at the header, and there is *)
(* no reply.                                                               *)
Within(p) == p \in Packet /\ p.dxl_state # 0 /\ p.process = FALSE

(* Before its last byte a packet is no reply.                              *)
LEMMA NoReplyBefore ==
  ASSUME NEW id \in Byte, NEW instruction \in Byte,
         NEW parameters \in Seq(Byte), parameters # <<>>,
         Len(Stuffed(parameters)) + 3 < DXL_MAX_PARAMS,
         NEW p, Parsing(p), p.dxl_state = 0, ~p.process,
         NEW bytes, bytes = dxl_write_packet(id, instruction, parameters),
         NEW state, Parses(state, p, bytes)
  PROVE  /\ Len(bytes) \in Nat /\ Len(bytes) > 1
         /\ \A n \in 1 .. Len(bytes) - 1 : Within(state[n])
<1>1. PICK body : body = Stuffed(parameters)
  OBVIOUS
<1>2. PICK crc : ReadUpTo(state, bytes, id, body, crc)
  BY <1>1, PacketIsRead
<1>3. PICK m \in Nat : m = Len(body)
  BY <1>1, PacketIsRead, LenProperties
<1>4. m + 3 < DXL_MAX_PARAMS /\ DXL_MAX_PARAMS \in Nat /\ DXL_MAX_PARAMS <= 251
  BY <1>1, <1>3, MaxParams
<1>5. Len(bytes) = m + 10
  BY <1>2, <1>3 DEF ReadUpTo
<1>6. \A n \in 0 .. m + 8 : Parsing(state[n]) /\ state[n].dxl_state \notin Replying
  <2>1. ASSUME NEW n \in 0 .. m + 7 PROVE Parsing(state[n]) /\ state[n].dxl_state \notin Replying
    <3>1. Parsing(state[n]) /\ state[n].dxl_state = n
      BY <1>2, <1>3 DEF ReadUpTo, ReadSoFar
    <3>2. n \notin Replying
      BY <1>4, ParserNumbers DEF Replying
    <3> QED
      BY <3>1, <3>2
  <2>2. Parsing(state[m + 8]) /\ state[m + 8].dxl_state \notin Replying
    <3>1. Parsing(state[m + 8]) /\ state[m + 8].dxl_state = CRC_LOW
      BY <1>2, <1>3 DEF ReadUpTo, ReadAll
    <3>2. CRC_LOW \notin Replying
      BY <1>4, ParserNumbers DEF Replying
    <3> QED
      BY <3>1, <3>2
  <2> QED
    BY <2>1, <2>2
<1>7. bytes \in Seq(Byte)
  <2>1. Len(Stuffed(parameters)) + 3 < 2^16
    <3>1. PICK w : w = 2^16
      OBVIOUS
    <3>2. m + 3 < w
      BY <1>4, <3>1, Powers
    <3> QED
      BY <1>1, <1>3, <3>1, <3>2
  <2> QED
    BY <2>1, WrittenTypes
<1>8. \A n \in 0 .. m + 9 : state[n].process = FALSE
  BY <1>5, <1>6, <1>7, NoReplyYet
<1>9. ASSUME NEW n \in 1 .. m + 8 PROVE state[n] \in Packet /\ state[n].dxl_state # 0
  <2>1. CASE n = m + 8
    BY <1>2, <1>3, <2>1, ParserNumbers, ParsingTypes DEF ReadUpTo, ReadAll
  <2>2. CASE n # m + 8
    <3>1. n \in 0 .. m + 7 /\ n # 0
      BY <2>2
    <3>2. Parsing(state[n]) /\ state[n].dxl_state = n
      BY <1>2, <1>3, <3>1 DEF ReadUpTo, ReadSoFar
    <3> QED
      BY <3>1, <3>2, ParsingTypes
  <2> QED
    BY <2>1, <2>2
<1>10. state[m + 9] \in Packet /\ state[m + 9].dxl_state # 0
  <2>1. PICK b : b = bytes[m + 9]
    OBVIOUS
  <2>2. m + 9 \in 1 .. Len(bytes) /\ (m + 9) - 1 = m + 8
    BY <1>5
  <2>3. state[m + 9] = dxl_packet_push_byte(state[m + 8], b) /\ b \in Byte
    BY <1>7, <2>1, <2>2, ElementOfSeq DEF Parses
  <2>4. Parsing(state[m + 8]) /\ state[m + 8].dxl_state = CRC_LOW /\ state[m + 8] \in Packet
    BY <1>2, <1>3, ParsingTypes DEF ReadUpTo, ReadAll
  <2>5. state[m + 9] \in Packet
    BY <2>3, <2>4, ParserKeepsTypes, ParsingTypes
  <2>6. state[m + 9] = PushLow(state[m + 8], b)
    BY <2>3, <2>4, PushCases
  <2>7. state[m + 9].dxl_state = CRC_HIGH
    BY <2>4, <2>6 DEF PushLow, Packet
  <2> QED
    BY <2>5, <2>7, ParserNumbers
<1>11. ASSUME NEW n \in 1 .. m + 9 PROVE Within(state[n])
  <2>1. n \in 1 .. m + 8 \/ n = m + 9
    OBVIOUS
  <2>2. state[n] \in Packet /\ state[n].dxl_state # 0
    BY <1>9, <1>10, <2>1
  <2>3. n \in 0 .. m + 9
    OBVIOUS
  <2> QED
    BY <1>8, <2>2, <2>3 DEF Within
<1> QED
  BY <1>5, <1>11

(* How many bytes the parser can take before it is back at the header.     *)
Left(p) ==
  CASE p.dxl_state = CRC_HIGH -> 1
    [] p.dxl_state = CRC_LOW -> 2
    [] p.dxl_state <= DXL_MAX_PARAMS + 8 -> DXL_MAX_PARAMS + 11 - p.dxl_state
    [] OTHER -> 1

(* The states of the parser, in the order they are left.                   *)
LEMMA LeftCases ==
  ASSUME NEW p \in Packet
  PROVE  /\ p.dxl_state = CRC_HIGH => Left(p) = 1
         /\ p.dxl_state = CRC_LOW => Left(p) = 2
         /\ p.dxl_state <= DXL_MAX_PARAMS + 8 => Left(p) = DXL_MAX_PARAMS + 11 - p.dxl_state
         /\ p.dxl_state < CRC_LOW /\ p.dxl_state > DXL_MAX_PARAMS + 8 => Left(p) = 1
         /\ Left(p) \in Nat /\ Left(p) >= 1 /\ Left(p) <= DXL_MAX_PARAMS + 11
<1>1. p.dxl_state \in Nat /\ p.dxl_state <= CRC_HIGH
  BY Fields
<1>2. DXL_MAX_PARAMS \in Nat /\ DXL_MAX_PARAMS <= 255
  BY DxlPacketsAssumption
<1>3. CRC_LOW \in Nat /\ CRC_LOW > 300 /\ CRC_HIGH = CRC_LOW + 1
  BY ParserNumbers
<1>4. CASE p.dxl_state = CRC_HIGH
  BY <1>2, <1>3, <1>4 DEF Left
<1>5. CASE p.dxl_state = CRC_LOW
  BY <1>2, <1>3, <1>5 DEF Left
<1>6. CASE p.dxl_state <= DXL_MAX_PARAMS + 8
  BY <1>1, <1>2, <1>3, <1>6 DEF Left
<1>7. CASE p.dxl_state < CRC_LOW /\ p.dxl_state > DXL_MAX_PARAMS + 8
  BY <1>1, <1>2, <1>3, <1>7 DEF Left
<1> QED
  BY <1>1, <1>2, <1>3, <1>4, <1>5, <1>6, <1>7

(* The parser goes back to the header.                                     *)
LEMMA RestartState ==
  ASSUME NEW p \in Packet PROVE Restart(p).dxl_state = 0
<1>1. CASE p.process
  <2>1. Restart(p) = [p EXCEPT !.dxl_state = 0, !.crc16 = 0]
    BY <1>1 DEF Restart
  <2> QED
    BY <2>1 DEF Packet
<1>2. CASE ~p.process
  BY <1>2 DEF Restart, Blank
<1> QED
  BY <1>1, <1>2

(* Every byte brings it nearer.                                            *)
LEMMA PushNearer ==
  ASSUME NEW p, NEW b \in Byte, Parsing(p),
         NEW r, r = dxl_packet_push_byte(p, b), r.dxl_state # 0
  PROVE  Left(r) + 1 <= Left(p)
<1>1. p \in Packet /\ r \in Packet
  BY ParserKeepsTypes, ParsingTypes
<1>2. p.dxl_state \in Nat /\ p.dxl_state <= CRC_HIGH
  BY <1>1, Fields
<1>3. CRC_LOW \in Nat /\ CRC_LOW > 300 /\ CRC_HIGH = CRC_LOW + 1
  BY ParserNumbers
<1>4. DXL_MAX_PARAMS \in Nat /\ DXL_MAX_PARAMS <= 251
  BY MaxParams
<1>5. CASE p.dxl_state = CRC_HIGH
  <2>1. r = PushEnd(p, b)
    BY <1>5, PushEnds
  <2>2. CASE p.crc16 = 256 * b
    <3>1. PICK u : u = dxl_unstuff(SubSeq(p.parameters, 1, p.parameter_nb))
      OBVIOUS
    <3>2. r = Restart(Unstuffed(p, u))
      BY <2>1, <2>2, <3>1, Accepted
    <3>3. Unstuffed(p, u).process = TRUE
      BY <1>1 DEF Unstuffed, Packet
    <3>4. Restart(Unstuffed(p, u)).dxl_state = 0
      BY <1>1, <3>3 DEF Restart, Unstuffed, Packet
    <3> QED
      BY <3>2, <3>4
  <2>3. CASE p.crc16 # 256 * b
    <3>1. r = Restart(p)
      BY <2>1, <2>3 DEF PushEnd
    <3> QED
      BY <1>1, <3>1, RestartState
  <2> QED
    BY <2>2, <2>3
<1>6. CASE p.dxl_state = CRC_LOW
  <2>1. r = PushLow(p, b)
    BY <1>1, <1>6, PushCases
  <2>2. r.dxl_state = CRC_HIGH
    BY <1>1, <2>1 DEF PushLow, Packet
  <2>3. Left(r) = 1 /\ Left(p) = 2
    BY <1>1, <1>6, <2>2, LeftCases
  <2> QED
    BY <2>3
<1>7. CASE p.dxl_state >= DXL_MAX_PARAMS + 8 /\ p.dxl_state < CRC_LOW
  <2>1. r = PushBeyond(p, b)
    BY <1>1, <1>7, PushCases
  <2>2. p.dxl_state = DXL_MAX_PARAMS + 8
    <3>1. p.dxl_state > DXL_MAX_PARAMS + 8 => r = Restart(p)
      BY <1>1, <1>7, <2>1, BeyondParses
    <3> QED
      BY <1>1, <1>2, <1>4, <1>7, <3>1, RestartState
  <2>3. r.dxl_state = DXL_MAX_PARAMS + 9
    BY <1>1, <1>7, <2>1, <2>2, BeyondParses
  <2>4. Left(p) = 3
    <3>1. Left(p) = DXL_MAX_PARAMS + 11 - p.dxl_state
      BY <1>1, <1>2, <1>4, <2>2, LeftCases
    <3> QED
      BY <1>4, <2>2, <3>1
  <2>5. Left(r) = 1
    <3>1. r.dxl_state < CRC_LOW /\ r.dxl_state > DXL_MAX_PARAMS + 8
      BY <1>3, <1>4, <2>3
    <3> QED
      BY <1>1, <3>1, LeftCases
  <2> QED
    BY <2>4, <2>5
<1>8. CASE p.dxl_state < DXL_MAX_PARAMS + 8
  <2>1. r = PushContent(p, b)
    BY <1>1, <1>8, PushCases
  <2>2. PICK s : s = Stored(p, b)
    OBVIOUS
  <2>3. s \in Packet /\ s.dxl_state = p.dxl_state
    BY <1>1, <1>8, <2>2, StoredTypes
  <2>4. Expected(p, b)
    <3>1. ~Expected(p, b) => r = Restart(s)
      BY <2>1, <2>2 DEF PushContent
    <3> QED
      BY <2>3, <3>1, RestartState
  <2>5. p.dxl_state <= DXL_MAX_PARAMS + 8
    BY <1>2, <1>4, <1>8
  <2>6. r.dxl_state = CRC_LOW \/ r.dxl_state = p.dxl_state + 1
    BY <2>1, <2>2, <2>3, <2>4 DEF PushContent, Packet
  <2>7. Left(p) = DXL_MAX_PARAMS + 11 - p.dxl_state
    BY <1>1, <2>5, LeftCases
  <2>8. CASE r.dxl_state = CRC_LOW
    <3>1. Left(r) = 2
      BY <1>1, <2>8, LeftCases
    <3> QED
      BY <1>2, <1>4, <2>5, <2>7, <3>1
  <2>9. CASE r.dxl_state = p.dxl_state + 1
    <3>1. r.dxl_state < CRC_LOW
      BY <1>2, <1>3, <1>4, <2>5, <2>9
    <3>2. CASE p.dxl_state + 1 <= DXL_MAX_PARAMS + 8
      <4>1. Left(r) = DXL_MAX_PARAMS + 11 - (p.dxl_state + 1)
        BY <1>1, <2>9, <3>2, LeftCases
      <4> QED
        BY <1>2, <1>4, <2>7, <4>1
    <3>3. CASE ~(p.dxl_state + 1 <= DXL_MAX_PARAMS + 8)
      <4>1. r.dxl_state > DXL_MAX_PARAMS + 8
        BY <1>2, <1>4, <2>9, <3>3
      <4>2. Left(r) = 1
        BY <1>1, <3>1, <4>1, LeftCases
      <4> QED
        BY <1>2, <1>4, <2>5, <2>7, <4>2
    <3> QED
      BY <3>2, <3>3
  <2> QED
    BY <2>6, <2>8, <2>9
<1> QED
  BY <1>1, <1>2, <1>3, <1>4, <1>5, <1>6, <1>7, <1>8, PushCases

(* However the parser was left, and whatever comes, dxl_packet_push_byte   *)
(* is back at the header within DXL_MAX_PARAMS + 11 bytes: no length that  *)
(* it was told by mistake makes it wait for more.                          *)
THEOREM ParserReturns ==
  ASSUME NEW p, Parsing(p), NEW bytes \in Seq(Byte), Len(bytes) >= DXL_MAX_PARAMS + 11,
         NEW state, Parses(state, p, bytes)
  PROVE  \E n \in 0 .. DXL_MAX_PARAMS + 11 : state[n].dxl_state = 0
<1> SUFFICES ASSUME \A n \in 0 .. DXL_MAX_PARAMS + 11 : state[n].dxl_state # 0
             PROVE  FALSE
  OBVIOUS
<1>1. PICK m \in Nat : m = DXL_MAX_PARAMS + 11
  <2>1. DXL_MAX_PARAMS + 11 \in Nat
    BY DxlPacketsAssumption
  <2> QED
    BY <2>1
<1>2. Len(bytes) \in Nat /\ m <= Len(bytes)
  BY <1>1, LenProperties
<1>3. \A q \in Packet : Left(q) \in Nat /\ Left(q) >= 1 /\ Left(q) <= m
  BY <1>1, LeftCases
<1> DEFINE Near(n) == Parsing(state[n]) /\ Left(state[n]) + n <= m
           T == {n \in Nat : n <= m => Near(n)}
<1>4. 0 \in T
  <2>1. state[0] = p /\ p \in Packet
    BY ParsingTypes DEF Parses
  <2>2. Left(p) + 0 <= m
    BY <1>3, <2>1
  <2> QED
    BY <2>1, <2>2
<1> HIDE DEF Near
<1>5. ASSUME NEW n \in Nat, n \in T PROVE n + 1 \in T
  <2> SUFFICES ASSUME n + 1 <= m PROVE Near(n + 1)
    OBVIOUS
  <2>1. n + 1 \in 1 .. Len(bytes) /\ (n + 1) - 1 = n /\ n <= m /\ n + 1 \in 0 .. m
    BY <1>2
  <2>2. Near(n)
    BY <1>5, <2>1
  <2>3. PICK q : q = state[n]
    OBVIOUS
  <2>4. PICK r : r = state[n + 1]
    OBVIOUS
  <2>5. PICK b : b = bytes[n + 1]
    OBVIOUS
  <2>6. Parsing(q) /\ Left(q) + n <= m /\ q \in Packet
    BY <2>2, <2>3, ParsingTypes DEF Near
  <2>7. r = dxl_packet_push_byte(q, b) /\ b \in Byte
    BY <2>1, <2>3, <2>4, <2>5, ElementOfSeq DEF Parses
  <2>8. r.dxl_state # 0
    BY <1>1, <2>1, <2>4
  <2>9. Left(r) + 1 <= Left(q)
    BY <2>6, <2>7, <2>8, PushNearer
  <2>10. Parsing(r) /\ r \in Packet
    BY <2>6, <2>7, ParserKeepsTypes, ParsingTypes
  <2>11. Left(r) + (n + 1) <= m
    <3>1. Left(r) \in Nat /\ Left(q) \in Nat
      BY <1>3, <2>6, <2>10
    <3> QED
      BY <2>6, <2>9, <3>1
  <2> QED
    BY <2>4, <2>10, <2>11 DEF Near
<1> HIDE DEF T
<1>6. Nat \subseteq T
  BY <1>4, <1>5, AllNumbers
<1>7. Near(m)
  BY <1>1, <1>6 DEF T
<1>8. Left(state[m]) + m <= m /\ state[m] \in Packet
  BY <1>7, ParsingTypes DEF Near
<1>9. Left(state[m]) \in Nat /\ Left(state[m]) >= 1
  BY <1>3, <1>8
<1> QED
  BY <1>8, <1>9

(* A byte that cannot begin a header leaves the parser there.              *)
LEMMA NoiseStep ==
  ASSUME NEW p, NEW b \in Byte, Parsing(p), p.dxl_state = 0, b # 255
  PROVE  /\ Parsing(dxl_packet_push_byte(p, b))
         /\ dxl_packet_push_byte(p, b).dxl_state = 0
<1>1. Parsing(dxl_packet_push_byte(p, b)) /\ p \in Packet
  BY ParserKeepsTypes, ParsingTypes
<1>2. dxl_packet_push_byte(p, b) = PushContent(p, b)
  BY <1>1, MaxParams, PushCases
<1>3. ~Expected(p, b)
  BY DEF Expected, HEADER
<1>4. PICK s : s = Stored(p, b)
  OBVIOUS
<1>5. s \in Packet
  BY <1>1, <1>4, StoredTypes, MaxParams
<1>6. dxl_packet_push_byte(p, b) = Restart(s)
  BY <1>2, <1>3, <1>4 DEF PushContent
<1> QED
  BY <1>1, <1>5, <1>6, RestartState

(* From the header, dxl_packet_push_byte reads a packet behind the end of  *)
(* another, when none of the bytes that are left of it is 255.             *)
THEOREM NoiseIsSkipped ==
  ASSUME NEW id \in Byte, NEW instruction \in Byte,
         NEW parameters \in Seq(Byte), parameters # <<>>,
         Len(Stuffed(parameters)) + 3 < DXL_MAX_PARAMS,
         NEW p, Parsing(p), p.dxl_state = 0,
         NEW noise \in Seq(Byte), \A i \in 1 .. Len(noise) : noise[i] # 255,
         NEW packetBytes, packetBytes = dxl_write_packet(id, instruction, parameters),
         NEW state, Parses(state, p, noise \o packetBytes)
  PROVE  state[Len(noise) + Len(packetBytes)] = Accepting(id, parameters, 0, 0)
<1>1. PICK u : u = noise \o packetBytes
  OBVIOUS
<1>2. packetBytes \in Seq(Byte)
  <2>1. Len(Stuffed(parameters)) + 3 < 2^16
    <3>1. PICK w : w = 2^16
      OBVIOUS
    <3>2. Len(Stuffed(parameters)) + 3 <= 255
      BY MaxParams, AllUndone DEF Undone
    <3>3. w = 65536 /\ Len(Stuffed(parameters)) \in Nat
      BY <3>1, Powers, AllUndone DEF Undone
    <3> QED
      BY <3>1, <3>2, <3>3
  <2> QED
    BY <2>1, WrittenTypes
<1>3. Joined(u, noise, packetBytes)
  BY <1>1, <1>2, BytePlaces, Zenon
<1>4. PICK a \in Nat, k \in Nat : a = Len(noise) /\ k = Len(packetBytes)
  BY <1>2, LenProperties
<1>5. /\ Len(u) = a + k
      /\ \A i \in 1 .. a : u[i] = noise[i]
      /\ \A i \in 1 .. k : u[a + i] = packetBytes[i]
  BY <1>3, <1>4 DEF Joined
<1>6. /\ state[0] = p
      /\ \A n \in 1 .. a + k : state[n] = dxl_packet_push_byte(state[n-1], u[n])
  BY <1>1, <1>5 DEF Parses
<1> DEFINE AtHeader(n) == Parsing(state[n]) /\ state[n].dxl_state = 0
           T == {n \in Nat : n <= a => AtHeader(n)}
<1>7. 0 \in T
  BY <1>6
<1> HIDE DEF AtHeader
<1>8. ASSUME NEW n \in Nat, n \in T PROVE n + 1 \in T
  <2> SUFFICES ASSUME n + 1 <= a PROVE AtHeader(n + 1)
    OBVIOUS
  <2>1. n + 1 \in 1 .. a /\ n + 1 \in 1 .. a + k /\ (n + 1) - 1 = n
    BY <1>4
  <2>2. PICK b : b = noise[n + 1]
    OBVIOUS
  <2>3. b \in Byte /\ b # 255 /\ u[n + 1] = b
    BY <1>4, <1>5, <2>1, <2>2, ElementOfSeq
  <2>4. state[n + 1] = dxl_packet_push_byte(state[n], b)
    BY <1>6, <2>1, <2>3
  <2>5. Parsing(state[n]) /\ state[n].dxl_state = 0
    BY <1>8, <2>1 DEF AtHeader
  <2> QED
    BY <2>3, <2>4, <2>5, NoiseStep DEF AtHeader
<1> HIDE DEF T
<1>9. Nat \subseteq T
  BY <1>7, <1>8, AllNumbers
<1>10. PICK q : q = state[a]
  OBVIOUS
<1>11. Parsing(q) /\ q.dxl_state = 0
  BY <1>9, <1>10 DEF T, AtHeader
<1> DEFINE later == [n \in 0 .. k |-> state[a + n]]
<1>12. \A n \in 0 .. k : later[n] = state[a + n]
  OBVIOUS
<1> HIDE DEF later
<1>13. Parses(later, q, packetBytes)
  <2>1. later[0] = q
    BY <1>4, <1>10, <1>12
  <2>2. ASSUME NEW n \in 1 .. k PROVE later[n] = dxl_packet_push_byte(later[n-1], packetBytes[n])
    <3>1. a + n \in 1 .. a + k /\ (a + n) - 1 = a + (n - 1) /\ n - 1 \in 0 .. k /\ n \in 0 .. k
      BY <1>4
    <3>2. state[a + n] = dxl_packet_push_byte(state[(a + n) - 1], u[a + n])
      BY <1>6, <3>1
    <3>3. u[a + n] = packetBytes[n]
      BY <1>5
    <3>4. later[n] = state[a + n] /\ later[n-1] = state[a + (n - 1)]
      BY <1>12, <3>1
    <3> QED
      BY <3>1, <3>2, <3>3, <3>4
  <2> QED
    BY <1>4, <2>1, <2>2 DEF Parses
<1>14. later[Len(packetBytes)] = Accepting(id, parameters, 0, 0)
  BY <1>11, <1>13, WrittenIsRead
<1>15. later[k] = state[a + k]
  BY <1>4, <1>12
<1> QED
  BY <1>4, <1>14, <1>15
-----------------------------------------------------------------------------
(* What the checksum finds.  Going backward through the division, the      *)
(* place of the bits that were turned can be told from the last bit of     *)
(* each word, and two words agree in as many low bits as are not shifted   *)
(* in yet: after sixteen steps two bytes are told from the checksum.       *)

(* Two numbers that leave the same rest when divided by M.                 *)
Cong(x, y, M) == \E q \in Int : x = y + M * q

(* A bit that is turned, and the same bit of another number an even number *)
(* of places away.                                                         *)
LEMMA EvenPlaces ==
  ASSUME NEW x \in Nat, NEW y \in Nat, NEW p \in {1, 4, 32768}, NEW z \in Int,
         y = x + p * (2 * z)
  PROVE  (x \div p) % 2 = (y \div p) % 2
<1>1. PICK a \in Int, b \in Int : a = x \div p /\ b = y \div p
  <2>1. x \div p \in Int /\ y \div p \in Int
    OBVIOUS
  <2> QED
    BY <2>1
<1>2. b = a + 2 * z
  <2>1. CASE p = 1
    BY <1>1, <2>1, SMT
  <2>2. CASE p = 4
    BY <1>1, <2>2, SMT
  <2>3. CASE p = 32768
    BY <1>1, <2>3, SMT
  <2> QED
    BY <2>1, <2>2, <2>3
<1>3. a % 2 = b % 2
  BY <1>2, SMT
<1> QED
  BY <1>1, <1>3

(* Turning the same bit of two numbers, as one formula.                    *)
Turned(u, x, p) == u = IF (x \div p) % 2 = 0 THEN x + p ELSE x - p

(* Turning one of the bits of the polynomial.                               *)
LEMMA FlipTurns ==
  ASSUME NEW word
  PROVE  /\ Turned(Flip(word, 0), word, 1)
         /\ Turned(Flip(word, 2), word, 4)
         /\ Turned(Flip(word, 15), word, 32768)
<1>1. PICK p0 : p0 = 2^0
  OBVIOUS
<1>2. PICK p2 : p2 = 2^2
  OBVIOUS
<1>3. PICK p15 : p15 = 2^15
  OBVIOUS
<1>4. p0 = 1 /\ p2 = 4 /\ p15 = 32768
  BY <1>1, <1>2, <1>3, Powers
<1>5. Turned(Flip(word, 0), word, p0) /\ Turned(Flip(word, 2), word, p2)
      /\ Turned(Flip(word, 15), word, p15)
  BY <1>1, <1>2, <1>3 DEF Turned, Flip
<1> QED
  BY <1>4, <1>5

(* The place of a bit and a modulus, one of which divides the other.       *)
Fits(p, M) == (\E e \in Nat : M = (2 * p) * e) \/ (\E e \in Nat : p = M * e)

(* Numbers that agree after a bit of both was turned agreed before.        *)
LEMMA TurnedCong ==
  ASSUME NEW x \in Nat, NEW y \in Nat, NEW p \in {1, 4, 32768}, NEW u, NEW v,
         Turned(u, x, p), Turned(v, y, p), NEW M \in Nat, Cong(u, v, M), Fits(p, M)
  PROVE  Cong(x, y, M)
<1>0. p \in Nat
  OBVIOUS
<1>1. PICK q \in Int : u = v + M * q
  BY DEF Cong
<1>2. CASE ((x \div p) % 2 = 0) <=> ((y \div p) % 2 = 0)
  <2>1. x - y = u - v
    BY <1>0, <1>2 DEF Turned
  <2>2. M * q \in Int
    OBVIOUS
  <2>3. v \in Int
    BY <1>0 DEF Turned
  <2>4. x = y + M * q
    BY <1>0, <1>1, <2>1, <2>2, <2>3
  <2> QED
    BY <2>4 DEF Cong
<1>3. CASE ~(((x \div p) % 2 = 0) <=> ((y \div p) % 2 = 0))
  <2>1. (u - v) - (x - y) = 2 * p \/ (u - v) - (x - y) = -(2 * p)
    BY <1>0, <1>3 DEF Turned
  <2>2. u \in Int /\ v \in Int /\ M * q \in Int
    BY <1>0 DEF Turned
  <2>3. PICK d \in {1, -1} : y = x + d * (2 * p) - M * q
    <3>1. y = x + 1 * (2 * p) - M * q \/ y = x + (-1) * (2 * p) - M * q
      BY <1>0, <1>1, <2>1, <2>2
    <3> QED
      BY <3>1
  <2>4. CASE \E e \in Nat : M = (2 * p) * e
    <3>1. PICK e \in Nat : M = (2 * p) * e
      BY <2>4
    <3>2. PICK z \in Int : z = d - e * q
      <4>1. d - e * q \in Int
        OBVIOUS
      <4> QED
        BY <4>1
    <3>3. y = x + p * (2 * z)
      <4>1. M * q = p * (2 * (e * q))
        BY <1>0, <3>1
      <4>2. PICK f \in Int : f = e * q
        <5>1. e * q \in Int
          OBVIOUS
        <5> QED
          BY <5>1
      <4>3. CASE p = 1
        BY <2>3, <3>2, <4>1, <4>2, <4>3
      <4>4. CASE p = 4
        BY <2>3, <3>2, <4>1, <4>2, <4>4
      <4>5. CASE p = 32768
        BY <2>3, <3>2, <4>1, <4>2, <4>5
      <4> QED
        BY <4>3, <4>4, <4>5
    <3>4. (x \div p) % 2 = (y \div p) % 2
      BY <3>3, EvenPlaces
    <3> QED
      BY <1>3, <3>4
  <2>5. CASE \E e \in Nat : p = M * e
    <3>1. PICK e \in Nat : p = M * e
      BY <2>5
    <3>2. x = y + M * (q - d * (2 * e))
      <4>1. CASE d = 1
        BY <2>3, <3>1, <4>1
      <4>2. CASE d = -1
        BY <2>3, <3>1, <4>2
      <4> QED
        BY <4>1, <4>2
    <3>3. q - d * (2 * e) \in Int
      OBVIOUS
    <3> QED
      BY <3>2, <3>3 DEF Cong
  <2> QED
    BY <2>4, <2>5 DEF Fits
<1> QED
  BY <1>2, <1>3

(* Turning a bit keeps a number natural.                                   *)
LEMMA TurnedNat ==
  ASSUME NEW x \in Nat, NEW p \in {1, 4, 32768}, NEW u, Turned(u, x, p)
  PROVE  u \in Nat /\ (p # 1 => u % 2 = x % 2) /\ (p = 1 => u % 2 # x % 2)
<1>1. CASE p = 1
  <2>1. x \div 1 = x
    OBVIOUS
  <2>2. u = IF x % 2 = 0 THEN x + 1 ELSE x - 1
    BY <1>1, <2>1 DEF Turned
  <2> QED
    BY <1>1, <2>2
<1>2. CASE p = 4
  <2>1. PICK a \in Nat : a = x \div 4
    OBVIOUS
  <2>2. u = IF a % 2 = 0 THEN x + 4 ELSE x - 4
    BY <1>2, <2>1 DEF Turned
  <2>3. a % 2 # 0 => a >= 1
    BY <2>1
  <2>4. 4 * a <= x
    BY <2>1
  <2>5. u = x + 2 * 2 \/ u = x + 2 * (-2)
    BY <2>2
  <2>6. u \in Nat
    BY <2>2, <2>3, <2>4
  <2> QED
    BY <1>2, <2>5, <2>6
<1>3. CASE p = 32768
  <2>1. PICK a \in Nat : a = x \div 32768
    OBVIOUS
  <2>2. u = IF a % 2 = 0 THEN x + 32768 ELSE x - 32768
    BY <1>3, <2>1 DEF Turned
  <2>3. a % 2 # 0 => a >= 1
    BY <2>1
  <2>4. 32768 * a <= x
    BY <2>1
  <2>5. u = x + 2 * 16384 \/ u = x + 2 * (-16384)
    BY <2>2
  <2>6. u \in Nat
    BY <2>2, <2>3, <2>4
  <2> QED
    BY <1>3, <2>5, <2>6
<1> QED
  BY <1>1, <1>2, <1>3

(* The polynomial: d is s with its bits 0, 2 and 15 turned.                *)
Poly(d, s) == \E a, b \in Nat : Turned(a, s, 1) /\ Turned(b, a, 4) /\ Turned(d, b, 32768)

(* One step of the division of w, s being w shifted and t the bit it loses.*)
Divides(d, w, bit, s, t) ==
  /\ d \in Nat /\ s \in Nat /\ s <= 65535 /\ t \in {0, 1} /\ 2 * w = s + 65536 * t
  /\ t = bit => d = s /\ d % 2 = 0
  /\ t # bit => Poly(d, s) /\ d % 2 = 1

(* A word shifted: the bit it loses, and an even number.                   *)
LEMMA ShiftedWord ==
  ASSUME NEW w \in Nat, w <= 65535
  PROVE  \E s \in Nat, t \in {0, 1} :
           /\ s = (2 * w) % 65536 /\ t = w \div 32768 /\ 2 * w = s + 65536 * t
           /\ s <= 65535 /\ s % 2 = 0
<1>1. PICK t \in Nat : t = w \div 32768
  OBVIOUS
<1>2. t \in {0, 1}
  BY <1>1
<1>3. PICK s \in Nat : s = (2 * w) % 65536
  OBVIOUS
<1>4. 2 * w = s + 65536 * t
  <2>1. CASE t = 0
    BY <1>1, <1>3, <2>1
  <2>2. CASE t = 1
    <3>1. 32768 <= w
      BY <1>1, <2>2
    <3> QED
      BY <1>3, <2>2, <3>1
  <2> QED
    BY <1>2, <2>1, <2>2
<1>5. s = 2 * (w - 32768 * t)
  BY <1>2, <1>4
<1>6. s % 2 = 0
  <2>1. PICK v \in Int : v = w - 32768 * t
    OBVIOUS
  <2> QED
    BY <1>5, <2>1
<1>7. s <= 65535
  BY <1>3
<1> QED
  BY <1>1, <1>2, <1>3, <1>4, <1>6, <1>7

(* What the table makes of a word is such a step.                          *)
LEMMA DividedIs ==
  ASSUME NEW w \in Word, NEW bit
  PROVE  \E s, t : Divides(Divided(bit)[w], w, bit, s, t)
<1>1. w \in Nat /\ w <= 65535
  BY Words
<1>2. PICK s \in Nat, t \in {0, 1} :
        /\ s = (2 * w) % 65536 /\ t = w \div 32768 /\ 2 * w = s + 65536 * t
        /\ s <= 65535 /\ s % 2 = 0
  BY <1>1, ShiftedWord
<1>3. PICK d : d = Divided(bit)[w]
  OBVIOUS
<1>4. d = IF t = bit THEN s ELSE Flip(Flip(Flip(s, 0), 2), 15)
  <2>1. PICK m : m = 2^16
    OBVIOUS
  <2>2. PICK h : h = 2^15
    OBVIOUS
  <2>3. m = 65536 /\ h = 32768
    BY <2>1, <2>2, Powers
  <2>4. d = IF w \div h = bit THEN (2 * w) % m ELSE Flip(Flip(Flip((2 * w) % m, 0), 2), 15)
    BY <1>3, <2>1, <2>2, Zenon DEF Divided
  <2> QED
    BY <1>2, <2>3, <2>4
<1>5. CASE t = bit
  BY <1>2, <1>3, <1>4, <1>5 DEF Divides
<1>6. CASE t # bit
  <2>1. PICK a : a = Flip(s, 0)
    OBVIOUS
  <2>2. PICK b : b = Flip(a, 2)
    OBVIOUS
  <2>3. d = Flip(b, 15)
    BY <1>4, <1>6, <2>1, <2>2
  <2>4. Turned(a, s, 1) /\ Turned(b, a, 4) /\ Turned(d, b, 32768)
    BY <2>1, <2>2, <2>3, FlipTurns
  <2>5. a \in Nat /\ a % 2 # s % 2
    BY <2>4, TurnedNat
  <2>6. b \in Nat /\ b % 2 = a % 2
    BY <2>4, <2>5, TurnedNat
  <2>7. d \in Nat /\ d % 2 = b % 2
    BY <2>4, <2>6, TurnedNat
  <2>8. d % 2 = 1
    <3>1. a % 2 = 1
      <4>1. a % 2 = 0 \/ a % 2 = 1
        BY <2>5
      <4> QED
        BY <1>2, <2>5, <4>1
    <3> QED
      BY <2>6, <2>7, <3>1
  <2>9. Poly(d, s)
    BY <2>4, <2>5, <2>6 DEF Poly
  <2> QED
    BY <1>2, <1>3, <1>6, <2>7, <2>8, <2>9 DEF Divides
<1> QED
  BY <1>5, <1>6

(* The moduli: half a word, and its halves down to 1.                      *)
Halves == {1, 2, 4, 8, 16, 32, 64, 128, 256, 512, 1024, 2048, 4096, 8192, 16384, 32768}

(* Each divides half a word, and fits the bits of the polynomial.          *)
LEMMA HalvesDivide ==
  ASSUME NEW N \in Halves
  PROVE  /\ N \in Nat
         /\ \E g \in Nat : 32768 = N * g
         /\ Fits(1, 2 * N) /\ Fits(4, 2 * N) /\ Fits(32768, 2 * N)
<1>1. \E g \in Nat : 32768 = N * g
  <2>1. 32768 = N * (32768 \div N) /\ (32768 \div N) \in Nat
    BY DEF Halves
  <2> QED
    BY <2>1
<1>2. Fits(1, 2 * N)
  BY DEF Halves, Fits
<1>3. Fits(4, 2 * N)
  <2>1. CASE N = 1
    <3>1. 4 = (2 * N) * 2
      BY <2>1
    <3> QED
      BY <3>1 DEF Fits
  <2>2. CASE N = 2
    <3>1. 4 = (2 * N) * 1
      BY <2>2
    <3> QED
      BY <3>1 DEF Fits
  <2>3. CASE N # 1 /\ N # 2
    <3>1. 2 * N = (2 * 4) * (N \div 4) /\ (N \div 4) \in Nat
      BY <2>3 DEF Halves
    <3> QED
      BY <3>1 DEF Fits
  <2> QED
    BY <2>1, <2>2, <2>3
<1>4. Fits(32768, 2 * N)
  <2>1. CASE N = 32768
    <3>1. 2 * N = (2 * 32768) * 1
      BY <2>1
    <3> QED
      BY <3>1 DEF Fits
  <2>2. CASE N # 32768
    <3>1. 32768 = (2 * N) * (16384 \div N) /\ (16384 \div N) \in Nat
      BY <2>2 DEF Halves
    <3> QED
      BY <3>1 DEF Fits
  <2> QED
    BY <2>1, <2>2
<1>5. N \in Nat
  BY DEF Halves
<1> QED
  BY <1>1, <1>2, <1>3, <1>4, <1>5

(* What agrees after the polynomial was turned agreed before.              *)
LEMMA PolyCong ==
  ASSUME NEW x \in Nat, NEW y \in Nat, NEW u, NEW v, Poly(u, x), Poly(v, y),
         NEW N \in Halves, Cong(u, v, 2 * N)
  PROVE  Cong(x, y, 2 * N)
<1>1. PICK M \in Nat : M = 2 * N
  <2>1. 2 * N \in Nat
    BY HalvesDivide
  <2> QED
    BY <2>1
<1>2. Fits(1, M) /\ Fits(4, M) /\ Fits(32768, M)
  BY <1>1, HalvesDivide
<1>3. PICK a \in Nat, b \in Nat : Turned(a, x, 1) /\ Turned(b, a, 4) /\ Turned(u, b, 32768)
  BY DEF Poly
<1>4. PICK f \in Nat, g \in Nat : Turned(f, y, 1) /\ Turned(g, f, 4) /\ Turned(v, g, 32768)
  BY DEF Poly
<1>5. Cong(u, v, M)
  BY <1>1
<1>6. Cong(b, g, M)
  <2>1. Turned(u, b, 32768) /\ Turned(v, g, 32768)
    BY <1>3, <1>4
  <2> QED
    BY <1>2, <1>5, <2>1, TurnedCong
<1>7. Cong(a, f, M)
  <2>1. Turned(b, a, 4) /\ Turned(g, f, 4)
    BY <1>3, <1>4
  <2> QED
    BY <1>2, <1>6, <2>1, TurnedCong
<1>8. Cong(x, y, M)
  <2>1. Turned(a, x, 1) /\ Turned(f, y, 1)
    BY <1>3, <1>4
  <2> QED
    BY <1>2, <1>7, <2>1, TurnedCong
<1> QED
  BY <1>1, <1>8

(* One step backward: the results agree only if the same bits were turned, *)
(* and the words before agreed but for their highest bit.                  *)
LEMMA StepBack ==
  ASSUME NEW w \in Nat, NEW v \in Nat, NEW bit \in {0, 1}, NEW bit2 \in {0, 1},
         NEW d, NEW e, NEW s, NEW t, NEW r, NEW q,
         Divides(d, w, bit, s, t), Divides(e, v, bit2, r, q),
         NEW N \in Halves, Cong(d, e, 2 * N)
  PROVE  (t = bit <=> q = bit2) /\ Cong(s, r, 2 * N) /\ Cong(w, v, N)
<1>1. N \in Nat
  BY HalvesDivide
<1>2. /\ d \in Nat /\ s \in Nat /\ t \in {0, 1} /\ 2 * w = s + 65536 * t
      /\ e \in Nat /\ r \in Nat /\ q \in {0, 1} /\ 2 * v = r + 65536 * q
  BY DEF Divides
<1>3. d % 2 = e % 2
  <2>1. PICK z \in Int : d = e + (2 * N) * z
    BY DEF Cong
  <2>2. PICK y \in Int : y = N * z
    <3>1. N * z \in Int
      BY <1>1
    <3> QED
      BY <3>1
  <2>3. (2 * N) * z = 2 * (N * z)
    BY <1>1
  <2>4. d = e + 2 * y
    BY <2>1, <2>2, <2>3
  <2> QED
    BY <1>2, <2>4
<1>4. t = bit <=> q = bit2
  BY <1>3 DEF Divides
<1>5. Cong(s, r, 2 * N)
  <2>1. CASE t = bit
    <3>1. d = s /\ e = r
      BY <1>4, <2>1 DEF Divides
    <3> QED
      BY <3>1
  <2>2. CASE t # bit
    <3>1. Poly(d, s) /\ Poly(e, r)
      BY <1>4, <2>2 DEF Divides
    <3> QED
      BY <1>2, <3>1, PolyCong
  <2> QED
    BY <2>1, <2>2
<1>6. Cong(w, v, N)
  <2>1. PICK z \in Int : s = r + (2 * N) * z
    BY <1>5 DEF Cong
  <2>2. PICK g \in Nat : 32768 = N * g
    BY HalvesDivide
  <2>3. PICK y \in Int : y = N * z
    <3>1. N * z \in Int
      BY <1>1
    <3> QED
      BY <3>1
  <2>4. (2 * N) * z = 2 * y
    BY <1>1, <2>3
  <2>5. w = v + y + 32768 * (t - q)
    <3>1. s = r + 2 * y
      BY <2>1, <2>4
    <3> QED
      BY <1>2, <2>3, <3>1
  <2>6. PICK k \in {0, 1, -1} : k = t - q
    BY <1>2
  <2>7. N * (z + g * k) = y + 32768 * k
    <3>1. N * (z + g * k) = N * z + (N * g) * k
      BY <1>1
    <3> QED
      BY <2>2, <2>3, <3>1
  <2>8. z + g * k \in Int
    OBVIOUS
  <2>9. w = v + N * (z + g * k)
    BY <2>5, <2>6, <2>7
  <2> QED
    BY <2>8, <2>9 DEF Cong
<1> QED
  BY <1>4, <1>5, <1>6

(* So much for one bit that is divided.  The same of the table of the bits *)
(* of a byte.                                                              *)
LEMMA StepSame ==
  ASSUME NEW w \in Word, NEW v \in Word, NEW bit \in {0, 1}, NEW bit2 \in {0, 1},
         NEW N \in Halves, Cong(Divided(bit)[w], Divided(bit2)[v], 2 * N)
  PROVE  /\ Cong(w, v, N)
         /\ w = v => bit = bit2
         /\ N = 32768 /\ bit = bit2 => w = v
<1>1. w \in Nat /\ v \in Nat
  BY Words
<1>2. PICK s, t : Divides(Divided(bit)[w], w, bit, s, t)
  BY DividedIs
<1>3. PICK r, q : Divides(Divided(bit2)[v], v, bit2, r, q)
  BY DividedIs
<1>4. (t = bit <=> q = bit2) /\ Cong(s, r, 2 * N) /\ Cong(w, v, N)
  BY <1>1, <1>2, <1>3, StepBack
<1>5. /\ s \in Nat /\ s <= 65535 /\ t \in {0, 1} /\ 2 * w = s + 65536 * t
      /\ r \in Nat /\ r <= 65535 /\ q \in {0, 1} /\ 2 * v = r + 65536 * q
  BY <1>2, <1>3 DEF Divides
<1>6. w = v => bit = bit2
  <2> SUFFICES ASSUME w = v PROVE bit = bit2
    OBVIOUS
  <2>1. t = q
    BY <1>1, <1>5
  <2> QED
    BY <1>4, <1>5, <2>1
<1>7. ASSUME N = 32768, bit = bit2 PROVE w = v
  <2>1. t = q
    BY <1>4, <1>5, <1>7
  <2>2. PICK z \in Int : s = r + (2 * 32768) * z
    BY <1>4, <1>7 DEF Cong
  <2>3. s = r
    BY <1>5, <2>2
  <2> QED
    BY <1>1, <1>5, <2>1, <2>3
<1> QED
  BY <1>4, <1>6, <1>7

(* The bits of a byte.                                                     *)
Bit(byte, k) == (byte \div 2^k) % 2

(* The places of the other bits of a byte.                                 *)
LEMMA MorePowers == 2^1 = 2 /\ 2^3 = 8 /\ 2^4 = 16 /\ 2^5 = 32 /\ 2^6 = 64 /\ 2^7 = 128
BY SMT

(* The bits, without powers.                                               *)
LEMMA BitIs ==
  ASSUME NEW b \in Byte
  PROVE  /\ Bit(b, 0) = (b \div 1) % 2
         /\ Bit(b, 1) = (b \div 2) % 2
         /\ Bit(b, 2) = (b \div 4) % 2
         /\ Bit(b, 3) = (b \div 8) % 2
         /\ Bit(b, 4) = (b \div 16) % 2
         /\ Bit(b, 5) = (b \div 32) % 2
         /\ Bit(b, 6) = (b \div 64) % 2
         /\ Bit(b, 7) = (b \div 128) % 2
<1>0. Bit(b, 0) = (b \div 1) % 2
  <2>1. PICK p : p = 2^0
    OBVIOUS
  <2>2. p = 1
    BY <2>1, Powers
  <2> QED
    BY <2>1, <2>2, Zenon DEF Bit
<1>1. Bit(b, 1) = (b \div 2) % 2
  <2>1. PICK p : p = 2^1
    OBVIOUS
  <2>2. p = 2
    BY <2>1, MorePowers
  <2> QED
    BY <2>1, <2>2, Zenon DEF Bit
<1>2. Bit(b, 2) = (b \div 4) % 2
  <2>1. PICK p : p = 2^2
    OBVIOUS
  <2>2. p = 4
    BY <2>1, Powers
  <2> QED
    BY <2>1, <2>2, Zenon DEF Bit
<1>3. Bit(b, 3) = (b \div 8) % 2
  <2>1. PICK p : p = 2^3
    OBVIOUS
  <2>2. p = 8
    BY <2>1, MorePowers
  <2> QED
    BY <2>1, <2>2, Zenon DEF Bit
<1>4. Bit(b, 4) = (b \div 16) % 2
  <2>1. PICK p : p = 2^4
    OBVIOUS
  <2>2. p = 16
    BY <2>1, MorePowers
  <2> QED
    BY <2>1, <2>2, Zenon DEF Bit
<1>5. Bit(b, 5) = (b \div 32) % 2
  <2>1. PICK p : p = 2^5
    OBVIOUS
  <2>2. p = 32
    BY <2>1, MorePowers
  <2> QED
    BY <2>1, <2>2, Zenon DEF Bit
<1>6. Bit(b, 6) = (b \div 64) % 2
  <2>1. PICK p : p = 2^6
    OBVIOUS
  <2>2. p = 64
    BY <2>1, MorePowers
  <2> QED
    BY <2>1, <2>2, Zenon DEF Bit
<1>7. Bit(b, 7) = (b \div 128) % 2
  <2>1. PICK p : p = 2^7
    OBVIOUS
  <2>2. p = 128
    BY <2>1, MorePowers
  <2> QED
    BY <2>1, <2>2, Zenon DEF Bit
<1> QED
  BY <1>0, <1>1, <1>2, <1>3, <1>4, <1>5, <1>6, <1>7

(* They are 0 or 1.                                                        *)
LEMMA BitsAreBits ==
  ASSUME NEW b \in Byte, NEW k \in 0 .. 7
  PROVE  Bit(b, k) \in {0, 1}
<1>1. b \in Nat
  BY Bytes
<1>2. \A p \in Nat \ {0} : (b \div p) % 2 \in {0, 1}
  <2> SUFFICES ASSUME NEW p \in Nat \ {0} PROVE (b \div p) % 2 \in {0, 1}
    OBVIOUS
  <2>1. PICK q \in Nat : q = b \div p
    BY <1>1
  <2> QED
    BY <2>1
<1>3. k = 0 \/ k = 1 \/ k = 2 \/ k = 3 \/ k = 4 \/ k = 5 \/ k = 6 \/ k = 7
  OBVIOUS
<1> QED
  BY <1>2, <1>3, BitIs

(* A number shifted to the right, bit by bit.                              *)
LEMMA HalfAgain ==
  ASSUME NEW b \in Nat
  PROVE  /\ b \div 1 = 2 * (b \div 2) + ((b \div 1) % 2)
         /\ b \div 2 = 2 * (b \div 4) + ((b \div 2) % 2)
         /\ b \div 4 = 2 * (b \div 8) + ((b \div 4) % 2)
         /\ b \div 8 = 2 * (b \div 16) + ((b \div 8) % 2)
         /\ b \div 16 = 2 * (b \div 32) + ((b \div 16) % 2)
         /\ b \div 32 = 2 * (b \div 64) + ((b \div 32) % 2)
         /\ b \div 64 = 2 * (b \div 128) + ((b \div 64) % 2)
<1>1. b \div 1 = 2 * (b \div 2) + ((b \div 1) % 2)
  <2>1. PICK q \in Nat : q = b \div 1
    OBVIOUS
  <2>2. PICK h \in Nat : h = b \div 2
    OBVIOUS
  <2>3. 1 * q <= b /\ b < 1 * q + 1
    BY <2>1
  <2>4. 2 * h <= b /\ b < 2 * h + 2
    BY <2>2
  <2>5. q = 2 * h \/ q = 2 * h + 1
    BY <2>3, <2>4
  <2>6. q = 2 * h + (q % 2)
    BY <2>5
  <2> QED
    BY <2>1, <2>2, <2>6
<1>2. b \div 2 = 2 * (b \div 4) + ((b \div 2) % 2)
  <2>1. PICK q \in Nat : q = b \div 2
    OBVIOUS
  <2>2. PICK h \in Nat : h = b \div 4
    OBVIOUS
  <2>3. 2 * q <= b /\ b < 2 * q + 2
    BY <2>1
  <2>4. 4 * h <= b /\ b < 4 * h + 4
    BY <2>2
  <2>5. q = 2 * h \/ q = 2 * h + 1
    BY <2>3, <2>4
  <2>6. q = 2 * h + (q % 2)
    BY <2>5
  <2> QED
    BY <2>1, <2>2, <2>6
<1>3. b \div 4 = 2 * (b \div 8) + ((b \div 4) % 2)
  <2>1. PICK q \in Nat : q = b \div 4
    OBVIOUS
  <2>2. PICK h \in Nat : h = b \div 8
    OBVIOUS
  <2>3. 4 * q <= b /\ b < 4 * q + 4
    BY <2>1
  <2>4. 8 * h <= b /\ b < 8 * h + 8
    BY <2>2
  <2>5. q = 2 * h \/ q = 2 * h + 1
    BY <2>3, <2>4
  <2>6. q = 2 * h + (q % 2)
    BY <2>5
  <2> QED
    BY <2>1, <2>2, <2>6
<1>4. b \div 8 = 2 * (b \div 16) + ((b \div 8) % 2)
  <2>1. PICK q \in Nat : q = b \div 8
    OBVIOUS
  <2>2. PICK h \in Nat : h = b \div 16
    OBVIOUS
  <2>3. 8 * q <= b /\ b < 8 * q + 8
    BY <2>1
  <2>4. 16 * h <= b /\ b < 16 * h + 16
    BY <2>2
  <2>5. q = 2 * h \/ q = 2 * h + 1
    BY <2>3, <2>4
  <2>6. q = 2 * h + (q % 2)
    BY <2>5
  <2> QED
    BY <2>1, <2>2, <2>6
<1>5. b \div 16 = 2 * (b \div 32) + ((b \div 16) % 2)
  <2>1. PICK q \in Nat : q = b \div 16
    OBVIOUS
  <2>2. PICK h \in Nat : h = b \div 32
    OBVIOUS
  <2>3. 16 * q <= b /\ b < 16 * q + 16
    BY <2>1
  <2>4. 32 * h <= b /\ b < 32 * h + 32
    BY <2>2
  <2>5. q = 2 * h \/ q = 2 * h + 1
    BY <2>3, <2>4
  <2>6. q = 2 * h + (q % 2)
    BY <2>5
  <2> QED
    BY <2>1, <2>2, <2>6
<1>6. b \div 32 = 2 * (b \div 64) + ((b \div 32) % 2)
  <2>1. PICK q \in Nat : q = b \div 32
    OBVIOUS
  <2>2. PICK h \in Nat : h = b \div 64
    OBVIOUS
  <2>3. 32 * q <= b /\ b < 32 * q + 32
    BY <2>1
  <2>4. 64 * h <= b /\ b < 64 * h + 64
    BY <2>2
  <2>5. q = 2 * h \/ q = 2 * h + 1
    BY <2>3, <2>4
  <2>6. q = 2 * h + (q % 2)
    BY <2>5
  <2> QED
    BY <2>1, <2>2, <2>6
<1>7. b \div 64 = 2 * (b \div 128) + ((b \div 64) % 2)
  <2>1. PICK q \in Nat : q = b \div 64
    OBVIOUS
  <2>2. PICK h \in Nat : h = b \div 128
    OBVIOUS
  <2>3. 64 * q <= b /\ b < 64 * q + 64
    BY <2>1
  <2>4. 128 * h <= b /\ b < 128 * h + 128
    BY <2>2
  <2>5. q = 2 * h \/ q = 2 * h + 1
    BY <2>3, <2>4
  <2>6. q = 2 * h + (q % 2)
    BY <2>5
  <2> QED
    BY <2>1, <2>2, <2>6
<1> QED
  BY <1>1, <1>2, <1>3, <1>4, <1>5, <1>6, <1>7

(* A byte is told by its bits.                                             *)
LEMMA BitsTell ==
  ASSUME NEW b \in Byte, NEW c \in Byte, \A k \in 0 .. 7 : Bit(b, k) = Bit(c, k)
  PROVE  b = c
<1>0. b \in Nat /\ c \in Nat /\ b <= 255 /\ c <= 255
  BY Bytes
<1>1. Bit(b, 0) = (b \div 1) % 2 /\ Bit(c, 0) = (c \div 1) % 2 /\ Bit(b, 0) = Bit(c, 0)
  BY BitIs
<1>2. Bit(b, 1) = (b \div 2) % 2 /\ Bit(c, 1) = (c \div 2) % 2 /\ Bit(b, 1) = Bit(c, 1)
  BY BitIs
<1>3. Bit(b, 2) = (b \div 4) % 2 /\ Bit(c, 2) = (c \div 4) % 2 /\ Bit(b, 2) = Bit(c, 2)
  BY BitIs
<1>4. Bit(b, 3) = (b \div 8) % 2 /\ Bit(c, 3) = (c \div 8) % 2 /\ Bit(b, 3) = Bit(c, 3)
  BY BitIs
<1>5. Bit(b, 4) = (b \div 16) % 2 /\ Bit(c, 4) = (c \div 16) % 2 /\ Bit(b, 4) = Bit(c, 4)
  BY BitIs
<1>6. Bit(b, 5) = (b \div 32) % 2 /\ Bit(c, 5) = (c \div 32) % 2 /\ Bit(b, 5) = Bit(c, 5)
  BY BitIs
<1>7. Bit(b, 6) = (b \div 64) % 2 /\ Bit(c, 6) = (c \div 64) % 2 /\ Bit(b, 6) = Bit(c, 6)
  BY BitIs
<1>8. Bit(b, 7) = (b \div 128) % 2 /\ Bit(c, 7) = (c \div 128) % 2 /\ Bit(b, 7) = Bit(c, 7)
  BY BitIs
<1>9. b \div 128 = c \div 128
  <2>1. b \div 128 \in {0, 1} /\ c \div 128 \in {0, 1}
    BY <1>0
  <2> QED
    BY <1>8, <2>1
<1>10. b \div 64 = c \div 64
  <2>1. b \div 64 = 2 * (b \div 128) + Bit(b, 6)
    BY <1>0, <1>7, HalfAgain
  <2>2. c \div 64 = 2 * (c \div 128) + Bit(c, 6)
    BY <1>0, <1>7, HalfAgain
  <2> QED
    BY <1>7, <1>9, <2>1, <2>2, Zenon
<1>11. b \div 32 = c \div 32
  <2>1. b \div 32 = 2 * (b \div 64) + Bit(b, 5)
    BY <1>0, <1>6, HalfAgain
  <2>2. c \div 32 = 2 * (c \div 64) + Bit(c, 5)
    BY <1>0, <1>6, HalfAgain
  <2> QED
    BY <1>6, <1>10, <2>1, <2>2, Zenon
<1>12. b \div 16 = c \div 16
  <2>1. b \div 16 = 2 * (b \div 32) + Bit(b, 4)
    BY <1>0, <1>5, HalfAgain
  <2>2. c \div 16 = 2 * (c \div 32) + Bit(c, 4)
    BY <1>0, <1>5, HalfAgain
  <2> QED
    BY <1>5, <1>11, <2>1, <2>2, Zenon
<1>13. b \div 8 = c \div 8
  <2>1. b \div 8 = 2 * (b \div 16) + Bit(b, 3)
    BY <1>0, <1>4, HalfAgain
  <2>2. c \div 8 = 2 * (c \div 16) + Bit(c, 3)
    BY <1>0, <1>4, HalfAgain
  <2> QED
    BY <1>4, <1>12, <2>1, <2>2, Zenon
<1>14. b \div 4 = c \div 4
  <2>1. b \div 4 = 2 * (b \div 8) + Bit(b, 2)
    BY <1>0, <1>3, HalfAgain
  <2>2. c \div 4 = 2 * (c \div 8) + Bit(c, 2)
    BY <1>0, <1>3, HalfAgain
  <2> QED
    BY <1>3, <1>13, <2>1, <2>2, Zenon
<1>15. b \div 2 = c \div 2
  <2>1. b \div 2 = 2 * (b \div 4) + Bit(b, 1)
    BY <1>0, <1>2, HalfAgain
  <2>2. c \div 2 = 2 * (c \div 4) + Bit(c, 1)
    BY <1>0, <1>2, HalfAgain
  <2> QED
    BY <1>2, <1>14, <2>1, <2>2, Zenon
<1>16. b \div 1 = c \div 1
  <2>1. b \div 1 = 2 * (b \div 2) + Bit(b, 0)
    BY <1>0, <1>1, HalfAgain
  <2>2. c \div 1 = 2 * (c \div 2) + Bit(c, 0)
    BY <1>0, <1>1, HalfAgain
  <2> QED
    BY <1>1, <1>15, <2>1, <2>2, Zenon
<1>17. b \div 1 = b /\ c \div 1 = c
  BY <1>0
<1> QED
  BY <1>16, <1>17

(* The words between the bits of a byte: e[8] is the word before, e[0] the *)
(* word after.                                                             *)
Chain(e, x, b) ==
  /\ e \in [0 .. 8 -> Word] /\ e[8] = x /\ e[0] = update_crc(x, b)
  /\ \A k \in 0 .. 7 : e[k] = Divided(Bit(b, k))[e[k + 1]]

(* There are such words.                                                   *)
LEMMA ChainExists ==
  ASSUME NEW x \in Word, NEW b \in Byte
  PROVE  \E e : Chain(e, x, b)
<1>1. PICK e7 \in Word : e7 = Divided(Bit(b, 7))[x]
  BY DividedIsWord
<1>2. PICK e6 \in Word : e6 = Divided(Bit(b, 6))[e7]
  BY DividedIsWord
<1>3. PICK e5 \in Word : e5 = Divided(Bit(b, 5))[e6]
  BY DividedIsWord
<1>4. PICK e4 \in Word : e4 = Divided(Bit(b, 4))[e5]
  BY DividedIsWord
<1>5. PICK e3 \in Word : e3 = Divided(Bit(b, 3))[e4]
  BY DividedIsWord
<1>6. PICK e2 \in Word : e2 = Divided(Bit(b, 2))[e3]
  BY DividedIsWord
<1>7. PICK e1 \in Word : e1 = Divided(Bit(b, 1))[e2]
  BY DividedIsWord
<1>8. PICK e0 \in Word : e0 = Divided(Bit(b, 0))[e1]
  BY DividedIsWord
<1>9. update_crc(x, b) = e0
  BY <1>1, <1>2, <1>3, <1>4, <1>5, <1>6, <1>7, <1>8, Zenon DEF update_crc, Bit
<1>10. PICK e : e = [k \in 0 .. 8 |-> IF k = 0 THEN e0 ELSE IF k = 1 THEN e1 ELSE
                                      IF k = 2 THEN e2 ELSE IF k = 3 THEN e3 ELSE
                                      IF k = 4 THEN e4 ELSE IF k = 5 THEN e5 ELSE
                                      IF k = 6 THEN e6 ELSE IF k = 7 THEN e7 ELSE x]
  BY Zenon
<1>11. /\ e[0] = e0 /\ e[1] = e1 /\ e[2] = e2 /\ e[3] = e3 /\ e[4] = e4
       /\ e[5] = e5 /\ e[6] = e6 /\ e[7] = e7 /\ e[8] = x
       /\ e \in [0 .. 8 -> Word]
  BY <1>10
<1>12. ASSUME NEW k \in 0 .. 7 PROVE e[k] = Divided(Bit(b, k))[e[k + 1]]
  <2>1. k = 0 \/ k = 1 \/ k = 2 \/ k = 3 \/ k = 4 \/ k = 5 \/ k = 6 \/ k = 7
    OBVIOUS
  <2>2. 0 + 1 = 1 /\ 1 + 1 = 2 /\ 2 + 1 = 3 /\ 3 + 1 = 4 /\ 4 + 1 = 5 /\ 5 + 1 = 6
        /\ 6 + 1 = 7 /\ 7 + 1 = 8
    OBVIOUS
  <2> QED
    BY <1>1, <1>2, <1>3, <1>4, <1>5, <1>6, <1>7, <1>8, <1>11, <2>1, <2>2, Zenon
<1> QED
  BY <1>9, <1>11, <1>12 DEF Chain

(* Two chains, one bit.                                                    *)
LEMMA ChainBack ==
  ASSUME NEW x, NEW y, NEW b \in Byte, NEW c \in Byte,
         NEW e, Chain(e, x, b), NEW f, Chain(f, y, c), NEW k \in 0 .. 7,
         NEW N \in Halves, Cong(e[k], f[k], 2 * N)
  PROVE  /\ Cong(e[k + 1], f[k + 1], N)
         /\ e[k + 1] = f[k + 1] => Bit(b, k) = Bit(c, k) /\ e[k] = f[k]
         /\ N = 32768 /\ b = c => e[k + 1] = f[k + 1]
<1>1. k + 1 \in 0 .. 8 /\ k \in 0 .. 8
  OBVIOUS
<1>2. e[k + 1] \in Word /\ f[k + 1] \in Word
  BY <1>1 DEF Chain
<1>3. Bit(b, k) \in {0, 1} /\ Bit(c, k) \in {0, 1}
  BY BitsAreBits
<1>4. e[k] = Divided(Bit(b, k))[e[k + 1]] /\ f[k] = Divided(Bit(c, k))[f[k + 1]]
  BY DEF Chain
<1>5. /\ Cong(e[k + 1], f[k + 1], N)
      /\ e[k + 1] = f[k + 1] => Bit(b, k) = Bit(c, k)
      /\ N = 32768 /\ Bit(b, k) = Bit(c, k) => e[k + 1] = f[k + 1]
  BY <1>2, <1>3, <1>4, StepSame
<1> QED
  BY <1>4, <1>5

(* A byte backward: checksums that agree were of words that agree but for  *)
(* their high byte; and of the same word they were with the same byte.     *)
LEMMA ByteBack ==
  ASSUME NEW x \in Word, NEW y \in Word, NEW b \in Byte, NEW c \in Byte,
         NEW N \in {1, 256}, Cong(update_crc(x, b), update_crc(y, c), 256 * N)
  PROVE  Cong(x, y, N) /\ (x = y => b = c)
<1>1. PICK e : Chain(e, x, b)
  BY ChainExists
<1>2. PICK f : Chain(f, y, c)
  BY ChainExists
<1>3. Cong(e[0], f[0], 256 * N)
  BY <1>1, <1>2 DEF Chain
<1>4. Cong(e[1], f[1], 128 * N) /\ (e[1] = f[1] => Bit(b, 0) = Bit(c, 0) /\ e[0] = f[0])
  <2>1. PICK n \in Halves : n = 128 * N
    BY DEF Halves
  <2>2. Cong(e[0], f[0], 2 * n)
    BY <1>3, <2>1
  <2>3. /\ Cong(e[0 + 1], f[0 + 1], n)
        /\ e[0 + 1] = f[0 + 1] => Bit(b, 0) = Bit(c, 0) /\ e[0] = f[0]
    BY <1>1, <1>2, <2>2, ChainBack
  <2>4. 0 + 1 = 1
    OBVIOUS
  <2> QED
    BY <2>1, <2>3, <2>4
<1>5. Cong(e[2], f[2], 64 * N) /\ (e[2] = f[2] => Bit(b, 1) = Bit(c, 1) /\ e[1] = f[1])
  <2>1. PICK n \in Halves : n = 64 * N
    BY DEF Halves
  <2>2. Cong(e[1], f[1], 2 * n)
    BY <1>4, <2>1
  <2>3. /\ Cong(e[1 + 1], f[1 + 1], n)
        /\ e[1 + 1] = f[1 + 1] => Bit(b, 1) = Bit(c, 1) /\ e[1] = f[1]
    BY <1>1, <1>2, <2>2, ChainBack
  <2>4. 1 + 1 = 2
    OBVIOUS
  <2> QED
    BY <2>1, <2>3, <2>4
<1>6. Cong(e[3], f[3], 32 * N) /\ (e[3] = f[3] => Bit(b, 2) = Bit(c, 2) /\ e[2] = f[2])
  <2>1. PICK n \in Halves : n = 32 * N
    BY DEF Halves
  <2>2. Cong(e[2], f[2], 2 * n)
    BY <1>5, <2>1
  <2>3. /\ Cong(e[2 + 1], f[2 + 1], n)
        /\ e[2 + 1] = f[2 + 1] => Bit(b, 2) = Bit(c, 2) /\ e[2] = f[2]
    BY <1>1, <1>2, <2>2, ChainBack
  <2>4. 2 + 1 = 3
    OBVIOUS
  <2> QED
    BY <2>1, <2>3, <2>4
<1>7. Cong(e[4], f[4], 16 * N) /\ (e[4] = f[4] => Bit(b, 3) = Bit(c, 3) /\ e[3] = f[3])
  <2>1. PICK n \in Halves : n = 16 * N
    BY DEF Halves
  <2>2. Cong(e[3], f[3], 2 * n)
    BY <1>6, <2>1
  <2>3. /\ Cong(e[3 + 1], f[3 + 1], n)
        /\ e[3 + 1] = f[3 + 1] => Bit(b, 3) = Bit(c, 3) /\ e[3] = f[3]
    BY <1>1, <1>2, <2>2, ChainBack
  <2>4. 3 + 1 = 4
    OBVIOUS
  <2> QED
    BY <2>1, <2>3, <2>4
<1>8. Cong(e[5], f[5], 8 * N) /\ (e[5] = f[5] => Bit(b, 4) = Bit(c, 4) /\ e[4] = f[4])
  <2>1. PICK n \in Halves : n = 8 * N
    BY DEF Halves
  <2>2. Cong(e[4], f[4], 2 * n)
    BY <1>7, <2>1
  <2>3. /\ Cong(e[4 + 1], f[4 + 1], n)
        /\ e[4 + 1] = f[4 + 1] => Bit(b, 4) = Bit(c, 4) /\ e[4] = f[4]
    BY <1>1, <1>2, <2>2, ChainBack
  <2>4. 4 + 1 = 5
    OBVIOUS
  <2> QED
    BY <2>1, <2>3, <2>4
<1>9. Cong(e[6], f[6], 4 * N) /\ (e[6] = f[6] => Bit(b, 5) = Bit(c, 5) /\ e[5] = f[5])
  <2>1. PICK n \in Halves : n = 4 * N
    BY DEF Halves
  <2>2. Cong(e[5], f[5], 2 * n)
    BY <1>8, <2>1
  <2>3. /\ Cong(e[5 + 1], f[5 + 1], n)
        /\ e[5 + 1] = f[5 + 1] => Bit(b, 5) = Bit(c, 5) /\ e[5] = f[5]
    BY <1>1, <1>2, <2>2, ChainBack
  <2>4. 5 + 1 = 6
    OBVIOUS
  <2> QED
    BY <2>1, <2>3, <2>4
<1>10. Cong(e[7], f[7], 2 * N) /\ (e[7] = f[7] => Bit(b, 6) = Bit(c, 6) /\ e[6] = f[6])
  <2>1. PICK n \in Halves : n = 2 * N
    BY DEF Halves
  <2>2. Cong(e[6], f[6], 2 * n)
    BY <1>9, <2>1
  <2>3. /\ Cong(e[6 + 1], f[6 + 1], n)
        /\ e[6 + 1] = f[6 + 1] => Bit(b, 6) = Bit(c, 6) /\ e[6] = f[6]
    BY <1>1, <1>2, <2>2, ChainBack
  <2>4. 6 + 1 = 7
    OBVIOUS
  <2> QED
    BY <2>1, <2>3, <2>4
<1>11. Cong(e[8], f[8], 1 * N) /\ (e[8] = f[8] => Bit(b, 7) = Bit(c, 7) /\ e[7] = f[7])
  <2>1. PICK n \in Halves : n = 1 * N
    BY DEF Halves
  <2>2. Cong(e[7], f[7], 2 * n)
    BY <1>10, <2>1
  <2>3. /\ Cong(e[7 + 1], f[7 + 1], n)
        /\ e[7 + 1] = f[7 + 1] => Bit(b, 7) = Bit(c, 7) /\ e[7] = f[7]
    BY <1>1, <1>2, <2>2, ChainBack
  <2>4. 7 + 1 = 8
    OBVIOUS
  <2> QED
    BY <2>1, <2>3, <2>4
<1>12. e[8] = x /\ f[8] = y
  BY <1>1, <1>2 DEF Chain
<1>13. Cong(x, y, N)
  <2>1. 1 * N = N
    OBVIOUS
  <2> QED
    BY <1>11, <1>12, <2>1
<1>14. ASSUME x = y PROVE b = c
  <2>1. \A k \in {0, 1, 2, 3, 4, 5, 6, 7} : Bit(b, k) = Bit(c, k)
    BY <1>4, <1>5, <1>6, <1>7, <1>8, <1>9, <1>10, <1>11, <1>12, <1>14
  <2>2. 0 .. 7 = {0, 1, 2, 3, 4, 5, 6, 7}
    OBVIOUS
  <2> QED
    BY <2>1, <2>2, BitsTell
<1> QED
  BY <1>13, <1>14

(* The same byte and the same checksum, of the same word.                  *)
LEMMA ByteOne ==
  ASSUME NEW x \in Word, NEW y \in Word, NEW b \in Byte,
         update_crc(x, b) = update_crc(y, b)
  PROVE  x = y
<1>1. PICK e : Chain(e, x, b)
  BY ChainExists
<1>2. PICK f : Chain(f, y, b)
  BY ChainExists
<1>3. ASSUME NEW k \in 0 .. 7, e[k] = f[k] PROVE e[k + 1] = f[k + 1]
  <2>1. PICK n \in Halves : n = 32768
    BY DEF Halves
  <2>2. Cong(e[k], f[k], 2 * n)
    <3>1. e[k] \in Word
      <4>1. k \in 0 .. 8
        OBVIOUS
      <4> QED
        BY <1>1, <4>1 DEF Chain
    <3>2. e[k] \in Int
      BY <3>1, Words
    <3>3. e[k] = e[k] + (2 * n) * 0
      BY <2>1, <3>2
    <3> QED
      BY <1>3, <3>3 DEF Cong
  <2>3. PICK c \in Byte : c = b
    OBVIOUS
  <2>4. Chain(f, y, c)
    BY <1>2, <2>3
  <2>5. /\ Cong(e[k + 1], f[k + 1], n)
        /\ n = 32768 /\ b = c => e[k + 1] = f[k + 1]
    <3>1. Chain(e, x, b) /\ k \in 0 .. 7 /\ n \in Halves /\ b \in Byte /\ c \in Byte
      BY <1>1
    <3> QED
      BY <2>2, <2>4, <3>1, ChainBack
  <2> QED
    BY <2>1, <2>3, <2>5
<1>4. e[0] = f[0]
  BY <1>1, <1>2 DEF Chain
<1>5. e[8] = f[8]
  <2>1. 0 + 1 = 1 /\ 1 + 1 = 2 /\ 2 + 1 = 3 /\ 3 + 1 = 4 /\ 4 + 1 = 5 /\ 5 + 1 = 6
        /\ 6 + 1 = 7 /\ 7 + 1 = 8
    OBVIOUS
  <2>2. /\ 0 \in 0 .. 7 /\ 1 \in 0 .. 7 /\ 2 \in 0 .. 7 /\ 3 \in 0 .. 7
        /\ 4 \in 0 .. 7 /\ 5 \in 0 .. 7 /\ 6 \in 0 .. 7 /\ 7 \in 0 .. 7
    OBVIOUS
  <2> QED
    BY <1>3, <1>4, <2>1, <2>2
<1> QED
  BY <1>1, <1>2, <1>5 DEF Chain

(* A number agrees with itself.                                            *)
LEMMA CongSelf == \A x \in Int : \A M \in Int : Cong(x, x, M)
<1> SUFFICES ASSUME NEW x \in Int, NEW M \in Int PROVE Cong(x, x, M)
  OBVIOUS
<1>1. x = x + M * 0
  OBVIOUS
<1> QED
  BY <1>1 DEF Cong

(* L bytes, of which byte j or the next one is wrong, or both, and no      *)
(* other.                                                                  *)
WrongAt(g, c, L, j) ==
  /\ \A n \in 1 .. L : g[n] # c[n] => n = j \/ n = j + 1
  /\ \E n \in 1 .. L : g[n] # c[n]

(* Contents that differ so have different checksums.                       *)
LEMMA WrongChecksum ==
  ASSUME NEW c \in Seq(Byte), NEW g \in Seq(Byte), NEW L \in Nat, Len(c) = L, Len(g) = L,
         NEW j \in 1 .. L - 1, WrongAt(g, c, L, j)
  PROVE  Checksums(g)[L] # Checksums(c)[L]
<1>1. PICK A : A = Checksums(c)
  OBVIOUS
<1>2. PICK B : B = Checksums(g)
  OBVIOUS
<1>3. /\ \A n \in 0 .. L : A[n] \in Word
      /\ A[0] = 0 /\ \A n \in 1 .. L : A[n] = update_crc(A[n - 1], c[n])
  BY <1>1, ChecksumsStep
<1>4. /\ \A n \in 0 .. L : B[n] \in Word
      /\ B[0] = 0 /\ \A n \in 1 .. L : B[n] = update_crc(B[n - 1], g[n])
  BY <1>2, ChecksumsStep
<1>5. \A n \in 1 .. L : c[n] \in Byte /\ g[n] \in Byte
  BY ElementOfSeq
<1>6. j \in Nat /\ j >= 1 /\ j + 1 <= L
  OBVIOUS
<1> DEFINE T == {n \in Nat : n <= j - 1 => A[n] = B[n]}
<1>7. 0 \in T
  BY <1>3, <1>4
<1>8. ASSUME NEW n \in Nat, n \in T PROVE n + 1 \in T
  <2> SUFFICES ASSUME n + 1 <= j - 1 PROVE A[n + 1] = B[n + 1]
    OBVIOUS
  <2>1. PICK k \in Nat : k = n + 1
    OBVIOUS
  <2>2. k \in 1 .. L /\ k - 1 = n /\ k # j /\ k # j + 1 /\ n <= j - 1
    BY <1>6, <2>1
  <2>3. A[n] = B[n] /\ c[k] = g[k]
    BY <1>8, <2>2 DEF WrongAt
  <2>4. A[k] = update_crc(A[n], c[k]) /\ B[k] = update_crc(B[n], g[k])
    BY <1>3, <1>4, <2>2
  <2> QED
    BY <2>1, <2>3, <2>4
<1> HIDE DEF T
<1>9. Nat \subseteq T
  BY <1>7, <1>8, AllNumbers
<1>10. PICK x \in Word : x = A[j - 1] /\ x = B[j - 1]
  <2>1. j - 1 \in Nat /\ j - 1 <= j - 1 /\ j - 1 \in 0 .. L
    BY <1>6
  <2>2. A[j - 1] = B[j - 1]
    BY <1>9, <2>1 DEF T
  <2> QED
    BY <1>3, <2>1, <2>2
<1>11. PICK y \in Word, z \in Word :
         y = A[j] /\ z = B[j] /\ y = update_crc(x, c[j]) /\ z = update_crc(x, g[j])
  <2>1. j \in 1 .. L /\ j \in 0 .. L
    BY <1>6
  <2> QED
    BY <1>3, <1>4, <1>10, <2>1
<1>12. PICK k \in Nat : k = j + 1 /\ k \in 1 .. L /\ k - 1 = j
  BY <1>6
<1>13. A[k] = update_crc(y, c[k]) /\ B[k] = update_crc(z, g[k])
  BY <1>3, <1>4, <1>11, <1>12
<1>14. c[j] \in Byte /\ g[j] \in Byte /\ c[k] \in Byte /\ g[k] \in Byte
  BY <1>5, <1>6, <1>12
<1>15. A[k] # B[k]
  <2> SUFFICES ASSUME A[k] = B[k] PROVE FALSE
    OBVIOUS
  <2>1. Cong(update_crc(y, c[k]), update_crc(z, g[k]), 256 * 256)
    <3>1. A[k] \in Word
      BY <1>3, <1>12
    <3>2. A[k] \in Int
      BY <3>1, Words
    <3>3. Cong(A[k], B[k], 256 * 256)
      BY <3>2, CongSelf
    <3> QED
      BY <1>13, <3>3
  <2>2. Cong(y, z, 256) /\ (y = z => c[k] = g[k])
    BY <1>11, <1>14, <2>1, ByteBack
  <2>3. Cong(update_crc(x, c[j]), update_crc(x, g[j]), 256 * 1)
    <3>1. 256 * 1 = 256
      OBVIOUS
    <3> QED
      BY <1>11, <2>2, <3>1
  <2>4. c[j] = g[j]
    BY <1>10, <1>14, <2>3, ByteBack
  <2>5. c[k] = g[k]
    BY <1>11, <2>2, <2>4
  <2> QED
    BY <1>12, <2>4, <2>5 DEF WrongAt
<1> DEFINE U == {n \in Nat : k + n <= L => A[k + n] # B[k + n]}
<1>16. 0 \in U
  <2>1. k + 0 = k
    BY <1>12
  <2> QED
    BY <1>15, <2>1
<1>17. ASSUME NEW n \in Nat, n \in U PROVE n + 1 \in U
  <2> SUFFICES ASSUME k + (n + 1) <= L PROVE A[k + (n + 1)] # B[k + (n + 1)]
    OBVIOUS
  <2>1. PICK i \in Nat : i = k + (n + 1)
    BY <1>12
  <2>2. PICK h \in Nat : h = k + n
    BY <1>12
  <2>3. i \in 1 .. L /\ i - 1 = h /\ i # j /\ i # j + 1 /\ h \in 0 .. L /\ k + n <= L
    BY <1>6, <1>12, <2>1, <2>2
  <2>4. A[h] # B[h] /\ c[i] = g[i]
    BY <1>17, <2>2, <2>3 DEF WrongAt
  <2>5. A[i] = update_crc(A[h], c[i]) /\ B[i] = update_crc(B[h], c[i])
    BY <1>3, <1>4, <2>3, <2>4
  <2>6. A[h] \in Word /\ B[h] \in Word /\ c[i] \in Byte
    BY <1>3, <1>4, <1>5, <2>3
  <2>7. A[i] # B[i]
    BY <2>4, <2>5, <2>6, ByteOne
  <2> QED
    BY <2>1, <2>7
<1> HIDE DEF U
<1>18. Nat \subseteq U
  BY <1>16, <1>17, AllNumbers
<1>19. A[L] # B[L]
  <2>1. PICK n \in Nat : L = k + n
    <3>1. L - k \in Nat /\ L = k + (L - k)
      BY <1>12
    <3> QED
      BY <3>1
  <2>2. n \in U /\ k + n <= L
    BY <1>18, <2>1
  <2> QED
    BY <2>1, <2>2 DEF U
<1> QED
  BY <1>1, <1>2, <1>19

(* A reply needs a checksum that fits.                                     *)
LEMMA WrongIsRejected ==
  ASSUME NEW p \in Packet, p.dxl_state = CRC_LOW, ~p.process,
         NEW k, k = p.crc16, k \in Nat,
         NEW lo \in Byte, NEW hi \in Byte, k # lo + 256 * hi,
         NEW q, q = dxl_packet_push_byte(p, lo),
         NEW r, r = dxl_packet_push_byte(q, hi)
  PROVE  ~r.process
<1>1. CRC_LOW # CRC_HIGH
  BY ParserNumbers
<1>2. q = [p EXCEPT !.crc16 = k - lo, !.dxl_state = CRC_HIGH]
  BY <1>1, PushEnds DEF PushLow
<1>3. q.crc16 = k - lo /\ q.dxl_state = CRC_HIGH /\ q.process = p.process
  BY <1>2 DEF Packet
<1>4. r = PushEnd(q, hi)
  BY <1>1, <1>3, PushEnds
<1>5. q.crc16 # 256 * hi
  <2>1. lo \in Nat /\ hi \in Nat
    BY Bytes
  <2> QED
    BY <1>3, <2>1
<1>6. r = Restart(q)
  BY <1>4, <1>5, Zenon DEF PushEnd
<1>7. r = Blank
  BY <1>3, <1>6 DEF Restart
<1> QED
  BY <1>7 DEF Blank

(* A packet of content c and checksum k, and one of content g, of which    *)
(* byte j or the next one is wrong, and no other: both in the content or   *)
(* both in the checksum.                                                   *)
GarbledAt(bytes, garbled, c, g, m, k, j) ==
  /\ m \in Nat /\ c \in Seq(Byte) /\ Len(c) = m + 8 /\ g \in Seq(Byte) /\ Len(g) = m + 8
  /\ garbled \in Seq(Byte) /\ Len(garbled) = m + 10
  /\ \A n \in 1 .. m + 8 : bytes[n] = c[n] /\ garbled[n] = g[n]
  /\ k \in Word /\ k = Checksums(c)[m + 8]
  /\ bytes[m + 9] = k % 256 /\ bytes[m + 10] = k \div 256
  /\ j \in 5 .. m + 9 /\ j # m + 8
  /\ WrongAt(garbled, bytes, m + 10, j)

(* The checksum that came is not that of the content that came.            *)
LEMMA GarbledChecksum ==
  ASSUME NEW m, NEW c, NEW g, NEW bytes, NEW garbled, NEW k, NEW j,
         GarbledAt(bytes, garbled, c, g, m, k, j)
  PROVE  Checksums(g)[m + 8] # garbled[m + 9] + 256 * garbled[m + 10]
<1>0. /\ m \in Nat /\ c \in Seq(Byte) /\ Len(c) = m + 8 /\ g \in Seq(Byte) /\ Len(g) = m + 8
      /\ garbled \in Seq(Byte) /\ Len(garbled) = m + 10
      /\ \A n \in 1 .. m + 8 : bytes[n] = c[n] /\ garbled[n] = g[n]
      /\ k \in Word /\ k = Checksums(c)[m + 8]
      /\ bytes[m + 9] = k % 256 /\ bytes[m + 10] = k \div 256
      /\ j \in 5 .. m + 9 /\ j # m + 8
      /\ WrongAt(garbled, bytes, m + 10, j)
  BY DEF GarbledAt
<1>1. PICK i \in 1 .. m + 10 : garbled[i] # bytes[i]
  BY <1>0 DEF WrongAt
<1>2. \A n \in 1 .. m + 10 : garbled[n] # bytes[n] => n = j \/ n = j + 1
  BY <1>0 DEF WrongAt
<1>3. k \in Nat /\ k <= 65535
  BY <1>0, Words
<1>4. k = (k % 256) + 256 * (k \div 256)
  BY <1>0, <1>3
<1>5. garbled[m + 9] \in Byte /\ garbled[m + 10] \in Byte
  <2>1. m + 9 \in 1 .. Len(garbled) /\ m + 10 \in 1 .. Len(garbled)
    BY <1>0
  <2> QED
    BY <1>0, <2>1, ElementOfSeq
<1>6. CASE j <= m + 7
  <2>1. PICK L \in Nat : L = m + 8
    BY <1>0
  <2>2. j \in 1 .. L - 1 /\ i \in 1 .. L
    BY <1>0, <1>1, <1>2, <1>6, <2>1
  <2>3. \A n \in 1 .. L : g[n] # c[n] => n = j \/ n = j + 1
    BY <1>0, <1>2, <2>1
  <2>4. WrongAt(g, c, L, j)
    <3>1. g[i] # c[i]
      BY <1>0, <1>1, <2>1, <2>2
    <3> QED
      BY <1>0, <2>2, <2>3, <3>1 DEF WrongAt
  <2>5. Checksums(g)[L] # Checksums(c)[L]
    <3>1. Len(c) = L /\ Len(g) = L
      BY <1>0, <2>1
    <3> QED
      BY <1>0, <2>2, <2>4, <3>1, WrongChecksum
  <2>6. garbled[m + 9] = bytes[m + 9] /\ garbled[m + 10] = bytes[m + 10]
    <3>1. m + 9 # j /\ m + 9 # j + 1 /\ m + 10 # j /\ m + 10 # j + 1
          /\ m + 9 \in 1 .. m + 10 /\ m + 10 \in 1 .. m + 10
      BY <1>0, <1>6
    <3> QED
      BY <1>0, <1>2, <3>1
  <2>7. garbled[m + 9] + 256 * garbled[m + 10] = k
    BY <1>0, <1>4, <2>6
  <2> QED
    BY <1>0, <2>1, <2>5, <2>7
<1>7. CASE ~(j <= m + 7)
  <2>1. j = m + 9
    BY <1>0, <1>7
  <2>2. \A n \in 1 .. m + 8 : g[n] = c[n]
    BY <1>0, <1>2, <2>1
  <2>3. g = c
    BY <1>0, <2>2, SeqEqual
  <2>4. PICK lo \in Byte, hi \in Byte : lo = garbled[m + 9] /\ hi = garbled[m + 10]
    BY <1>0, <1>5
  <2>5. lo # k % 256 \/ hi # k \div 256
    <3>1. i = m + 9 \/ i = m + 10
      BY <1>0, <1>1, <1>2, <2>1
    <3> QED
      BY <1>0, <1>1, <2>4, <3>1
  <2>6. k # lo + 256 * hi
    <3> SUFFICES ASSUME k = lo + 256 * hi PROVE FALSE
      OBVIOUS
    <3>1. lo \in Nat /\ lo <= 255 /\ hi \in Nat
      BY <1>0, Bytes
    <3>2. k % 256 = lo /\ k \div 256 = hi
      BY <1>0, <3>1
    <3> QED
      BY <1>0, <2>5, <3>2
  <2> QED
    BY <1>0, <2>3, <2>4, <2>6
<1> QED
  BY <1>0, <1>6, <1>7

(* A packet that is garbled in a byte or two neighbouring ones, outside of *)
(* the header and the length, makes no reply: dxl_packet_push_byte finds   *)
(* its checksum wrong.  That the parser takes the high byte of the length  *)
(* for 0 does not matter; nor that bytes of the body may be garbled into a *)
(* header.  The last byte before the checksum and the first of it do not   *)
(* go together: the low byte of the checksum is sent first, so that they   *)
(* are no neighbours to the polynomial.                                    *)
THEOREM GarbledIsRefused ==
  ASSUME NEW id \in Byte, NEW instruction \in Byte,
         NEW parameters \in Seq(Byte), parameters # <<>>,
         Len(Stuffed(parameters)) + 3 < DXL_MAX_PARAMS,
         NEW p, Parsing(p), p.dxl_state = 0, ~p.process,
         NEW bytes, bytes = dxl_write_packet(id, instruction, parameters),
         NEW garbled \in Seq(Byte), Len(garbled) = Len(bytes), garbled # bytes,
         NEW j \in 5 .. Len(bytes) - 1, j # Len(bytes) - 2,
         \A n \in 1 .. Len(bytes) : garbled[n] # bytes[n] => n \in {j, j + 1} /\ n # 6,
         NEW state, Parses(state, p, garbled)
  PROVE  \A n \in 0 .. Len(bytes) : ~state[n].process
<1>1. PICK body : body = Stuffed(parameters)
  OBVIOUS
<1>2. Fitting(body) /\ \E c, k : IsPacket(bytes, c, id, body, k)
  BY <1>1, WrittenIsPacket
<1>3. PICK c, k : IsPacket(bytes, c, id, body, k)
  BY <1>2
<1>4. PICK m \in Nat : m = Len(body) /\ m # 0 /\ m + 3 < DXL_MAX_PARAMS
  BY <1>2, LenProperties, EmptySeq DEF Fitting
<1>5. /\ c \in Seq(Byte) /\ Len(c) = m + 8 /\ k \in Word /\ k = Checksums(c)[m + 8]
      /\ c[1] = 255 /\ c[2] = 255 /\ c[3] = 253 /\ c[4] = 0 /\ c[6] = m + 3
      /\ Len(bytes) = m + 10 /\ \A n \in 1 .. m + 8 : bytes[n] = c[n]
      /\ bytes[m + 9] = k % 256 /\ bytes[m + 10] = k \div 256
  BY <1>3, <1>4 DEF IsPacket, IsContent
<1>6. Len(garbled) = m + 10 /\ \A n \in 1 .. m + 10 : garbled[n] \in Byte
  BY <1>5, ElementOfSeq
<1>7. PICK g : g = [n \in 1 .. m + 8 |-> garbled[n]]
  OBVIOUS
<1>8. g \in Seq(Byte) /\ Len(g) = m + 8 /\ \A n \in 1 .. m + 8 : g[n] = garbled[n]
  BY <1>6, <1>7, IsASeq
<1>9. PICK body2 : body2 = [i \in 1 .. m |-> g[8 + i]]
  OBVIOUS
<1>10. body2 \in Seq(Byte) /\ Len(body2) = m /\ \A i \in 1 .. m : body2[i] = g[8 + i]
  <2>1. \A i \in 1 .. m : g[8 + i] \in Byte
    BY <1>6, <1>8
  <2> QED
    BY <1>9, <2>1, IsASeq
<1>11. \A n \in 1 .. m + 10 : garbled[n] # bytes[n] => (n = j \/ n = j + 1) /\ n # 6 /\ n >= 5
  BY <1>5
<1>12. IsContent(g, g[5], m, body2) /\ g[5] \in Byte
  <2>1. g[1] = 255 /\ g[2] = 255 /\ g[3] = 253 /\ g[4] = 0 /\ g[6] = m + 3
    <3>1. /\ 1 \in 1 .. m + 8 /\ 2 \in 1 .. m + 8 /\ 3 \in 1 .. m + 8 /\ 4 \in 1 .. m + 8
          /\ 6 \in 1 .. m + 8
      OBVIOUS
    <3>2. \A n \in 1 .. m + 8 : n \in {1, 2, 3, 4, 6} => g[n] = c[n]
      <4> SUFFICES ASSUME NEW n \in 1 .. m + 8, n \in {1, 2, 3, 4, 6} PROVE g[n] = c[n]
        OBVIOUS
      <4>1. garbled[n] = bytes[n]
        BY <1>11
      <4> QED
        BY <1>5, <1>8, <4>1
    <3> QED
      BY <1>5, <3>1, <3>2
  <2>2. g[5] \in Byte
    BY <1>6, <1>8
  <2> QED
    BY <1>8, <1>10, <2>1, <2>2 DEF IsContent
<1>13. /\ \A n \in 0 .. m + 7 : ReadSoFar(state[n], n, g[5], body2, Checksums(g))
       /\ ReadAll(state[m + 8], g[5], body2, Checksums(g))
  <2>1. /\ IsContent(g, g[5], Len(body2), body2) /\ Len(garbled) = Len(body2) + 10
        /\ \A n \in 1 .. Len(body2) + 8 : garbled[n] = g[n]
    BY <1>6, <1>8, <1>10, <1>12
  <2>2. body2 # <<>> /\ Len(body2) + 3 < DXL_MAX_PARAMS
    BY <1>4, <1>10, EmptySeq
  <2>3. /\ \A n \in 0 .. Len(body2) + 7 : ReadSoFar(state[n], n, g[5], body2, Checksums(g))
        /\ ReadAll(state[Len(body2) + 8], g[5], body2, Checksums(g))
    BY <1>10, <1>12, <2>1, <2>2, ContentIsRead
  <2> QED
    BY <1>10, <2>3
<1>14. \A n \in 0 .. m + 9 : state[n].process = FALSE
  <2>1. \A n \in 0 .. m + 8 : Parsing(state[n]) /\ state[n].dxl_state \notin Replying
    <3> SUFFICES ASSUME NEW n \in 0 .. m + 8
                 PROVE  Parsing(state[n]) /\ state[n].dxl_state \notin Replying
      OBVIOUS
    <3>1. DXL_MAX_PARAMS \in Nat /\ DXL_MAX_PARAMS <= 251
      BY MaxParams
    <3>2. CASE n = m + 8
      <4>1. CRC_LOW \notin Replying
        BY <3>1, ParserNumbers DEF Replying
      <4> QED
        BY <1>13, <3>2, <4>1 DEF ReadAll
    <3>3. CASE n # m + 8
      <4>1. n \in 0 .. m + 7
        BY <3>3
      <4>2. Parsing(state[n]) /\ state[n].dxl_state = n
        BY <1>13, <4>1 DEF ReadSoFar
      <4>3. n \notin Replying
        BY <1>4, <3>1, <4>1, ParserNumbers DEF Replying
      <4> QED
        BY <4>2, <4>3
    <3> QED
      BY <3>2, <3>3
  <2> QED
    BY <1>6, <2>1, NoReplyYet
<1>15. Checksums(g)[m + 8] # garbled[m + 9] + 256 * garbled[m + 10]
  <2>1. \E n \in 1 .. m + 10 : garbled[n] # bytes[n]
    <3>1. bytes \in Seq(Byte)
      <4>1. Len(body) + 3 < 2^16
        <5>1. PICK w : w = 2^16
          OBVIOUS
        <5>2. w = 65536
          BY <5>1, Powers
        <5>3. DXL_MAX_PARAMS \in Nat /\ DXL_MAX_PARAMS <= 255
          BY DxlPacketsAssumption
        <5>4. m + 3 < w
          BY <1>4, <5>2, <5>3
        <5> QED
          BY <1>4, <5>1, <5>4
      <4> QED
        BY <1>1, <4>1, WrittenTypes
    <3> QED
      BY <1>5, <1>6, <3>1, SeqEqual
  <2>2. j \in 5 .. m + 9 /\ j # m + 8
    BY <1>5
  <2>3. \A n \in 1 .. m + 8 : bytes[n] = c[n] /\ garbled[n] = g[n]
    BY <1>5, <1>8
  <2>4. WrongAt(garbled, bytes, m + 10, j)
    BY <1>11, <2>1 DEF WrongAt
  <2>5. Checksums(g)[m + 8] # garbled[m + 9] + 256 * garbled[m + 10]
    <3>1. /\ c \in Seq(Byte) /\ Len(c) = m + 8 /\ k \in Word /\ k = Checksums(c)[m + 8]
          /\ bytes[m + 9] = k % 256 /\ bytes[m + 10] = k \div 256
      BY <1>5
    <3>2. Len(garbled) = m + 10 /\ g \in Seq(Byte) /\ Len(g) = m + 8
      BY <1>6, <1>8
    <3> QED
      <4>1. GarbledAt(bytes, garbled, c, g, m, k, j)
        BY <2>2, <2>3, <2>4, <3>1, <3>2 DEF GarbledAt
      <4> QED
        BY <4>1, GarbledChecksum
  <2> QED
    BY <2>5
<1>16. ~state[m + 10].process
  <2>1. PICK t : t = state[m + 8]
    OBVIOUS
  <2>2. /\ t \in Packet /\ t.dxl_state = CRC_LOW /\ t.crc16 = Checksums(g)[m + 8]
        /\ ~t.process
    <3>1. m + 8 \in 0 .. m + 9
      OBVIOUS
    <3>2. state[m + 8].process = FALSE
      BY <1>14, <3>1
    <3> QED
      BY <1>10, <1>13, <2>1, <3>2, ParsingTypes DEF ReadAll
  <2>3. t.crc16 \in Nat
    <3>1. m + 8 \in 0 .. Len(g)
      BY <1>8
    <3>2. Checksums(g)[m + 8] \in Word
      BY <1>8, <3>1, ChecksumsStep
    <3> QED
      BY <2>2, <3>2, Words
  <2>4. PICK lo \in Byte, hi \in Byte : lo = garbled[m + 9] /\ hi = garbled[m + 10]
    <3>1. m + 9 \in 1 .. m + 10 /\ m + 10 \in 1 .. m + 10
      OBVIOUS
    <3> QED
      BY <1>6, <3>1
  <2>5. /\ state[m + 9] = dxl_packet_push_byte(t, lo)
        /\ state[m + 10] = dxl_packet_push_byte(state[m + 9], hi)
    <3>1. /\ m + 9 \in 1 .. Len(garbled) /\ (m + 9) - 1 = m + 8
          /\ m + 10 \in 1 .. Len(garbled) /\ (m + 10) - 1 = m + 9
      BY <1>6
    <3> QED
      BY <2>1, <2>4, <3>1 DEF Parses
  <2>6. t.crc16 # lo + 256 * hi
    BY <1>15, <2>2, <2>4
  <2> QED
    BY <2>2, <2>3, <2>4, <2>5, <2>6, WrongIsRejected
<1>17. \A n \in 0 .. m + 10 : n \in 0 .. m + 9 \/ n = m + 10
  OBVIOUS
<1> QED
  BY <1>5, <1>14, <1>16, <1>17

-----------------------------------------------------------------------------
(* Part 3, the bus: the packets of part 2 between the main thread and the  *)
(* servos (DxlBus), for any servos, requests and data.                     *)

(* An answer: an error byte, and the data that were asked.                 *)
LEMMA StuffZero == <<0>> \in Seq(Byte) /\ Len(Stuffed(<<0>>)) = 1
<1>1. 0 \in Byte /\ <<>> \in Seq(Byte) /\ Len(<<>>) = 0 /\ <<0>> = Append(<<>>, 0)
  BY Bytes, EmptySeq
<1>2. ~HeaderAt(Append(<<>>, 0), Len(<<>>) + 1)
  BY <1>1 DEF HeaderAt
<1>3. Stuffed(Append(<<>>, 0)) = <<>> \o <<0>>
  BY <1>1, <1>2, StuffAppend, StuffEmpty
<1> QED
  BY <1>1, <1>3

(* The id of a servo is a byte.                                            *)
LEMMA ServoIds == Servos \subseteq Byte
<1>1. \A n \in 0 .. 252 : n \in Nat /\ n <= 255
  OBVIOUS
<1>2. Servos \subseteq 0 .. 252
  BY DxlBusAssumption
<1> QED
  BY <1>1, <1>2, Bytes

(* The data of an answer, as the assumption has them.                      *)
LEMMA DataTypes ==
  ASSUME NEW id \in Servos, NEW data \in Data[id]
  PROVE  data \in Seq(Byte) /\ Len(Stuffed(<<0>> \o data)) + 3 < 2^16
<1>1. Data[id] \in SUBSET Seq(Byte)
  BY DxlBusAssumption
<1> QED
  BY <1>1, DxlBusAssumption

(* An answer, and the status that carries it, are bytes.                   *)
LEMMA AnswersTypes ==
  ASSUME NEW request, request[2] \in Servos, NEW parameters \in Answers(request)
  PROVE  /\ request[2] \in Byte
         /\ parameters \in Seq(Byte) /\ parameters # <<>>
         /\ Len(Stuffed(parameters)) + 3 < 2^16
         /\ Status(request[2], parameters) \in Seq(Byte)
<1>1. request[2] \in Byte /\ 85 \in Byte
  BY ServoIds, Bytes
<1>2. /\ parameters \in Seq(Byte) /\ parameters # <<>>
      /\ Len(Stuffed(parameters)) + 3 < 2^16
  <2>1. CASE parameters = <<0>>
    <3>1. PICK m : m = 2^16
      OBVIOUS
    <3>2. 1 + 3 < m
      BY <3>1, Powers
    <3>3. Len(Stuffed(parameters)) + 3 < 2^16
      BY <2>1, <3>1, <3>2, StuffZero
    <3> QED
      BY <2>1, <3>3, StuffZero
  <2>2. CASE parameters # <<0>>
    <3>1. PICK data \in Data[request[2]] : parameters = <<0>> \o data
      BY <2>2 DEF Answers
    <3>2. data \in Seq(Byte) /\ Len(Stuffed(parameters)) + 3 < 2^16
      BY <3>1, DataTypes
    <3>3. Joined(parameters, <<0>>, data)
      BY <3>1, <3>2, StuffZero, BytePlaces
    <3>4. parameters \in Seq(Byte) /\ Len(parameters) = 1 + Len(data)
      BY <3>3 DEF Joined
    <3>5. parameters # <<>>
      BY <3>2, <3>4, LenProperties, EmptySeq
    <3> QED
      BY <3>2, <3>4, <3>5
  <2> QED
    BY <2>1, <2>2
<1> QED
  BY <1>1, <1>2, WrittenTypes DEF Status

(* The parser is in one of its states, and only servos of the bus answer.  *)
BusIInv ==
  /\ BusTypeOK
  /\ Parsing(incoming_packet)
  /\ \A request \in asked : request[2] \in Servos

(* dxl_send leaves the parser where it is, or at the header.               *)
LEMMA SentParses ==
  ASSUME NEW p, Parsing(p)
  PROVE  Parsing(Sent(p))
<1>1. CASE p.dxl_state = 0
  BY <1>1, BlankParses DEF Sent
<1>2. CASE p.dxl_state # 0
  <2>1. p \in Packet
    BY DEF Parsing
  <2>2. PICK q : q = [p EXCEPT !.process = FALSE]
    OBVIOUS
  <2>3. /\ q \in Packet /\ q.dxl_state = p.dxl_state /\ q.crc16 = p.crc16
        /\ q.parameters = p.parameters /\ q.parameter_nb = p.parameter_nb
    BY <2>1, <2>2 DEF Packet
  <2>4. Parsing(q)
    BY <2>3 DEF Parsing
  <2> QED
    BY <1>2, <2>2, <2>4 DEF Sent
<1> QED
  BY <1>1, <1>2

(* What is left of the bytes after the first, or after some.               *)
LEMMA RestOfBytes ==
  ASSUME NEW s \in Seq(Byte)
  PROVE  /\ \A n \in 0 .. Len(s) : SubSeq(s, n + 1, Len(s)) \in Seq(Byte)
         /\ s # <<>> => Head(s) \in Byte /\ Tail(s) \in Seq(Byte)
<1>1. ASSUME NEW n \in 0 .. Len(s) PROVE SubSeq(s, n + 1, Len(s)) \in Seq(Byte)
  <2>1. Len(s) \in Nat /\ \A i \in 1 .. Len(s) : s[i] \in Byte
    BY LenProperties, ElementOfSeq
  <2>2. \A i \in n + 1 .. Len(s) : s[i] \in Byte
    BY <2>1
  <2>3. n + 1 \in Int /\ Len(s) \in Int
    BY <2>1
  <2> QED
    BY <2>2, <2>3, SubSeqProperties
<1>2. ASSUME s # <<>> PROVE Head(s) \in Byte /\ Tail(s) \in Seq(Byte)
  BY <1>2, HeadTailProperties
<1> QED
  BY <1>1, <1>2

(* The state the system starts in.                                         *)
LEMMA InitBusIInv == BusInit => BusIInv
<1> SUFFICES ASSUME BusInit PROVE BusIInv
  OBVIOUS
<1>1. Parsing(incoming_packet) /\ incoming_packet \in Packet
  BY BlankParses, ParsingTypes DEF BusInit
<1>2. wire \in Seq(Byte) /\ asked \subseteq Requests /\ awaited \in Requests \cup {None}
  BY EmptySeq DEF BusInit
<1>3. \A request \in asked : request[2] \in Servos
  BY DEF BusInit
<1>4. cuts \in 0 .. MaxCuts
  BY DxlBusAssumption DEF BusInit
<1> QED
  BY <1>1, <1>2, <1>3, <1>4 DEF BusIInv, BusTypeOK

(* A request is sent.                                                      *)
LEMMA SendBusIInv ==
  ASSUME BusIInv, NEW request \in Requests, NEW lost, NEW heard, dxl_send(request, lost, heard)
  PROVE  BusIInv'
<1>1. Parsing(incoming_packet') /\ incoming_packet' \in Packet
  <2>1. incoming_packet' = Sent(incoming_packet) /\ Parsing(incoming_packet)
    BY DEF dxl_send, BusIInv
  <2> QED
    BY <2>1, SentParses, ParsingTypes
<1>2. wire' \in Seq(Byte)
  <2>1. wire \in Seq(Byte) /\ lost \in 0 .. Len(wire) /\ wire' = SubSeq(wire, lost + 1, Len(wire))
    BY DEF dxl_send, BusIInv, BusTypeOK
  <2> QED
    BY <2>1, RestOfBytes
<1>3. awaited' \in Requests \cup {None}
  BY DEF dxl_send
<1>4. asked' = asked \/ (request[2] \in Servos /\ asked' = asked \cup {request})
  BY DEF dxl_send
<1>5. asked' \subseteq Requests /\ \A r \in asked' : r[2] \in Servos
  BY <1>4 DEF BusIInv, BusTypeOK
<1>6. cuts' \in 0 .. MaxCuts
  <2>1. MaxCuts \in Nat /\ cuts \in 0 .. MaxCuts
    BY DxlBusAssumption DEF BusIInv, BusTypeOK
  <2>2. cuts' = 0 \/ cuts' = cuts \/ (cuts < MaxCuts /\ cuts' = cuts + 1)
    BY DEF dxl_send
  <2> QED
    BY <2>1, <2>2
<1> QED
  BY <1>1, <1>2, <1>3, <1>5, <1>6 DEF BusIInv, BusTypeOK

(* What a servo sends is the status of an answer to what it was asked.     *)
LEMMA AnswerIsStatus ==
  ASSUME BusIInv, AnswerSome
  PROVE  \E request \in asked : \E parameters \in Answers(request) :
           Answer(request, Status(request[2], parameters))
<1>1. PICK request \in asked : \E status \in Statuses[request] : Answer(request, status)
  BY DEF AnswerSome
<1>2. request \in Requests /\ request[2] \in Servos
  BY <1>1 DEF BusIInv, BusTypeOK
<1>3. Statuses[request] = {Status(request[2], parameters) : parameters \in Answers(request)}
  BY <1>2 DEF Statuses
<1> QED
  BY <1>1, <1>3

(* A servo answers.                                                        *)
LEMMA AnswerBusIInv ==
  ASSUME BusIInv, NEW request \in asked, NEW parameters \in Answers(request),
         Answer(request, Status(request[2], parameters))
  PROVE  BusIInv'
<1>1. wire' \in Seq(Byte)
  <2>1. Status(request[2], parameters) \in Seq(Byte) /\ wire \in Seq(Byte)
    BY AnswersTypes DEF BusIInv, BusTypeOK
  <2>2. wire' = wire \o Status(request[2], parameters)
    BY DEF Answer
  <2> QED
    BY <2>1, <2>2, ConcatProperties
<1>2. asked' \subseteq asked /\ UNCHANGED <<incoming_packet, awaited, cuts>>
  BY DEF Answer
<1> QED
  BY <1>1, <1>2 DEF BusIInv, BusTypeOK

(* A byte is parsed.                                                       *)
LEMMA TickBusIInv == BusIInv /\ dxl_tick => BusIInv'
<1> SUFFICES ASSUME BusIInv, dxl_tick PROVE BusIInv'
  OBVIOUS
<1>1. Head(wire) \in Byte /\ wire' \in Seq(Byte)
  BY RestOfBytes DEF dxl_tick, BusIInv, BusTypeOK
<1>2. Parsing(incoming_packet') /\ incoming_packet' \in Packet
  <2>1. /\ Parsing(incoming_packet)
        /\ incoming_packet' = dxl_packet_push_byte(incoming_packet, Head(wire))
    BY DEF dxl_tick, BusIInv
  <2> QED
    BY <1>1, <2>1, ParserKeepsTypes, ParsingTypes
<1>3. UNCHANGED <<awaited, asked, cuts>>
  BY DEF dxl_tick
<1> QED
  BY <1>1, <1>2, <1>3 DEF BusIInv, BusTypeOK

(* The wait is over.                                                       *)
LEMMA ReturnBusIInv == BusIInv /\ (GetReply \/ GiveUp) => BusIInv'
BY DEF BusIInv, BusTypeOK, GetReply, GiveUp

(* No step disturbs the invariant.                                         *)
LEMMA NextBusIInv == BusIInv /\ [BusNext]_busVars => BusIInv'
<1> SUFFICES ASSUME BusIInv, [BusNext]_busVars PROVE BusIInv'
  OBVIOUS
<1>1. CASE \E heard \in BOOLEAN : Ask(Requests, heard)
  BY <1>1, SendBusIInv DEF Ask
<1>2. CASE AnswerSome
  BY <1>2, AnswerIsStatus, AnswerBusIInv
<1>3. CASE Listen
  BY <1>3, TickBusIInv, ReturnBusIInv DEF Listen
<1>4. CASE UNCHANGED busVars
  BY <1>4 DEF BusIInv, BusTypeOK, busVars
<1> QED
  BY <1>1, <1>2, <1>3, <1>4 DEF BusNext

(* The inductive invariant holds in every state.                           *)
THEOREM SpecBusIInv == BusSpec => []BusIInv
BY InitBusIInv, NextBusIInv, PTL DEF BusSpec

(* Type correctness: whatever comes, cut or not, the parser stays in one   *)
(* of its states and the checksum fits its word until its low byte is      *)
(* taken away (dxl_packet_push_byte, dxl_send).                            *)
THEOREM BusTypes == BusSpec => []BusTypeOK
<1>1. BusIInv => BusTypeOK
  BY DEF BusIInv
<1> QED
  BY <1>1, SpecBusIInv, PTL

-----------------------------------------------------------------------------
(* What a reply is worth.  The checksum alone cannot tell that bytes come  *)
(* from one packet: pieces of two can agree with it.  But as long as no    *)
(* packet is cut, what is on the wire is a sequence of whole statuses, of  *)
(* which the parser reads one after the other, and each becomes a reply    *)
(* with its last byte and never before.                                    *)

(* What a servo may answer, to whatever it is asked.                       *)
AnswersOf(id) == UNION {Answers(<<op, id>>) : op \in Operation}

(* The answers fit into parameters[] when they are stuffed.                *)
RepliesFit ==
  \A id \in Servos : \A ps \in AnswersOf(id) : Len(Stuffed(ps)) + 3 < DXL_MAX_PARAMS

(* The status of a servo among I.                                          *)
IsStatus(c, I) == \E id \in I : \E ps \in AnswersOf(id) : c = Status(id, ps)

(* Whole statuses, one after another: w is a status and what f has after   *)
(* it, and so on until nothing is left.                                    *)
Whole(f, n, I) ==
  /\ f[n] = <<>>
  /\ \A i \in 1 .. n : \E c : IsStatus(c, I) /\ f[i-1] = c \o f[i]

Stream(w, I) ==
  w \in Seq(Byte) /\ \E n \in Nat : \E f \in [0 .. n -> Seq(Byte)] : f[0] = w /\ Whole(f, n, I)

(* What is answered to a request may be answered.                          *)
LEMMA AnswerToRequest ==
  ASSUME NEW request \in Requests, NEW ps \in Answers(request)
  PROVE  ps \in AnswersOf(request[2])
<1>1. request \in Operation \X (0 .. 252)
  BY DxlBusAssumption
<1>2. PICK op \in Operation, id \in 0 .. 252 : request = <<op, id>>
  BY <1>1
<1>3. ps \in Answers(<<op, id>>)
  BY <1>2
<1> QED
  BY <1>2, <1>3 DEF AnswersOf

(* Whatever it answers, and the status that carries it.                    *)
LEMMA AnswersOfTypes ==
  ASSUME NEW id \in Servos, NEW ps \in AnswersOf(id)
  PROVE  /\ id \in Byte /\ ps \in Seq(Byte) /\ ps # <<>>
         /\ Status(id, ps) \in Seq(Byte)
<1>1. PICK op \in Operation : ps \in Answers(<<op, id>>)
  BY DEF AnswersOf
<1>2. PICK request : request = <<op, id>>
  OBVIOUS
<1>3. request[2] = id /\ ps \in Answers(request)
  BY <1>1, <1>2
<1> QED
  BY <1>3, AnswersTypes

(* A status is made of bytes.                                              *)
LEMMA StatusTypes ==
  ASSUME NEW I \in SUBSET Servos, NEW c, IsStatus(c, I)
  PROVE  c \in Seq(Byte)
<1>1. PICK id \in I : \E ps \in AnswersOf(id) : c = Status(id, ps)
  BY DEF IsStatus
<1>2. PICK ps \in AnswersOf(id) : c = Status(id, ps)
  BY <1>1
<1> QED
  BY <1>2, AnswersOfTypes

(* \o of bytes.                                                            *)
LEMMA BytesJoin ==
  /\ \A s, t \in Seq(Byte) : s \o t \in Seq(Byte)
  /\ \A s, t, u \in Seq(Byte) : (s \o t) \o u = s \o (t \o u)
  /\ \A s \in Seq(Byte) : <<>> \o s = s /\ s \o <<>> = s
<1>1. \A s, t \in Seq(Byte) : s \o t \in Seq(Byte)
  BY ConcatProperties
<1>2. \A s, t, u \in Seq(Byte) : (s \o t) \o u = s \o (t \o u)
  BY ConcatAssociative
<1>3. \A s \in Seq(Byte) : <<>> \o s = s /\ s \o <<>> = s
  BY ConcatEmptySeq
<1> QED
  BY <1>1, <1>2, <1>3

(* Nothing is no status.                                                   *)
LEMMA StreamEmpty == \A I : Stream(<<>>, I)
<1> SUFFICES ASSUME NEW I PROVE Stream(<<>>, I)
  OBVIOUS
<1> DEFINE f == [i \in 0 .. 0 |-> <<>>]
<1>1. <<>> \in Seq(Byte)
  BY EmptySeq
<1>2. f \in [0 .. 0 -> Seq(Byte)] /\ f[0] = <<>>
  BY <1>1
<1> HIDE DEF f
<1>3. Whole(f, 0, I)
  BY <1>2 DEF Whole
<1> QED
  BY <1>1, <1>2, <1>3 DEF Stream

(* One more status at the end.                                             *)
LEMMA StreamAppend ==
  ASSUME NEW I \in SUBSET Servos, NEW w, Stream(w, I), NEW d, IsStatus(d, I)
  PROVE  Stream(w \o d, I)
<1>0. PICK n \in Nat : \E f \in [0 .. n -> Seq(Byte)] : f[0] = w /\ Whole(f, n, I)
  BY DEF Stream
<1>1. PICK f \in [0 .. n -> Seq(Byte)] : f[0] = w /\ Whole(f, n, I)
  BY <1>0
<1>2. d \in Seq(Byte) /\ w \in Seq(Byte) /\ \A i \in 0 .. n : f[i] \in Seq(Byte)
  BY StatusTypes DEF Stream
<1> DEFINE g == [i \in 0 .. n + 1 |-> IF i = n + 1 THEN <<>> ELSE f[i] \o d]
<1>3. <<>> \in Seq(Byte) /\ \A i \in 0 .. n : f[i] \o d \in Seq(Byte)
  BY <1>2, BytesJoin, EmptySeq
<1>4. /\ g \in [0 .. n + 1 -> Seq(Byte)] /\ g[n + 1] = <<>>
      /\ \A i \in 0 .. n : g[i] = f[i] \o d
  BY <1>3
<1> HIDE DEF g
<1>5. ASSUME NEW i \in 1 .. n + 1 PROVE \E c : IsStatus(c, I) /\ g[i-1] = c \o g[i]
  <2>1. CASE i = n + 1
    <3>1. i - 1 = n /\ n \in 0 .. n /\ f[n] = <<>>
      BY <1>1, <2>1 DEF Whole
    <3>2. g[i-1] = <<>> \o d
      BY <1>4, <3>1
    <3>3. <<>> \o d = d /\ d \o <<>> = d
      BY <1>2, BytesJoin
    <3>4. g[i] = <<>>
      BY <1>4, <2>1
    <3> QED
      BY <3>2, <3>3, <3>4
  <2>2. CASE i # n + 1
    <3>1. i \in 1 .. n /\ i \in 0 .. n /\ i - 1 \in 0 .. n
      BY <2>2
    <3>2. PICK c : IsStatus(c, I) /\ f[i-1] = c \o f[i]
      BY <1>1, <3>1 DEF Whole
    <3>3. c \in Seq(Byte)
      BY <3>2, StatusTypes
    <3>4. (c \o f[i]) \o d = c \o (f[i] \o d)
      <4>1. f[i] \in Seq(Byte) /\ d \in Seq(Byte)
        BY <1>2, <3>1
      <4> QED
        BY <3>3, <4>1, BytesJoin, Zenon
    <3>5. g[i-1] = (c \o f[i]) \o d /\ g[i] = f[i] \o d
      BY <1>4, <3>1, <3>2
    <3> QED
      BY <3>2, <3>4, <3>5
  <2> QED
    BY <2>1, <2>2
<1>6. Whole(g, n + 1, I)
  BY <1>4, <1>5 DEF Whole
<1>7. g[0] = w \o d /\ w \o d \in Seq(Byte) /\ n + 1 \in Nat
  <2>1. 0 \in 0 .. n /\ n + 1 \in Nat
    OBVIOUS
  <2>2. g[0] = w \o d
    BY <1>1, <1>4, <2>1
  <2>3. w \o d \in Seq(Byte)
    BY <1>2, BytesJoin, Zenon
  <2> QED
    BY <2>1, <2>2, <2>3
<1> QED
  BY <1>4, <1>6, <1>7 DEF Stream

(* The first status, and the others.                                       *)
Leads(c, t, w, I) == IsStatus(c, I) /\ Stream(t, I) /\ w = c \o t

(* A stream that is not empty has a first status.                          *)
LEMMA StreamFirst ==
  ASSUME NEW I \in SUBSET Servos, NEW w, Stream(w, I), w # <<>>
  PROVE  \E c, t : Leads(c, t, w, I)
<1>0. PICK n \in Nat : \E f \in [0 .. n -> Seq(Byte)] : f[0] = w /\ Whole(f, n, I)
  BY DEF Stream
<1>1. PICK f \in [0 .. n -> Seq(Byte)] : f[0] = w /\ Whole(f, n, I)
  BY <1>0
<1>2. n # 0
  BY <1>1 DEF Whole
<1>3. PICK k \in Nat : n = k + 1
  <2>1. n - 1 \in Nat /\ n = (n - 1) + 1
    BY <1>2
  <2> QED
    BY <2>1
<1> DEFINE g == [i \in 0 .. k |-> f[i + 1]]
<1>4. \A i \in 0 .. k : i + 1 \in 0 .. n /\ f[i + 1] \in Seq(Byte)
  BY <1>3
<1>5. g \in [0 .. k -> Seq(Byte)] /\ \A i \in 0 .. k : g[i] = f[i + 1]
  BY <1>4
<1> HIDE DEF g
<1>6. g[k] = <<>>
  BY <1>1, <1>3, <1>5 DEF Whole
<1>7. ASSUME NEW i \in 1 .. k PROVE \E c : IsStatus(c, I) /\ g[i-1] = c \o g[i]
  <2>1. i + 1 \in 1 .. n /\ i - 1 \in 0 .. k /\ i \in 0 .. k /\ (i + 1) - 1 = i /\ (i - 1) + 1 = i
    BY <1>3
  <2>2. \E c : IsStatus(c, I) /\ f[(i + 1) - 1] = c \o f[i + 1]
    BY <1>1, <2>1 DEF Whole
  <2>3. g[i-1] = f[i] /\ g[i] = f[i + 1]
    BY <1>5, <2>1
  <2> QED
    BY <2>1, <2>2, <2>3
<1>8. Whole(g, k, I)
  BY <1>6, <1>7 DEF Whole
<1>9. 1 \in 1 .. n /\ 1 - 1 = 0 /\ 0 \in 0 .. k /\ 0 + 1 = 1
  BY <1>3
<1>10. PICK c : IsStatus(c, I) /\ f[1-1] = c \o f[1]
  BY <1>1, <1>9 DEF Whole
<1>11. w = c \o g[0]
  BY <1>1, <1>5, <1>9, <1>10
<1>12. Stream(g[0], I)
  BY <1>5, <1>8, <1>9 DEF Stream
<1>13. Leads(c, g[0], w, I)
  BY <1>10, <1>11, <1>12 DEF Leads
<1> QED
  BY <1>13

(* The parser, given some bytes, goes through some states.                 *)
LEMMA ParsesExists ==
  ASSUME NEW p, Parsing(p), NEW bytes \in Seq(Byte)
  PROVE  \E state : Parses(state, p, bytes)
<1> DEFINE V == {q \in Packet : Parsing(q)}
           step == [i \in 1 .. Len(bytes) |-> [q \in V |-> dxl_packet_push_byte(q, bytes[i])]]
<1>1. Len(bytes) \in Nat /\ \A i \in 1 .. Len(bytes) : bytes[i] \in Byte
  BY LenProperties, ElementOfSeq
<1>2. ASSUME NEW i \in 1 .. Len(bytes), NEW q \in V PROVE dxl_packet_push_byte(q, bytes[i]) \in V
  BY <1>1, ParserKeepsTypes, ParsingTypes
<1>3. p \in V
  BY ParsingTypes
<1> HIDE DEF V
<1>4. step \in [1 .. Len(bytes) -> [V -> V]]
  BY <1>2
<1>5. \A i \in 1 .. Len(bytes), q \in V : step[i][q] = dxl_packet_push_byte(q, bytes[i])
  OBVIOUS
<1> HIDE DEF step
<1>6. \E f \in [0 .. Len(bytes) -> V] : Recursive(f, Len(bytes), p, step)
  BY <1>1, <1>3, <1>4, RecursiveExists
<1>7. PICK f \in [0 .. Len(bytes) -> V] : Recursive(f, Len(bytes), p, step)
  BY <1>6
<1>8. ASSUME NEW i \in 1 .. Len(bytes) PROVE f[i] = dxl_packet_push_byte(f[i-1], bytes[i])
  <2>1. i - 1 \in 0 .. Len(bytes)
    BY <1>1
  <2>2. f[i-1] \in V
    BY <2>1
  <2>3. f[i] = step[i][f[i-1]]
    BY <1>7 DEF Recursive
  <2> QED
    BY <1>5, <2>2, <2>3
<1>9. f[0] = p
  BY <1>7 DEF Recursive
<1> QED
  BY <1>8, <1>9 DEF Parses

(* What is left of c, of which n bytes have been read, and t.              *)
Rests(w, c, n, t) ==
  /\ w \in Seq(Byte) /\ Len(w) = (Len(c) - n) + Len(t)
  /\ \A i \in 1 .. Len(c) - n : w[i] = c[n + i]
  /\ \A i \in 1 .. Len(t) : w[(Len(c) - n) + i] = t[i]

(* Nothing has been read.                                                  *)
LEMMA RestsAll ==
  ASSUME NEW c \in Seq(Byte), NEW t \in Seq(Byte) PROVE Rests(c \o t, c, 0, t)
<1>1. PICK w : w = c \o t
  OBVIOUS
<1>2. Joined(w, c, t) /\ Len(c) \in Nat /\ Len(c) - 0 = Len(c)
  BY <1>1, BytePlaces, LenProperties
<1>3. \A i \in 1 .. Len(c) : 0 + i = i
  BY <1>2
<1> QED
  BY <1>1, <1>2, <1>3 DEF Rests, Joined

(* The next byte is read.                                                  *)
LEMMA RestsTail ==
  ASSUME NEW c \in Seq(Byte), NEW t \in Seq(Byte), NEW n \in Nat, n < Len(c),
         NEW w, Rests(w, c, n, t)
  PROVE  w # <<>> /\ Head(w) = c[n + 1] /\ Rests(Tail(w), c, n + 1, t)
<1>1. PICK l \in Nat, k \in Nat : l = Len(c) /\ k = Len(t)
  BY LenProperties
<1>2. /\ w \in Seq(Byte) /\ Len(w) = (l - n) + k /\ n < l
      /\ \A i \in 1 .. l - n : w[i] = c[n + i]
      /\ \A i \in 1 .. k : w[(l - n) + i] = t[i]
  BY <1>1 DEF Rests
<1>3. PICK v : v = Tail(w)
  OBVIOUS
<1>4. w # <<>>
  BY <1>1, <1>2
<1>5. /\ Head(w) = w[1] /\ v \in Seq(Byte) /\ Len(v) = Len(w) - 1
      /\ \A i \in 1 .. Len(v) : v[i] = w[i + 1]
  BY <1>3, <1>4, <1>2, HeadTailProperties
<1>6. Head(w) = c[n + 1]
  <2>1. 1 \in 1 .. l - n
    BY <1>2
  <2>2. w[1] = c[n + 1]
    BY <1>2, <2>1
  <2> QED
    BY <1>5, <2>2
<1>7. Len(v) = (l - (n + 1)) + k
  BY <1>1, <1>2, <1>5
<1>8. ASSUME NEW i \in 1 .. l - (n + 1) PROVE v[i] = c[(n + 1) + i]
  <2>1. i \in 1 .. Len(v) /\ i + 1 \in 1 .. l - n /\ n + (i + 1) = (n + 1) + i
    BY <1>1, <1>2, <1>7
  <2>2. v[i] = w[i + 1] /\ w[i + 1] = c[n + (i + 1)]
    BY <1>2, <1>5, <2>1
  <2> QED
    BY <2>1, <2>2
<1>9. ASSUME NEW i \in 1 .. k PROVE v[(l - (n + 1)) + i] = t[i]
  <2>1. PICK j : j = (l - (n + 1)) + i
    OBVIOUS
  <2>2. j \in 1 .. Len(v) /\ j + 1 = (l - n) + i
    BY <1>1, <1>2, <1>7, <2>1
  <2>3. v[j] = w[j + 1] /\ w[(l - n) + i] = t[i]
    BY <1>2, <1>5, <2>2
  <2> QED
    BY <2>1, <2>2, <2>3
<1> QED
  BY <1>1, <1>3, <1>4, <1>5, <1>6, <1>7, <1>8, <1>9 DEF Rests

(* All of c has been read.                                                 *)
LEMMA RestsEnd ==
  ASSUME NEW c \in Seq(Byte), NEW t \in Seq(Byte), NEW w, Rests(w, c, Len(c), t)
  PROVE  w = t
<1>1. PICK l \in Nat, k \in Nat : l = Len(c) /\ k = Len(t)
  BY LenProperties
<1>2. w \in Seq(Byte) /\ Len(w) = (l - l) + k /\ \A i \in 1 .. k : w[(l - l) + i] = t[i]
  BY <1>1 DEF Rests
<1>3. Len(w) = Len(t) /\ \A i \in 1 .. k : (l - l) + i = i
  BY <1>1, <1>2
<1>4. \A i \in 1 .. Len(w) : w[i] = t[i]
  BY <1>1, <1>2, <1>3
<1> QED
  BY <1>2, <1>3, <1>4, SeqEqual

(* More comes.                                                             *)
LEMMA RestsAppend ==
  ASSUME NEW c \in Seq(Byte), NEW t \in Seq(Byte), NEW n \in 0 .. Len(c),
         NEW w, Rests(w, c, n, t), NEW d \in Seq(Byte)
  PROVE  Rests(w \o d, c, n, t \o d)
<1>1. PICK l \in Nat, k \in Nat : l = Len(c) /\ k = Len(t)
  BY LenProperties
<1>2. PICK r \in Nat : r = l - n
  <2>1. l - n \in Nat
    BY <1>1
  <2> QED
    BY <2>1
<1>3. /\ w \in Seq(Byte) /\ Len(w) = r + k
      /\ \A i \in 1 .. r : w[i] = c[n + i]
      /\ \A i \in 1 .. k : w[r + i] = t[i]
  BY <1>1, <1>2 DEF Rests
<1>4. PICK v : v = w \o d
  OBVIOUS
<1>5. PICK u : u = t \o d
  OBVIOUS
<1>6. PICK h \in Nat : h = Len(d)
  BY LenProperties
<1>7. /\ v \in Seq(Byte) /\ Len(v) = (r + k) + h
      /\ \A i \in 1 .. r + k : v[i] = w[i]
      /\ \A i \in 1 .. h : v[(r + k) + i] = d[i]
  <2>1. Joined(v, w, d)
    BY <1>3, <1>4, BytePlaces, Zenon
  <2> QED
    BY <1>3, <1>6, <2>1 DEF Joined
<1>8. /\ Len(u) = k + h
      /\ \A i \in 1 .. k : u[i] = t[i]
      /\ \A i \in 1 .. h : u[k + i] = d[i]
  <2>1. Joined(u, t, d)
    BY <1>5, BytePlaces, Zenon
  <2> QED
    BY <1>1, <1>6, <2>1 DEF Joined
<1>9. Len(v) = r + Len(u)
  BY <1>7, <1>8
<1>10. \A i \in 1 .. r : v[i] = c[n + i]
  BY <1>3, <1>7
<1>11. ASSUME NEW i \in 1 .. k + h PROVE v[r + i] = u[i]
  <2>1. CASE i <= k
    <3>1. i \in 1 .. k /\ r + i \in 1 .. r + k
      BY <2>1
    <3> QED
      BY <1>3, <1>7, <1>8, <3>1
  <2>2. CASE ~(i <= k)
    <3>1. PICK j \in 1 .. h : i = k + j
      <4>1. i - k \in 1 .. h /\ i = k + (i - k)
        BY <2>2
      <4> QED
        BY <4>1
    <3>2. r + i = (r + k) + j
      BY <3>1
    <3> QED
      BY <1>7, <1>8, <3>1, <3>2
  <2> QED
    BY <2>1, <2>2
<1> QED
  BY <1>1, <1>2, <1>4, <1>5, <1>7, <1>8, <1>9, <1>10, <1>11 DEF Rests

(* The parser has read n bytes of a status of a servo among I, and the     *)
(* rest of it is on the wire, before whole statuses.                       *)
ReadingAt(p, w, I, id, ps, t, n, state) ==
  /\ id \in I /\ ps \in AnswersOf(id) /\ Stream(t, I)
  /\ n \in 1 .. Len(Status(id, ps)) - 1
  /\ Parses(state, Blank, Status(id, ps)) /\ p = state[n]
  /\ Rests(w, Status(id, ps), n, t)

Reading(p, w, I) == \E id, ps, t, n, state : ReadingAt(p, w, I, id, ps, t, n, state)

(* Between two statuses the parser is blank, or holds a reply of I.        *)
Holds(p, I) == \E id \in I : \E ps \in AnswersOf(id) : p = Accepting(id, ps, 0, 0)

Between(p, w, I) == Stream(w, I) /\ (p = Blank \/ Holds(p, I))

(* A status is read, byte by byte, until it is a reply.                    *)
LEMMA StatusIsRead ==
  ASSUME RepliesFit, NEW id \in Servos, NEW ps \in AnswersOf(id),
         NEW state, Parses(state, Blank, Status(id, ps))
  PROVE  /\ Status(id, ps) \in Seq(Byte)
         /\ Len(Status(id, ps)) \in Nat /\ Len(Status(id, ps)) > 1
         /\ \A n \in 1 .. Len(Status(id, ps)) - 1 : Within(state[n])
         /\ state[Len(Status(id, ps))] = Accepting(id, ps, 0, 0)
<1>1. /\ id \in Byte /\ 85 \in Byte /\ ps \in Seq(Byte) /\ ps # <<>>
      /\ Status(id, ps) \in Seq(Byte)
  BY AnswersOfTypes, Bytes
<1>2. Len(Stuffed(ps)) + 3 < DXL_MAX_PARAMS
  BY DEF RepliesFit
<1>3. PICK p : p = Blank
  OBVIOUS
<1>4. Parsing(p) /\ p.dxl_state = 0 /\ ~p.process
  <2>1. Parsing(p)
    BY <1>3, BlankParses
  <2> QED
    BY <1>3, <2>1 DEF Blank
<1>5. PICK bytes : bytes = dxl_write_packet(id, 85, ps)
  OBVIOUS
<1>6. bytes = Status(id, ps) /\ Parses(state, p, bytes)
  BY <1>3, <1>5 DEF Status
<1>7. /\ Len(bytes) \in Nat /\ Len(bytes) > 1
      /\ \A n \in 1 .. Len(bytes) - 1 : Within(state[n])
  BY <1>1, <1>2, <1>4, <1>5, <1>6, NoReplyBefore
<1>8. state[Len(bytes)] = Accepting(id, ps, 0, 0)
  BY <1>1, <1>2, <1>4, <1>5, <1>6, WrittenIsRead
<1> QED
  BY <1>1, <1>6, <1>7, <1>8

(* The first byte of a status.                                             *)
LEMMA ReadFirst ==
  ASSUME RepliesFit, NEW I \in SUBSET Servos, NEW w, Stream(w, I), w # <<>>
  PROVE  Reading(dxl_packet_push_byte(Blank, Head(w)), Tail(w), I)
<1>0. PICK c, t : Leads(c, t, w, I)
  BY StreamFirst
<1>1. IsStatus(c, I) /\ Stream(t, I) /\ w = c \o t
  BY <1>0 DEF Leads
<1>2. PICK id \in I : \E ps \in AnswersOf(id) : c = Status(id, ps)
  BY <1>1 DEF IsStatus
<1>3. PICK ps \in AnswersOf(id) : c = Status(id, ps)
  BY <1>2
<1>4. c \in Seq(Byte) /\ t \in Seq(Byte)
  BY <1>1, StatusTypes DEF Stream
<1>5. PICK state : Parses(state, Blank, c)
  BY <1>4, BlankParses, ParsesExists
<1>6. Len(c) \in Nat /\ Len(c) > 1
  <2>1. id \in Servos /\ Parses(state, Blank, Status(id, ps))
    BY <1>3, <1>5
  <2> QED
    BY <1>3, <2>1, StatusIsRead
<1>7. Rests(w, c, 0, t)
  BY <1>1, <1>4, RestsAll
<1>8. Head(w) = c[0 + 1] /\ Rests(Tail(w), c, 0 + 1, t)
  BY <1>4, <1>6, <1>7, RestsTail
<1>9. 0 + 1 = 1 /\ 1 - 1 = 0 /\ 1 \in 1 .. Len(c) /\ 1 \in 1 .. Len(c) - 1
  BY <1>6
<1>10. state[1] = dxl_packet_push_byte(Blank, Head(w))
  <2>1. state[0] = Blank /\ state[1] = dxl_packet_push_byte(state[1-1], c[1])
    BY <1>5, <1>9 DEF Parses
  <2> QED
    BY <1>8, <1>9, <2>1
<1>11. ReadingAt(state[1], Tail(w), I, id, ps, t, 1, state)
  BY <1>1, <1>3, <1>5, <1>8, <1>9 DEF ReadingAt
<1> QED
  BY <1>10, <1>11 DEF Reading

(* The next byte, or the last.                                             *)
LEMMA ReadNext ==
  ASSUME RepliesFit, NEW I \in SUBSET Servos, NEW p, NEW w, Reading(p, w, I)
  PROVE  \/ Reading(dxl_packet_push_byte(p, Head(w)), Tail(w), I)
         \/ Between(dxl_packet_push_byte(p, Head(w)), Tail(w), I)
<1>1. PICK id, ps, t, n, state : ReadingAt(p, w, I, id, ps, t, n, state)
  BY DEF Reading
<1>2. PICK c : c = Status(id, ps)
  OBVIOUS
<1>3. /\ id \in I /\ id \in Servos /\ ps \in AnswersOf(id) /\ Stream(t, I)
      /\ n \in 1 .. Len(c) - 1 /\ Parses(state, Blank, c) /\ p = state[n]
      /\ Rests(w, c, n, t)
  BY <1>1, <1>2 DEF ReadingAt
<1>4. /\ c \in Seq(Byte) /\ Len(c) \in Nat /\ Len(c) > 1
      /\ state[Len(c)] = Accepting(id, ps, 0, 0)
  BY <1>2, <1>3, StatusIsRead
<1>5. t \in Seq(Byte)
  BY <1>3 DEF Stream
<1>6. n \in Nat /\ n < Len(c) /\ n + 1 \in 1 .. Len(c) /\ (n + 1) - 1 = n
  BY <1>3, <1>4
<1>7. Head(w) = c[n + 1] /\ Rests(Tail(w), c, n + 1, t)
  BY <1>3, <1>4, <1>5, <1>6, RestsTail
<1>8. state[n + 1] = dxl_packet_push_byte(p, Head(w))
  <2>1. state[n + 1] = dxl_packet_push_byte(state[(n + 1) - 1], c[n + 1])
    BY <1>3, <1>6 DEF Parses
  <2> QED
    BY <1>3, <1>6, <1>7, <2>1
<1>9. CASE n + 1 < Len(c)
  <2>1. n + 1 \in 1 .. Len(c) - 1
    BY <1>4, <1>6, <1>9
  <2>2. ReadingAt(state[n + 1], Tail(w), I, id, ps, t, n + 1, state)
    BY <1>2, <1>3, <1>7, <2>1 DEF ReadingAt
  <2> QED
    BY <1>8, <2>2 DEF Reading
<1>10. CASE ~(n + 1 < Len(c))
  <2>1. n + 1 = Len(c)
    BY <1>4, <1>6, <1>10
  <2>2. Rests(Tail(w), c, Len(c), t)
    BY <1>7, <2>1
  <2>3. Tail(w) = t
    BY <1>4, <1>5, <2>2, RestsEnd
  <2>4. Holds(state[n + 1], I)
    BY <1>3, <1>4, <2>1 DEF Holds
  <2> QED
    BY <1>3, <1>8, <2>3, <2>4 DEF Between
<1> QED
  BY <1>9, <1>10

(* A status comes behind what is being read.                               *)
LEMMA ReadAppend ==
  ASSUME RepliesFit, NEW I \in SUBSET Servos, NEW p, NEW w, Reading(p, w, I),
         NEW d, IsStatus(d, I)
  PROVE  Reading(p, w \o d, I)
<1>1. PICK id, ps, t, n, state : ReadingAt(p, w, I, id, ps, t, n, state)
  BY DEF Reading
<1>2. PICK c : c = Status(id, ps)
  OBVIOUS
<1>3. /\ id \in I /\ id \in Servos /\ ps \in AnswersOf(id) /\ Stream(t, I)
      /\ n \in 1 .. Len(c) - 1 /\ Parses(state, Blank, c) /\ p = state[n]
      /\ Rests(w, c, n, t)
  BY <1>1, <1>2 DEF ReadingAt
<1>4. c \in Seq(Byte) /\ Len(c) \in Nat
  BY <1>2, <1>3, StatusIsRead
<1>5. t \in Seq(Byte) /\ d \in Seq(Byte) /\ n \in 0 .. Len(c)
  BY <1>3, <1>4, StatusTypes DEF Stream
<1>6. Rests(w \o d, c, n, t \o d)
  BY <1>3, <1>4, <1>5, RestsAppend
<1>7. Stream(t \o d, I)
  BY <1>3, StreamAppend
<1>8. ReadingAt(p, w \o d, I, id, ps, t \o d, n, state)
  BY <1>2, <1>3, <1>6, <1>7 DEF ReadingAt
<1> QED
  BY <1>8 DEF Reading

(* The parser in the middle of a status.                                   *)
LEMMA ReadWithin ==
  ASSUME RepliesFit, NEW I \in SUBSET Servos, NEW p, NEW w, Reading(p, w, I)
  PROVE  Within(p) /\ w \in Seq(Byte)
<1>1. PICK id, ps, t, n, state : ReadingAt(p, w, I, id, ps, t, n, state)
  BY DEF Reading
<1>2. /\ id \in I /\ id \in Servos /\ ps \in AnswersOf(id)
      /\ n \in 1 .. Len(Status(id, ps)) - 1
      /\ Parses(state, Blank, Status(id, ps)) /\ p = state[n]
      /\ w \in Seq(Byte)
  BY <1>1 DEF ReadingAt, Rests
<1> QED
  BY <1>2, StatusIsRead

(* A blank parser, or one with a reply, is at the header.                  *)
LEMMA HeldFields ==
  ASSUME NEW I, NEW p, p = Blank \/ Holds(p, I)
  PROVE  /\ p.dxl_state = 0
         /\ p.process => p.id \in I /\ p.parameters \in AnswersOf(p.id)
<1>1. CASE p = Blank
  BY <1>1 DEF Blank
<1>2. CASE Holds(p, I)
  <2>1. PICK id \in I : \E ps \in AnswersOf(id) : p = Accepting(id, ps, 0, 0)
    BY <1>2 DEF Holds
  <2>2. PICK ps \in AnswersOf(id) : p = Accepting(id, ps, 0, 0)
    BY <2>1
  <2>3. p.dxl_state = 0 /\ p.id = id /\ p.parameters = ps
    BY <2>2 DEF Accepting
  <2> QED
    BY <2>2, <2>3
<1> QED
  BY <1>1, <1>2

(* Only servos among I are to answer, and what is on the wire are whole    *)
(* statuses of theirs, but for the one that is being read.                 *)
Carried(I) ==
  /\ \A request \in asked : request[2] \in I
  /\ Between(incoming_packet, wire, I) \/ Reading(incoming_packet, wire, I)

(* dxl_send cuts no packet: it loses nothing, or everything while the      *)
(* parser is at the header.                                                *)
Uncut ==
  \A request \in Requests, lost \in 1 .. Len(wire), heard \in BOOLEAN :
    dxl_send(request, lost, heard) => lost = Len(wire) /\ incoming_packet.dxl_state = 0

(* Nothing is lost of a sequence, or all of it.                            *)
LEMMA LostBytes ==
  ASSUME NEW w \in Seq(Byte)
  PROVE  SubSeq(w, 0 + 1, Len(w)) = w /\ SubSeq(w, Len(w) + 1, Len(w)) = <<>>
<1>1. PICK l \in Nat : l = Len(w)
  BY LenProperties
<1>2. SubSeq(w, l + 1, l) = <<>>
  BY <1>1, SubSeqEmpty
<1>3. PICK v : v = SubSeq(w, 1, l)
  OBVIOUS
<1>4. \A i \in 1 .. l : w[i] \in Byte
  BY <1>1, ElementOfSeq
<1>5. v \in Seq(Byte) /\ Len(v) = l /\ \A i \in 1 .. l : v[i] = w[i]
  BY <1>1, <1>3, <1>4, SubSeqProperties
<1>6. v = w
  BY <1>1, <1>5, SeqEqual
<1> QED
  BY <1>1, <1>2, <1>3, <1>6

(* A request to a servo among I that is sent without cutting a packet.     *)
LEMMA SendCarried ==
  ASSUME RepliesFit, NEW I \in SUBSET Servos, Carried(I),
         NEW request, NEW lost, NEW heard, dxl_send(request, lost, heard),
         lost # 0 => lost = Len(wire) /\ incoming_packet.dxl_state = 0,
         request[2] \in Servos => request[2] \in I
  PROVE  Carried(I)'
<1>1. \A r \in asked' : r[2] \in I
  <2>1. asked' = asked \/ (request[2] \in Servos /\ asked' = asked \cup {request})
    BY DEF dxl_send
  <2> QED
    BY <2>1 DEF Carried
<1>2. /\ incoming_packet' = Sent(incoming_packet)
      /\ wire' = SubSeq(wire, lost + 1, Len(wire))
  BY DEF dxl_send
<1>3. CASE Between(incoming_packet, wire, I)
  <2>1. incoming_packet.dxl_state = 0
    BY <1>3, HeldFields DEF Between
  <2>2. incoming_packet' = Blank
    BY <1>2, <2>1 DEF Sent
  <2>3. Stream(wire, I) /\ wire \in Seq(Byte)
    BY <1>3 DEF Between, Stream
  <2>4. wire' = wire \/ wire' = <<>>
    BY <1>2, <2>3, LostBytes
  <2>5. Stream(wire', I)
    BY <2>3, <2>4, StreamEmpty
  <2>6. Between(incoming_packet', wire', I)
    BY <2>2, <2>5 DEF Between
  <2> QED
    BY <1>1, <2>6 DEF Carried
<1>4. CASE Reading(incoming_packet, wire, I)
  <2>1. Within(incoming_packet) /\ wire \in Seq(Byte)
    BY <1>4, ReadWithin
  <2>2. lost = 0
    BY <2>1 DEF Within
  <2>3. wire' = wire
    BY <1>2, <2>1, <2>2, LostBytes
  <2>4. incoming_packet' = incoming_packet
    <3>1. PICK p : p = incoming_packet
      OBVIOUS
    <3>2. p \in Packet /\ p.dxl_state # 0 /\ p.process = FALSE
      BY <2>1, <3>1 DEF Within
    <3>3. Sent(p) = [p EXCEPT !.process = FALSE]
      BY <3>2 DEF Sent
    <3>4. [p EXCEPT !.process = FALSE] = p
      BY <3>2 DEF Packet
    <3> QED
      BY <1>2, <3>1, <3>3, <3>4
  <2>5. Reading(incoming_packet', wire', I)
    BY <1>4, <2>3, <2>4
  <2> QED
    BY <1>1, <2>5 DEF Carried
<1> QED
  BY <1>3, <1>4 DEF Carried

(* A servo answers.                                                        *)
LEMMA AnswerCarried ==
  ASSUME RepliesFit, NEW I \in SUBSET Servos, Carried(I), BusTypeOK,
         NEW request \in asked, NEW ps \in Answers(request),
         Answer(request, Status(request[2], ps))
  PROVE  Carried(I)'
<1>1. PICK d : d = Status(request[2], ps)
  OBVIOUS
<1>2. IsStatus(d, I)
  <2>1. request \in Requests /\ request[2] \in I
    BY DEF BusTypeOK, Carried
  <2>2. ps \in AnswersOf(request[2])
    BY <2>1, AnswerToRequest
  <2> QED
    BY <1>1, <2>1, <2>2 DEF IsStatus
<1>3. wire' = wire \o d /\ incoming_packet' = incoming_packet /\ asked' \subseteq asked
  BY <1>1 DEF Answer
<1>4. CASE Between(incoming_packet, wire, I)
  <2>1. Stream(wire \o d, I)
    BY <1>2, <1>4, StreamAppend DEF Between
  <2>2. Between(incoming_packet', wire', I)
    BY <1>3, <1>4, <2>1 DEF Between
  <2> QED
    BY <1>3, <2>2 DEF Carried
<1>5. CASE Reading(incoming_packet, wire, I)
  <2>1. Reading(incoming_packet', wire', I)
    BY <1>2, <1>3, <1>5, ReadAppend
  <2> QED
    BY <1>3, <2>1 DEF Carried
<1> QED
  BY <1>4, <1>5 DEF Carried

(* A byte is parsed, when the parser stops at the end of a packet.         *)
LEMMA TickCarried ==
  ASSUME RepliesFit, ~Stalls, NEW I \in SUBSET Servos, Carried(I), dxl_tick
  PROVE  Carried(I)'
<1>1. /\ ~incoming_packet.process /\ wire # <<>> /\ asked' = asked
      /\ incoming_packet' = dxl_packet_push_byte(incoming_packet, Head(wire))
      /\ wire' = Tail(wire)
  BY DEF dxl_tick
<1>2. CASE Between(incoming_packet, wire, I)
  <2>1. incoming_packet = Blank
    <3>1. ~Holds(incoming_packet, I)
      BY <1>1 DEF Holds, Accepting
    <3> QED
      BY <1>2, <3>1 DEF Between
  <2>2. Stream(wire, I)
    BY <1>2 DEF Between
  <2>3. Reading(incoming_packet', wire', I)
    BY <1>1, <2>1, <2>2, ReadFirst
  <2> QED
    BY <1>1, <2>3 DEF Carried
<1>3. CASE Reading(incoming_packet, wire, I)
  <2>1. Reading(incoming_packet', wire', I) \/ Between(incoming_packet', wire', I)
    BY <1>1, <1>3, ReadNext
  <2> QED
    BY <1>1, <2>1 DEF Carried
<1> QED
  BY <1>2, <1>3 DEF Carried

(* The wait is over, or nothing happens.                                   *)
LEMMA ReturnCarried ==
  ASSUME NEW I, Carried(I), UNCHANGED <<incoming_packet, asked, wire>>
  PROVE  Carried(I)'
BY DEF Carried

(* No step disturbs that, when none cuts a packet.                         *)
LEMMA NextCarried ==
  ASSUME RepliesFit, ~Stalls, BusIInv, Carried(Servos), [BusNext]_busVars, [Uncut]_busVars
  PROVE  Carried(Servos)'
<1>1. CASE UNCHANGED busVars
  BY <1>1, ReturnCarried DEF busVars
<1>2. CASE BusNext /\ Uncut
  <2>1. CASE \E heard \in BOOLEAN : Ask(Requests, heard)
    <3>1. PICK heard \in BOOLEAN, request \in Requests, lost \in 0 .. Len(wire) :
                 dxl_send(request, lost, heard)
      BY <2>1 DEF Ask
    <3>2. lost # 0 => lost = Len(wire) /\ incoming_packet.dxl_state = 0
      <4>1. lost # 0 => lost \in 1 .. Len(wire)
        OBVIOUS
      <4> QED
        BY <1>2, <3>1, <4>1 DEF Uncut
    <3> QED
      BY <3>1, <3>2, SendCarried
  <2>2. CASE AnswerSome
    BY <2>2, AnswerIsStatus, AnswerCarried DEF BusIInv
  <2>3. CASE Listen
    BY <2>3, TickCarried, ReturnCarried DEF Listen, GetReply, GiveUp
  <2> QED
    BY <1>2, <2>1, <2>2, <2>3 DEF BusNext
<1> QED
  BY <1>1, <1>2

(* Nothing is on the wire at first.                                        *)
LEMMA InitCarried == \A I : BusInit => Carried(I)
<1> SUFFICES ASSUME NEW I, BusInit PROVE Carried(I)
  OBVIOUS
<1>1. Between(incoming_packet, wire, I)
  BY StreamEmpty DEF BusInit, Between
<1> QED
  BY <1>1 DEF BusInit, Carried

(* A reply is one a servo of the bus wrote.                                *)
LEMMA CarriedGenuine ==
  ASSUME RepliesFit, NEW I \in SUBSET Servos, Carried(I), incoming_packet.process
  PROVE  /\ incoming_packet.dxl_state = 0
         /\ incoming_packet.id \in I
         /\ incoming_packet.parameters \in AnswersOf(incoming_packet.id)
<1>1. ~Reading(incoming_packet, wire, I)
  BY ReadWithin DEF Within
<1>2. incoming_packet = Blank \/ Holds(incoming_packet, I)
  BY <1>1 DEF Carried, Between
<1> QED
  BY <1>2, HeldFields

(* Where dxl_send cuts no packet, and every answer fits, a reply is one    *)
(* that the very servo it names wrote and that has come to its end: for    *)
(* any servos, data and requests, however the answers lie behind each      *)
(* other in the receive buffer, and wherever in a packet a wait is given   *)
(* up (dxl_packet_push_byte, dxl_get_reply).                               *)
THEOREM WholeIsGenuine ==
  RepliesFit /\ ~Stalls => (BusSpec /\ [][Uncut]_busVars => [](Genuine /\ RepliesEnd))
<1> SUFFICES ASSUME RepliesFit, ~Stalls
             PROVE  BusSpec /\ [][Uncut]_busVars => [](Genuine /\ RepliesEnd)
  OBVIOUS
<1>1. BusInit => Carried(Servos)
  BY InitCarried
<1>2. BusIInv /\ Carried(Servos) /\ [BusNext]_busVars /\ [Uncut]_busVars => Carried(Servos)'
  BY NextCarried
<1>3. Carried(Servos) => Genuine /\ RepliesEnd
  <2> SUFFICES ASSUME Carried(Servos), incoming_packet.process
               PROVE  /\ incoming_packet.dxl_state = 0
                      /\ incoming_packet.id \in Servos
                      /\ \E op \in Operation :
                           incoming_packet.parameters \in Answers(<<op, incoming_packet.id>>)
    BY DEF Genuine, RepliesEnd
  <2>1. /\ incoming_packet.dxl_state = 0 /\ incoming_packet.id \in Servos
        /\ incoming_packet.parameters \in AnswersOf(incoming_packet.id)
    BY CarriedGenuine
  <2> QED
    BY <2>1 DEF AnswersOf
<1> QED
  BY <1>1, <1>2, <1>3, SpecBusIInv, PTL DEF BusSpec

(* dxl_send finds the bus settled: no servo is still to answer, nothing is *)
(* on the wire when it is done, and the parser is at the header.           *)
Settled ==
  \A request \in Requests, lost \in 0 .. Len(wire), heard \in BOOLEAN :
    dxl_send(request, lost, heard) =>
      asked = {} /\ wire' = <<>> /\ incoming_packet.dxl_state = 0

(* What is on the wire comes from the servo that was asked last.           *)
LastCarried ==
  \E I \in SUBSET Servos : Carried(I) /\ (awaited # None => \A id \in I : id = awaited[2])

(* It stays so, when the bus is settled at every request.                  *)
LEMMA NextLastCarried ==
  ASSUME RepliesFit, ~Stalls, BusIInv, LastCarried, [BusNext]_busVars, [Settled]_busVars
  PROVE  LastCarried'
<1>1. PICK I \in SUBSET Servos : Carried(I) /\ (awaited # None => \A id \in I : id = awaited[2])
  BY DEF LastCarried
<1>2. ASSUME Carried(I)', awaited' = awaited \/ awaited' = None PROVE LastCarried'
  BY <1>1, <1>2 DEF LastCarried
<1>3. CASE UNCHANGED busVars
  <2>1. Carried(I)'
    BY <1>1, <1>3, ReturnCarried DEF busVars
  <2> QED
    BY <1>2, <1>3, <2>1 DEF busVars
<1>4. CASE BusNext /\ Settled
  <2>1. CASE \E heard \in BOOLEAN : Ask(Requests, heard)
    <3>1. PICK heard \in BOOLEAN, request \in Requests, lost \in 0 .. Len(wire) :
                 dxl_send(request, lost, heard)
      BY <2>1 DEF Ask
    <3>2. asked = {} /\ wire' = <<>> /\ incoming_packet.dxl_state = 0
      BY <1>4, <3>1 DEF Settled
    <3> DEFINE J == {request[2]} \cap Servos
    <3>3. \A r \in asked' : r[2] \in J
      BY <3>1, <3>2 DEF dxl_send
    <3>4. incoming_packet' = Blank
      BY <3>1, <3>2 DEF dxl_send, Sent
    <3>5. Stream(wire', J)
      BY <3>2, StreamEmpty
    <3>6. Carried(J)'
      BY <3>3, <3>4, <3>5 DEF Carried, Between
    <3>7. awaited' # None => \A id \in J : id = awaited'[2]
      BY <3>1 DEF dxl_send
    <3>8. J \in SUBSET Servos
      OBVIOUS
    <3> HIDE DEF J
    <3> QED
      BY <3>6, <3>7, <3>8 DEF LastCarried
  <2>2. CASE AnswerSome
    <3>1. Carried(I)'
      BY <1>1, <2>2, AnswerIsStatus, AnswerCarried DEF BusIInv
    <3>2. awaited' = awaited
      BY <2>2 DEF AnswerSome, Answer
    <3> QED
      BY <1>2, <3>1, <3>2
  <2>3. CASE Listen
    <3>1. Carried(I)'
      BY <1>1, <2>3, TickCarried, ReturnCarried DEF Listen, GetReply, GiveUp
    <3>2. awaited' = awaited \/ awaited' = None
      BY <2>3 DEF Listen, dxl_tick, GetReply, GiveUp
    <3> QED
      BY <1>2, <3>1, <3>2
  <2> QED
    BY <1>4, <2>1, <2>2, <2>3 DEF BusNext
<1> QED
  BY <1>3, <1>4

(* Where every request finds the bus settled, dxl_get_reply returns the    *)
(* reply of the last packet sent.  Without that it does not: the status of *)
(* an earlier write, or a late answer, is taken for it.                    *)
THEOREM SettledRepliesToLast ==
  RepliesFit /\ ~Stalls => (BusSpec /\ [][Settled]_busVars => ReplyOfLast)
<1> SUFFICES ASSUME RepliesFit, ~Stalls
             PROVE  BusSpec /\ [][Settled]_busVars => ReplyOfLast
  OBVIOUS
<1>1. BusInit => LastCarried
  <2> SUFFICES ASSUME BusInit PROVE LastCarried
    OBVIOUS
  <2>1. Carried({})
    BY InitCarried
  <2> QED
    BY <2>1 DEF LastCarried
<1>2. BusIInv /\ LastCarried /\ [BusNext]_busVars /\ [Settled]_busVars => LastCarried'
  BY NextLastCarried
<1>3. LastCarried => [GetReply => incoming_packet.id = awaited[2]]_busVars
  <2> SUFFICES ASSUME LastCarried, GetReply PROVE incoming_packet.id = awaited[2]
    OBVIOUS
  <2>1. PICK I \in SUBSET Servos : Carried(I) /\ (awaited # None => \A id \in I : id = awaited[2])
    BY DEF LastCarried
  <2>2. incoming_packet.process /\ awaited # None
    BY DEF GetReply
  <2>3. incoming_packet.id \in I
    BY <2>1, <2>2, CarriedGenuine
  <2> QED
    BY <2>1, <2>2, <2>3
<1> QED
  BY <1>1, <1>2, <1>3, SpecBusIInv, PTL DEF BusSpec, ReplyOfLast
=============================================================================
