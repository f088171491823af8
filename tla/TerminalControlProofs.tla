------------------------ MODULE TerminalControlProofs ------------------------
(* Safety of TerminalControl and that it implements Mailbox, for any axes   *)
(* and positions, any number of events and of cuts.                         *)
EXTENDS TerminalControl, SequenceTheorems, TLAPS

(* A thread that is in the dictionaries holds the mutex.                    *)
MutexHeld ==
  /\ pad \in {"store", "release"} => mutex = "main"
  /\ at \in Locked <=> mutex = "dispatch"

(* The order the dispatch thread works on waits until it is deleted.        *)
OrderWaits ==
  at \in Pending \cup {"delete"} =>
    choice \in Key /\ queue[choice] # None /\ lastVal[choice] = queue[choice]

(* The last order to a command waits, or it is noted.                       *)
LastIsKept ==
  \A key \in Key : asked[key] = IF queue[key] = None THEN lastVal[key] ELSE queue[key]

(* What is noted has been written, but for what is being written.           *)
NotedIsTold ==
  \A key \in Key \ lost : ~(at \in Pending /\ choice = key) => Tells(key, lastVal[key])

IInv == TypeOK /\ MutexHeld /\ OrderWaits /\ LastIsKept /\ NotedIsTold

-----------------------------------------------------------------------------
(* The line after an order was written to it.                               *)
LEMMA Appended ==
  ASSUME TypeOK, NEW order \in Order, wire' = Append(wire, order), told' = told
  PROVE  /\ wire' \in Seq(Order)
         /\ Tells(order.key, order.args)'
         /\ \A key \in Key : \A args : key # order.key /\ Tells(key, args) => Tells(key, args)'
<1>1. wire \in Seq(Order) /\ Len(wire) \in Nat
  BY LenProperties DEF TypeOK
<1>2. /\ wire' \in Seq(Order) /\ Len(wire') = Len(wire) + 1
      /\ \A i \in 1 .. Len(wire) : wire'[i] = wire[i]
      /\ wire'[Len(wire) + 1] = order
  BY <1>1, AppendProperties
<1>3. Tells(order.key, order.args)'
  BY <1>1, <1>2 DEF Tells
<1>4. ASSUME NEW key \in Key, NEW args, key # order.key, Tells(key, args)
      PROVE  Tells(key, args)'
  <2>1. ASSUME NEW i \in 1 .. Len(wire'), wire'[i].key = key,
               \A j \in i + 1 .. Len(wire') : wire'[j].key # key
        PROVE  wire'[i].args = args
    <3>1. i \in 1 .. Len(wire) /\ wire'[i] = wire[i]
      BY <1>1, <1>2, <1>4, <2>1
    <3>2. \A j \in i + 1 .. Len(wire) : wire[j].key # key
      BY <1>1, <1>2, <2>1, <3>1
    <3> QED
      BY <1>4, <2>1, <3>1, <3>2 DEF Tells
  <2>2. (\A i \in 1 .. Len(wire') : wire'[i].key # key) => told'[key] = args
    BY <1>1, <1>2, <1>4 DEF Tells
  <2> QED
    BY <2>1, <2>2 DEF Tells
<1> QED
  BY <1>2, <1>3, <1>4

(* The robot reads an order: what it will have been told is the same.       *)
LEMMA Received ==
  ASSUME TypeOK, Receive
  PROVE  /\ wire' \in Seq(Order)
         /\ told' \in [Key -> Args \cup {None}]
         /\ \A key \in Key : \A args : Tells(key, args) => Tells(key, args)'
<1> DEFINE first == Head(wire)
<1>1. /\ wire \in Seq(Order) /\ wire # <<>>
      /\ told \in [Key -> Args \cup {None}]
      /\ told' = [told EXCEPT ![first.key] = first.args]
  BY DEF TypeOK, Receive
<1>2. /\ wire' \in Seq(Order) /\ Len(wire) \in Nat /\ Len(wire') = Len(wire) - 1 /\ Len(wire) > 0
      /\ \A i \in 1 .. Len(wire') : wire'[i] = wire[i + 1]
      /\ first = wire[1] /\ first \in Order
  BY <1>1, HeadTailProperties, EmptySeq, LenProperties DEF Receive
<1>3. told' \in [Key -> Args \cup {None}]
  BY <1>1, <1>2 DEF Order
<1> HIDE DEF first
<1>4. ASSUME NEW key \in Key, NEW args, Tells(key, args)
      PROVE  Tells(key, args)'
  <2>1. ASSUME NEW i \in 1 .. Len(wire'), wire'[i].key = key,
               \A j \in i + 1 .. Len(wire') : wire'[j].key # key
        PROVE  wire'[i].args = args
    <3>1. i + 1 \in 1 .. Len(wire) /\ wire[i + 1].key = key
      BY <1>2, <2>1
    <3>2. ASSUME NEW j \in (i + 1) + 1 .. Len(wire)
          PROVE  wire[j].key # key
      <4>1. j - 1 \in i + 1 .. Len(wire') /\ j - 1 \in 1 .. Len(wire') /\ (j - 1) + 1 = j
        BY <1>2, <2>1
      <4>2. wire'[j - 1].key # key /\ wire'[j - 1] = wire[(j - 1) + 1]
        BY <1>2, <2>1, <4>1
      <4> QED
        BY <4>1, <4>2
    <3> QED
      BY <1>2, <1>4, <2>1, <3>1, <3>2 DEF Tells
  <2>2. ASSUME \A i \in 1 .. Len(wire') : wire'[i].key # key
        PROVE  told'[key] = args
    <3>1. ASSUME NEW j \in 2 .. Len(wire)
          PROVE  wire[j].key # key
      <4>1. j - 1 \in 1 .. Len(wire') /\ (j - 1) + 1 = j
        BY <1>2
      <4> QED
        BY <1>2, <2>2, <4>1
    <3>2. CASE first.key = key
      <4>1. wire[1].args = args
        BY <1>2, <1>4, <3>1, <3>2 DEF Tells
      <4> QED
        BY <1>1, <1>2, <3>2, <4>1
    <3>3. CASE first.key # key
      <4>1. \A j \in 1 .. Len(wire) : wire[j].key # key
        BY <1>2, <3>1, <3>3
      <4> QED
        BY <1>1, <1>2, <1>4, <3>3, <4>1 DEF Tells
    <3> QED
      BY <3>2, <3>3
  <2> QED
    BY <2>1, <2>2 DEF Tells
<1> QED
  BY <1>2, <1>3, <1>4
-----------------------------------------------------------------------------
(* Nothing was asked, written or noted at the start.                        *)
LEMMA InitIInv == Init => IInv
<1> SUFFICES ASSUME Init PROVE IInv
  OBVIOUS
<1>1. <<>> \in Seq(Order) /\ Len(<<>>) = 0
  BY EmptySeq
<1>2. TypeOK
  <2>1. /\ running \in BOOLEAN /\ enabled \in BOOLEAN /\ on \in BOOLEAN /\ link \in BOOLEAN
        /\ connected \in BOOLEAN
    BY DEF Init
  <2>3. /\ lost \subseteq Key /\ events \in 0 .. Events /\ cuts \in 0 .. Cuts
        /\ port \in {"none", "open", "dead", "closed"}
    BY TerminalControlAssumption DEF Init
  <2>2. /\ queue \in [Key -> Args \cup {None}] /\ lastVal \in [Key -> Args \cup {None}]
        /\ told \in [Key -> Args \cup {None}] /\ asked \in [Key -> Args \cup {None}]
    BY DEF Init
  <2> QED
    BY <1>1, <2>1, <2>2, <2>3 DEF Init, TypeOK, Locked, Pending
<1>3. MutexHeld /\ OrderWaits /\ LastIsKept /\ NotedIsTold
  BY <1>1 DEF Init, MutexHeld, OrderWaits, LastIsKept, NotedIsTold, Tells, Locked, Pending
<1> QED
  BY <1>2, <1>3 DEF IInv

(* The pad and send: an order replaces the one that waits.                  *)
LEMMA MainIInv == IInv /\ (Pad \/ MainRuns \/ Interrupt) => IInv'
<1> SUFFICES ASSUME IInv, Pad \/ MainRuns \/ Interrupt PROVE IInv'
  OBVIOUS
<1> USE DEF IInv, dispatch, robot, main
<1>1. ASSUME NEW axis \in Axes, NEW position \in Positions, onAxis(axis, position)
      PROVE  IInv'
  <2>1. [key |-> axis, args |-> <<position>>] \in Order
    BY DEF Order, Key, Args
  <2>2. todo' \in Seq(Order) /\ todo' # <<>>
    BY <1>1, <2>1 DEF onAxis
  <2> QED
    BY <1>1, <2>2, TerminalControlAssumption DEF onAxis, Event, TypeOK, MutexHeld, OrderWaits, LastIsKept, NotedIsTold, Tells
<1>2. CASE ToggleEnable
  <2>1. /\ [key |-> "mute", args |-> <<1>>] \in Order
        /\ [key |-> "start", args |-> <<>>] \in Order
        /\ [key |-> "stop", args |-> <<>>] \in Order
    BY DEF Order, Key, Args, Buttons
  <2>2. todo' \in Seq(Order) /\ todo' # <<>>
    BY <1>2, <2>1 DEF ToggleEnable
  <2> QED
    BY <1>2, <2>2, TerminalControlAssumption DEF ToggleEnable, Event, TypeOK, MutexHeld, OrderWaits, LastIsKept, NotedIsTold, Tells
<1>3. CASE disconnect
  BY <1>3, TerminalControlAssumption DEF disconnect, Event, TypeOK, MutexHeld, OrderWaits, LastIsKept, NotedIsTold, Tells
<1>4. CASE Acquire
  <2>1. TypeOK'
    BY <1>4 DEF Acquire, TypeOK, Locked, Pending
  <2>2. MutexHeld' /\ OrderWaits' /\ LastIsKept'
    BY <1>4 DEF Acquire, MutexHeld, OrderWaits, LastIsKept, Locked, Pending
  <2>3. NotedIsTold'
    BY <1>4 DEF Acquire, NotedIsTold, Tells, Locked, Pending
  <2> QED
    BY <2>1, <2>2, <2>3
<1>5. CASE Store
  <2>1. Head(todo) \in Order
    BY <1>5, HeadTailProperties DEF Store, TypeOK
  <2>2. Head(todo).key \in Key /\ Head(todo).args \in Args /\ Head(todo).args # None
    BY <2>1, TerminalControlAssumption DEF Order
  <2>3. at \notin Locked /\ at \notin Pending \cup {"delete"}
    BY <1>5 DEF Store, MutexHeld, Locked
  <2>4. TypeOK'
    BY <1>5, <2>2 DEF Store, Stored, TypeOK
  <2>5. LastIsKept'
    BY <1>5, <2>2 DEF Store, Stored, LastIsKept, TypeOK
  <2> QED
    BY <1>5, <2>3, <2>4, <2>5 DEF Store, MutexHeld, OrderWaits, NotedIsTold, Tells
<1>6. CASE Release
  <2>1. todo \in Seq(Order) /\ todo # <<>>
    BY <1>6 DEF Release, TypeOK
  <2>2. Tail(todo) \in Seq(Order)
    BY <2>1, HeadTailProperties
  <2> QED
    BY <1>6, <2>2 DEF Release, TypeOK, MutexHeld, OrderWaits, LastIsKept, NotedIsTold, Tells
<1>7. CASE Close
  BY <1>7 DEF Close, TypeOK, MutexHeld, OrderWaits, LastIsKept, NotedIsTold, Tells
<1>8. CASE ClearConnected
  <2>1. TypeOK'
    <3>1. connected' \in BOOLEAN
      BY <1>8 DEF ClearConnected
    <3> QED
      BY <1>8, <3>1 DEF ClearConnected, TypeOK, Locked, Pending
  <2>2. MutexHeld' /\ OrderWaits' /\ LastIsKept'
    BY <1>8 DEF ClearConnected, MutexHeld, OrderWaits, LastIsKept, Locked, Pending
  <2>3. NotedIsTold'
    BY <1>8 DEF ClearConnected, NotedIsTold, Tells, Locked, Pending
  <2> QED
    BY <2>1, <2>2, <2>3
<1>9. CASE Interrupt
  <2>1. <<>> \in Seq(Order)
    BY EmptySeq
  <2>2. running' \in BOOLEAN /\ pad' = "ended" /\ todo' \in Seq(Order)
    BY <1>9, <2>1 DEF Interrupt
  <2>3. UNCHANGED <<mutex, queue, connected, port, enabled, events, dispatch, robot, asked, lost>>
    BY <1>9 DEF Interrupt
  <2> QED
    BY <2>2, <2>3 DEF TypeOK, MutexHeld, OrderWaits, LastIsKept, NotedIsTold, Tells
<1> QED
  BY <1>1, <1>2, <1>3, <1>4, <1>5, <1>6, <1>7, <1>8, <1>9 DEF Pad, MainRuns

(* The dispatch thread: what is noted is written, or lost.                  *)
LEMMA DispatchIInv ==
  ASSUME IInv, Dispatches \/ \E key \in Key : process(key)
  PROVE  IInv'
<1> USE DEF IInv, main, robot, At, Go
<1>1. CASE DispatchThread
  BY <1>1 DEF DispatchThread, TypeOK, MutexHeld, OrderWaits, LastIsKept, NotedIsTold, Tells, Locked, Pending
<1>2. CASE processOneItem
  BY <1>2 DEF processOneItem, TypeOK, MutexHeld, OrderWaits, LastIsKept, NotedIsTold, Tells, Locked, Pending
<1>3. CASE Nothing
  BY <1>3 DEF Nothing, TypeOK, MutexHeld, OrderWaits, LastIsKept, NotedIsTold, Tells, Locked, Pending
<1>4. ASSUME NEW key \in Key, process(key)
      PROVE  IInv'
  <2>1. /\ queue[key] # None /\ choice' = key /\ at = "choose" /\ at' \in {"connect", "delete"}
        /\ lastVal' = [lastVal EXCEPT ![key] = queue[key]]
        /\ at' = "delete" => lastVal[key] = queue[key]
        /\ UNCHANGED <<running, mutex, queue, connected, port, main, robot, asked, lost>>
    BY <1>4 DEF process, Filtered
  <2>2. TypeOK' /\ MutexHeld' /\ OrderWaits' /\ LastIsKept'
    BY <2>1 DEF TypeOK, MutexHeld, OrderWaits, LastIsKept, Locked, Pending
  <2>3. NotedIsTold'
    BY <2>1 DEF TypeOK, NotedIsTold, Tells, Pending
  <2> QED
    BY <2>2, <2>3
<1>5. CASE connect
  <2>1. TypeOK'
    <3>1. connected' \in BOOLEAN /\ port' \in {"none", "open", "dead", "closed"}
      BY <1>5 DEF connect, TypeOK
    <3>2. at = "connect" /\ at' \in {"set_connected", "test"}
      BY <1>5 DEF connect
    <3>3. UNCHANGED <<running, mutex, queue, enabled, pad, todo, events, choice, lastVal, link,
                      wire, told, on, cuts, asked, lost>>
      BY <1>5 DEF connect
    <3> QED
      BY <3>1, <3>2, <3>3 DEF TypeOK, Locked, Pending
  <2>2. MutexHeld' /\ OrderWaits' /\ LastIsKept'
    BY <1>5 DEF connect, MutexHeld, OrderWaits, LastIsKept, Locked, Pending
  <2>3. NotedIsTold'
    BY <1>5 DEF connect, NotedIsTold, Tells, Locked, Pending
  <2> QED
    BY <2>1, <2>2, <2>3
<1>6. CASE SetConnected
  BY <1>6 DEF SetConnected, TypeOK, MutexHeld, OrderWaits, LastIsKept, NotedIsTold, Tells, Locked, Pending
<1>7. CASE TestConnected
  BY <1>7 DEF TestConnected, TypeOK, MutexHeld, OrderWaits, LastIsKept, NotedIsTold, Tells, Locked, Pending
<1>8. CASE send /\ port = "open"
  <2>0. PICK order : order = [key |-> choice, args |-> queue[choice]]
    OBVIOUS
  <2>1. /\ choice \in Key /\ queue[choice] \in Args /\ lastVal[choice] = queue[choice]
        /\ at = "write" /\ at' = "delete"
        /\ wire' = Append(wire, order) /\ lost' = lost \ {choice}
        /\ UNCHANGED <<running, mutex, queue, connected, port, main, choice, lastVal, link,
                       told, on, cuts, asked>>
    BY <1>8, <2>0 DEF send, OrderWaits, TypeOK, Pending
  <2>2. order \in Order /\ order.key = choice /\ order.args = queue[choice]
    BY <2>0, <2>1 DEF Order
  <2>3. /\ wire' \in Seq(Order)
        /\ Tells(order.key, order.args)'
        /\ \A key \in Key : \A args : key # order.key /\ Tells(key, args) => Tells(key, args)'
    BY <2>1, <2>2, Appended
  <2>4. TypeOK' /\ MutexHeld' /\ OrderWaits' /\ LastIsKept'
    BY <2>1, <2>3 DEF TypeOK, MutexHeld, OrderWaits, LastIsKept, Locked, Pending
  <2>5. ASSUME NEW key \in Key \ lost'
        PROVE  Tells(key, lastVal[key])'
    <3>1. CASE key = choice
      <4>1. lastVal'[key] = order.args /\ key = order.key
        BY <2>1, <2>2, <3>1
      <4> QED
        BY <2>3, <4>1 DEF Tells
    <3>2. CASE key # choice
      <4>1. Tells(key, lastVal[key])
        BY <2>1, <2>5, <3>2 DEF NotedIsTold
      <4> QED
        <5>1. PICK args : args = lastVal[key]
          OBVIOUS
        <5>2. Tells(key, args)'
          BY <2>2, <2>3, <3>2, <4>1, <5>1
        <5>3. args = lastVal'[key]
          BY <2>1, <5>1
        <5> QED
          BY <5>2, <5>3 DEF Tells
    <3> QED
      BY <3>1, <3>2
  <2> QED
    BY <2>4, <2>5 DEF NotedIsTold
<1>9. CASE send /\ port # "open"
  <2>1. TypeOK'
    <3>1. connected' \in BOOLEAN /\ choice \in Key /\ lost' \subseteq Key
      BY <1>9 DEF send, TypeOK, OrderWaits, Pending
    <3> QED
      BY <1>9, <3>1 DEF send, TypeOK, Locked, Pending
  <2>2. MutexHeld' /\ OrderWaits' /\ LastIsKept'
    BY <1>9 DEF send, MutexHeld, OrderWaits, LastIsKept, Locked, Pending
  <2>3. NotedIsTold'
    BY <1>9 DEF send, NotedIsTold, Tells, Locked, Pending
  <2> QED
    BY <2>1, <2>2, <2>3
<1>10. CASE Delete
  <2>1. choice \in Key /\ lastVal[choice] = queue[choice] /\ queue[choice] # None
    BY <1>10 DEF Delete, OrderWaits, Pending
  <2> QED
    BY <1>10, <2>1 DEF Delete, TypeOK, MutexHeld, OrderWaits, LastIsKept, NotedIsTold, Tells, Locked, Pending
<1>11. CASE flush
  BY <1>11 DEF flush, TypeOK, MutexHeld, OrderWaits, LastIsKept, NotedIsTold, Tells, Locked, Pending
<1> QED
  BY <1>1, <1>2, <1>3, <1>4, <1>5, <1>6, <1>7, <1>8, <1>9, <1>10, <1>11 DEF Dispatches

(* A cut loses what is on its way, and a restart what the robot was told.   *)
LEMMA RobotIInv == IInv /\ Robot => IInv'
<1> SUFFICES ASSUME IInv, Robot PROVE IInv'
  OBVIOUS
<1> USE DEF IInv, main, dispatch
<1>1. ASSUME NEW restarted \in BOOLEAN, Unplug(restarted)
      PROVE  IInv'
  <2>1. wire' = <<>> /\ <<>> \in Seq(Order) /\ Len(wire') = 0
    BY <1>1, EmptySeq DEF Unplug
  <2>2. /\ told' \in [Key -> Args \cup {None}] /\ lost' \subseteq Key /\ lost \subseteq lost'
        /\ \A key \in Key \ lost' : /\ \A i \in 1 .. Len(wire) : wire[i].key # key
                                   /\ told'[key] = told[key]
    BY <1>1 DEF Unplug, TypeOK
  <2>3. TypeOK'
    <3>1. link' \in BOOLEAN /\ on' \in BOOLEAN
      BY <1>1 DEF Unplug, TypeOK
    <3>2. cuts' \in 0 .. Cuts /\ port' \in {"none", "open", "dead", "closed"}
      BY <1>1, TerminalControlAssumption DEF Unplug, TypeOK
    <3> QED
      BY <1>1, <2>1, <2>2, <3>1, <3>2 DEF Unplug, TypeOK
  <2>4. NotedIsTold'
    BY <1>1, <2>1, <2>2 DEF Unplug, NotedIsTold, Tells
  <2> QED
    BY <1>1, <2>3, <2>4 DEF Unplug, MutexHeld, OrderWaits, LastIsKept
<1>2. CASE Plug
  BY <1>2 DEF Plug, TypeOK, MutexHeld, OrderWaits, LastIsKept, NotedIsTold, Tells
<1>3. CASE Receive
  <2>1. TypeOK'
    <3>1. /\ wire' \in Seq(Order) /\ told' \in [Key -> Args \cup {None}]
          /\ UNCHANGED <<running, mutex, queue, connected, port, enabled, pad, todo, events, at,
                         choice, lastVal, link, cuts, asked, lost>>
      BY <1>3, Received DEF Receive
    <3>2. on' \in BOOLEAN
      BY <1>3 DEF Receive, TypeOK
    <3> QED
      BY <3>1, <3>2 DEF TypeOK
  <2>2. \A key \in Key : \A args : Tells(key, args) => Tells(key, args)'
    BY <1>3, Received
  <2>3. UNCHANGED <<running, mutex, queue, connected, port, main, dispatch, link, cuts, asked, lost>>
    BY <1>3 DEF Receive
  <2>4. NotedIsTold'
    <3>1. ASSUME NEW key \in Key \ lost', ~(at \in Pending /\ choice = key)'
          PROVE  Tells(key, lastVal[key])'
      <4>1. Tells(key, lastVal[key])
        BY <2>3, <3>1 DEF NotedIsTold
      <4> QED
        <5>1. PICK args : args = lastVal[key]
          OBVIOUS
        <5>2. Tells(key, args)'
          BY <2>2, <4>1, <5>1
        <5>3. args = lastVal'[key]
          BY <2>3, <5>1
        <5> QED
          BY <5>2, <5>3 DEF Tells
    <3> QED
      BY <3>1 DEF NotedIsTold
  <2> QED
    BY <2>1, <2>3, <2>4 DEF MutexHeld, OrderWaits, LastIsKept
<1> QED
  BY <1>1, <1>2, <1>3 DEF Robot

(* IInv is kept by every step.                                              *)
LEMMA NextIInv == IInv /\ [Next]_vars => IInv'
<1>1. IInv /\ UNCHANGED vars => IInv'
  BY DEF vars, main, dispatch, robot, IInv, TypeOK, MutexHeld, OrderWaits, LastIsKept,
         NotedIsTold, Tells
<1> QED
  BY <1>1, MainIInv, DispatchIInv, RobotIInv DEF Next

(* Types, for any axes, positions, numbers of events and cuts.              *)
THEOREM ClientTypeOK == Spec => []TypeOK
<1>1. IInv => TypeOK
  BY DEF IInv
<1> QED
  BY <1>1, InitIInv, NextIInv, PTL DEF Spec

(* No order is forgotten but with a connection, however the two threads     *)
(* interleave (TerminalControl.send, process).                              *)
THEOREM ClientAgreed == Spec => []Agreed
<1>1. IInv => Agreed
  BY DEF IInv, Agreed, NotedIsTold, LastIsKept, OrderWaits
<1> QED
  BY <1>1, InitIInv, NextIInv, PTL DEF Spec

-----------------------------------------------------------------------------
(* What the mailbox is made of.                                             *)
LEMMA SameBoxes ==
  ASSUME UNCHANGED <<queue, at, choice, lastVal, wire>>
  PROVE  UNCHANGED Boxes!vars
<1>1. Box' = Box
  BY DEF Box
<1>2. Flight' = Flight
  BY DEF Flight
<1> QED
  BY <1>1, <1>2 DEF Boxes!vars

(* Outside of process the boxes are the queue, and nothing is in flight.    *)
LEMMA Outside ==
  ASSUME TypeOK, at \notin Pending \cup {"delete"}
  PROVE  Box = queue /\ Flight = None
BY DEF Box, Flight, TypeOK

(* The main thread gives orders.                                            *)
LEMMA MainRefines ==
  ASSUME IInv, Pad \/ MainRuns \/ Interrupt
  PROVE  Boxes!Next \/ UNCHANGED Boxes!vars
<1>1. CASE Store
  <2> DEFINE key == Head(todo).key
             args == Head(todo).args
  <2>1. Head(todo) \in Order
    BY <1>1, HeadTailProperties DEF Store, IInv, TypeOK
  <2>2. key \in Key /\ args \in Args
    BY <2>1 DEF Order
  <2>3. at \notin Pending \cup {"delete"} /\ UNCHANGED <<at, choice, lastVal, wire>>
    BY <1>1 DEF Store, IInv, MutexHeld, Locked, dispatch, robot
  <2>4. queue' = [queue EXCEPT ![key] = args] /\ queue' \in [Key -> Args \cup {None}]
    BY <1>1, <2>2 DEF Store, Stored, IInv, TypeOK
  <2>5. Box = queue /\ Box' = queue' /\ Flight = None /\ Flight' = None
    BY <2>3, <2>4, Outside DEF IInv, TypeOK, Box, Flight
  <2>6. Boxes!Give(key, args)
    BY <2>3, <2>4, <2>5 DEF Boxes!Give
  <2> QED
    BY <2>2, <2>6 DEF Boxes!Next
<1>2. CASE ~Store
  <2>1. UNCHANGED <<queue, at, choice, lastVal, wire>>
    BY <1>2 DEF Pad, onAxis, ToggleEnable, disconnect, MainRuns, Acquire, Release, Close,
                ClearConnected, Interrupt, dispatch, robot
  <2> QED
    BY <2>1, SameBoxes
<1> QED
  BY <1>1, <1>2

(* process takes an order, send writes it.                                  *)
LEMMA DispatchRefines ==
  ASSUME IInv, Dispatches \/ \E key \in Key : process(key)
  PROVE  Boxes!Next \/ UNCHANGED Boxes!vars
<1>1. CASE DispatchThread \/ processOneItem \/ Nothing \/ flush
  <2>1. /\ at \notin Pending \cup {"delete"} /\ at' \notin Pending \cup {"delete"}
        /\ UNCHANGED <<queue, lastVal, wire>>
    BY <1>1 DEF DispatchThread, processOneItem, Nothing, flush, At, Go, Pending, robot
  <2>2. Box' = Box
    BY <2>1 DEF Box
  <2>3. Flight' = Flight
    BY <2>1 DEF Flight
  <2> QED
    BY <2>1, <2>2, <2>3 DEF Boxes!vars
<1>2. ASSUME NEW key \in Key, process(key)
      PROVE  Boxes!Next
  <2>1. /\ at = "choose" /\ queue[key] # None /\ choice' = key /\ UNCHANGED <<queue, wire>>
        /\ lastVal' = [lastVal EXCEPT ![key] = queue[key]]
        /\ at' = IF lastVal[key] = queue[key] THEN "delete" ELSE "connect"
    BY <1>2 DEF process, Filtered, At, Go, IInv, TypeOK, robot
  <2>2. Box = queue /\ Flight = None
    BY <2>1, Outside DEF IInv, Pending
  <2>3. Box' = [Box EXCEPT ![key] = None]
    BY <2>1, <2>2 DEF Box, Pending, IInv, TypeOK
  <2>4. Flight' = IF lastVal[key] = Box[key] THEN None ELSE [key |-> key, args |-> Box[key]]
    BY <2>1, <2>2 DEF Flight, Pending
  <2>5. Boxes!Take(key)
    BY <2>1, <2>2, <2>3, <2>4 DEF Boxes!Take
  <2> QED
    BY <2>5 DEF Boxes!Next
<1>3. CASE connect \/ SetConnected \/ (TestConnected /\ connected)
  <2>1. /\ at \in Pending /\ at' \in Pending
        /\ UNCHANGED <<queue, lastVal, choice, wire>>
    BY <1>3 DEF connect, SetConnected, TestConnected, At, Go, Pending, robot
  <2>2. Box' = Box
    BY <2>1 DEF Box
  <2>3. Flight' = Flight
    BY <2>1 DEF Flight
  <2> QED
    BY <2>1, <2>2, <2>3 DEF Boxes!vars
<1>4. CASE (TestConnected /\ ~connected) \/ send
  <2>1. /\ at \in Pending /\ at' = "delete" /\ UNCHANGED <<queue, lastVal, choice>>
        /\ wire' = wire \/ wire' = Append(wire, [key |-> choice, args |-> queue[choice]])
    BY <1>4 DEF TestConnected, send, At, Go, Pending, robot
  <2>2. Box' = Box
    BY <2>1 DEF Box
  <2>3. Flight = [key |-> choice, args |-> queue[choice]] /\ Flight' = None
    BY <2>1 DEF Flight, Pending
  <2>4. Flight # None
    <3>1. choice \in Key /\ queue[choice] \in Args
      BY <2>1 DEF IInv, OrderWaits, TypeOK
    <3> QED
      BY <2>3, <3>1, TerminalControlAssumption DEF Order
  <2>5. Boxes!Write \/ Boxes!Drop
    BY <2>1, <2>2, <2>3, <2>4 DEF Boxes!Write, Boxes!Drop
  <2> QED
    BY <2>5 DEF Boxes!Next
<1>5. CASE Delete
  <2>1. /\ at = "delete" /\ at' = "flush" /\ UNCHANGED <<lastVal, wire>>
        /\ choice \in Key /\ queue \in [Key -> Args \cup {None}]
        /\ queue' = [queue EXCEPT ![choice] = None]
    BY <1>5 DEF Delete, At, Go, IInv, OrderWaits, TypeOK, robot
  <2>2. Box' = Box
    BY <2>1 DEF Box, Pending
  <2>3. Flight' = Flight
    BY <2>1 DEF Flight, Pending
  <2> QED
    BY <2>1, <2>2, <2>3 DEF Boxes!vars
<1> QED
  BY <1>1, <1>2, <1>3, <1>4, <1>5 DEF Dispatches

(* The robot reads the line, and a cut empties it.                          *)
LEMMA RobotRefines ==
  ASSUME IInv, Robot
  PROVE  Boxes!Next \/ UNCHANGED Boxes!vars
<1>1. UNCHANGED <<queue, at, choice, lastVal>>
  BY DEF Robot, Unplug, Plug, Receive, dispatch
<1>2. Box' = Box
  BY <1>1 DEF Box
<1>3. Flight' = Flight
  BY <1>1 DEF Flight
<1>4. (wire # <<>> /\ wire' = Tail(wire)) \/ wire' = <<>> \/ wire' = wire
  BY DEF Robot, Unplug, Plug, Receive
<1> QED
  BY <1>1, <1>2, <1>3, <1>4 DEF Boxes!Next, Boxes!Read, Boxes!Cut, Boxes!vars

(* The queue, its two threads and the connection implement a mailbox, for   *)
(* any axes and positions (TerminalControl.send, processOneItem, process).  *)
THEOREM ImplementsMailbox == Spec => IsMailbox
<1>1. Init => Boxes!Init
  <2> SUFFICES ASSUME Init PROVE Boxes!Init
    OBVIOUS
  <2>1. Box = [key \in Key |-> None]
    BY DEF Init, Box, Pending
  <2>2. Flight = None
    BY DEF Init, Flight, Pending
  <2> QED
    BY <2>1, <2>2 DEF Init, Boxes!Init
<1>2. IInv /\ [Next]_vars => [Boxes!Next]_(Boxes!vars)
  <2>1. UNCHANGED vars => UNCHANGED Boxes!vars
    BY SameBoxes DEF vars, dispatch, robot
  <2> QED
    BY <2>1, MainRefines, DispatchRefines, RobotRefines DEF Next
<1> QED
  BY <1>1, <1>2, InitIInv, NextIInv, PTL DEF Spec, IsMailbox, Boxes!Spec
=============================================================================
