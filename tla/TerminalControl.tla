--------------------------- MODULE TerminalControl ---------------------------
(***************************************************************************)
(* The joypad client: the class TerminalControl (terminalcontrol.py), the  *)
(* bindings of the pad (command.py) and the serial connection              *)
(* (serialcom.py).  The main thread turns the events of the pad into       *)
(* orders, one per command, in a dictionary; the dispatch thread takes one *)
(* of them at random, many times a second, and writes it to the robot.     *)
(*                                                                         *)
(* The mutex guards the dictionaries, not the connection, which both       *)
(* threads change.  What a thread does with the mutex held, and nobody     *)
(* else looks at, is one step; every access to the connection is one.      *)
(* The robot may be unplugged and plugged in again, and restarted.         *)
(***************************************************************************)
EXTENDS Naturals, Sequences, FiniteSets

CONSTANTS
  Axes,         (* the commands bound to the axes of the pad                *)
  Positions,    (* the values of an axis                                    *)
  None,         (* no entry in a dictionary                                 *)
  Events, Cuts  (* bounds: of the events of the pad, of the connections cut *)

Buttons == {"mute", "start", "stop"}
Key == Axes \cup Buttons
Args == {<<>>, <<1>>} \cup {<<p>> : p \in Positions}
Order == [key : Key, args : Args]

ASSUME TerminalControlAssumption ==
  /\ Axes \cap Buttons = {}
  /\ None \notin Args /\ None \notin Order
  /\ Events \in Nat /\ Cuts \in Nat

VARIABLES
  running, mutex,          (* who holds it, or "free"                       *)
  queue, lastVal,
  connected, port,         (* com.connected; what com.serial stands for     *)
  enabled,                 (* of ToggleEnable                               *)
  pad, todo,               (* where the main thread is, its calls of send   *)
  at, choice,              (* where the dispatch thread is, and its key     *)
  link, wire, told, on,    (* the robot: plugged in, orders on their way,   *)
                           (* what it was told last, whether it is started  *)
  events, cuts,            (* counters                                      *)
  asked, lost              (* histories: the last order to each command,    *)
                           (* and the commands of which one was lost        *)

main == <<enabled, pad, todo, events>>
dispatch == <<at, choice, lastVal>>
robot == <<link, wire, told, on, cuts>>
vars == <<running, mutex, queue, connected, port, main, dispatch, robot, asked, lost>>

(* Where the dispatch thread holds an order it has noted and not written.  *)
Pending == {"connect", "set_connected", "test", "write"}
Locked == Pending \cup {"choose", "delete"}

-----------------------------------------------------------------------------
(* The connection is tried once before the dispatch thread starts.         *)
Init ==
  /\ running = TRUE /\ mutex = "free"
  /\ queue = [key \in Key |-> None] /\ lastVal = [key \in Key |-> None]
  /\ link \in BOOLEAN
  /\ connected = link /\ port = IF link THEN "open" ELSE "none"
  /\ enabled = FALSE
  /\ pad = "idle" /\ todo = <<>>
  /\ at = "loop" /\ choice = None
  /\ wire = <<>> /\ told = [key \in Key |-> None] /\ on = FALSE
  /\ events = 0 /\ cuts = 0
  /\ asked = [key \in Key |-> None] /\ lost = {}

-----------------------------------------------------------------------------
(* The main thread.                                                        *)

Event == pad = "idle" /\ events < Events /\ events' = events + 1

onAxis(axis, position) ==
  /\ Event
  /\ todo' = <<[key |-> axis, args |-> <<position>>]>>
  /\ pad' = "acquire"
  /\ UNCHANGED <<running, mutex, queue, connected, port, enabled, dispatch, robot, asked, lost>>

ToggleEnable ==
  /\ Event
  /\ enabled' = ~enabled
  /\ todo' = IF enabled' THEN <<[key |-> "mute", args |-> <<1>>],
                                [key |-> "start", args |-> <<>>]>>
             ELSE <<[key |-> "stop", args |-> <<>>]>>
  /\ pad' = "acquire"
  /\ UNCHANGED <<running, mutex, queue, connected, port, dispatch, robot, asked, lost>>

(* TerminalControl.send, order by order.                                   *)
Acquire ==
  /\ pad = "acquire" /\ mutex = "free"
  /\ mutex' = "main" /\ pad' = "store"
  /\ UNCHANGED <<running, queue, connected, port, enabled, todo, events, dispatch, robot,
                 asked, lost>>

(* Mutant: an order that waits is kept.                                    *)
Stored_First(key, args) == IF queue[key] = None THEN args ELSE queue[key]

Stored(key, args) == args

Store ==
  /\ pad = "store"
  /\ LET key == Head(todo).key
         args == Head(todo).args
     IN  /\ queue' = [queue EXCEPT ![key] = Stored(key, args)]
         /\ asked' = [asked EXCEPT ![key] = args]
  /\ pad' = "release"
  /\ UNCHANGED <<running, mutex, connected, port, enabled, todo, events, dispatch, robot, lost>>

(* Mutant: there is always another order.                                  *)
Release_Again ==
  /\ pad = "release"
  /\ mutex' = "free"
  /\ todo' = Tail(todo)
  /\ pad' = "acquire"
  /\ UNCHANGED <<running, queue, connected, port, enabled, events, dispatch, robot, asked, lost>>

Release ==
  /\ pad = "release"
  /\ mutex' = "free"
  /\ todo' = Tail(todo)
  /\ pad' = IF Tail(todo) = <<>> THEN "idle" ELSE "acquire"
  /\ UNCHANGED <<running, queue, connected, port, enabled, events, dispatch, robot, asked, lost>>

(* TerminalControl.disconnect, without the mutex.  A port that was never   *)
(* opened cannot be closed; the pad is then opened again.                  *)
disconnect ==
  /\ Event
  /\ pad' = IF port = "none" THEN "idle" ELSE "close"
  /\ UNCHANGED <<running, mutex, queue, connected, port, enabled, todo, dispatch, robot,
                 asked, lost>>

Close ==
  /\ pad = "close"
  /\ port' = "closed" /\ pad' = "clear"
  /\ UNCHANGED <<running, mutex, queue, connected, enabled, todo, events, dispatch, robot,
                 asked, lost>>

ClearConnected ==
  /\ pad = "clear"
  /\ connected' = FALSE /\ pad' = "idle"
  /\ UNCHANGED <<running, mutex, queue, port, enabled, todo, events, dispatch, robot,
                 asked, lost>>

(* The program is interrupted: wherever the main thread is, but for its    *)
(* wait for the mutex.  A mutex it holds is never released.                *)
Interrupt ==
  /\ pad \notin {"acquire", "ended"}
  /\ running' = FALSE /\ pad' = "ended" /\ todo' = <<>>
  /\ UNCHANGED <<mutex, queue, connected, port, enabled, events, dispatch, robot, asked, lost>>

-----------------------------------------------------------------------------
(* The dispatch thread.                                                    *)

At(label) == at = label
Go(label) == at' = label

DispatchThread ==
  /\ At("loop")
  /\ Go(IF running THEN "acquire" ELSE "ended")
  /\ UNCHANGED <<running, mutex, queue, connected, port, main, choice, lastVal, robot, asked, lost>>

(* Mutant: the dispatch thread does not wait for the mutex.                *)
processOneItem_NoWait ==
  /\ At("acquire")
  /\ mutex' = "dispatch" /\ Go("choose")
  /\ UNCHANGED <<running, queue, connected, port, main, choice, lastVal, robot, asked, lost>>

processOneItem ==
  /\ At("acquire") /\ mutex = "free"
  /\ mutex' = "dispatch" /\ Go("choose")
  /\ UNCHANGED <<running, queue, connected, port, main, choice, lastVal, robot, asked, lost>>

(* Mutant: an empty queue returns with the mutex held.                     *)
Nothing_Holds ==
  /\ At("choose") /\ \A key \in Key : queue[key] = None
  /\ Go("flush")
  /\ UNCHANGED <<running, mutex, queue, connected, port, main, choice, lastVal, robot, asked, lost>>

Nothing ==
  /\ At("choose") /\ \A key \in Key : queue[key] = None
  /\ mutex' = "free" /\ Go("flush")
  /\ UNCHANGED <<running, queue, connected, port, main, choice, lastVal, robot, asked, lost>>

(* Mutant: an order passes the filter when the command was sent before.    *)
Filtered_Known(key) == lastVal[key] # None

Filtered(key) == lastVal[key] = queue[key]

(* process, up to the connection: the order is noted as the last one.      *)
process(key) ==
  /\ At("choose") /\ queue[key] # None
  /\ choice' = key
  /\ lastVal' = [lastVal EXCEPT ![key] = IF Filtered(key) THEN lastVal[key] ELSE queue[key]]
  /\ Go(IF Filtered(key) THEN "delete" ELSE "connect")
  /\ UNCHANGED <<running, mutex, queue, connected, port, main, robot, asked, lost>>

(* `if not self.com.connected and self.running', and SerialCom.connect,    *)
(* which opens a port of the robot before it sets the flag.                *)
connect ==
  /\ At("connect")
  /\ IF connected \/ ~running
     THEN Go("test") /\ UNCHANGED <<connected, port>>
     ELSE IF link
     THEN Go("set_connected") /\ port' = "open" /\ UNCHANGED connected
     ELSE Go("test") /\ connected' = FALSE /\ UNCHANGED port
  /\ UNCHANGED <<running, mutex, queue, main, choice, lastVal, robot, asked, lost>>

SetConnected ==
  /\ At("set_connected")
  /\ connected' = TRUE /\ Go("test")
  /\ UNCHANGED <<running, mutex, queue, port, main, choice, lastVal, robot, asked, lost>>

(* Without a connection the order is lost.                                 *)
TestConnected ==
  /\ At("test")
  /\ Go(IF connected THEN "write" ELSE "delete")
  /\ lost' = IF connected THEN lost ELSE lost \cup {choice}
  /\ UNCHANGED <<running, mutex, queue, connected, port, main, choice, lastVal, robot, asked>>

(* SerialCom.send: a port that is not open throws, and the order is lost.  *)
send ==
  /\ At("write") /\ Go("delete")
  /\ IF port = "open"
     THEN /\ wire' = Append(wire, [key |-> choice, args |-> queue[choice]])
          /\ lost' = lost \ {choice}
          /\ UNCHANGED connected
     ELSE /\ connected' = FALSE
          /\ lost' = lost \cup {choice}
          /\ UNCHANGED wire
  /\ UNCHANGED <<running, mutex, queue, port, main, choice, lastVal, link, told, on, cuts, asked>>

(* The order is deleted and the mutex released.                            *)
Delete ==
  /\ At("delete") /\ Go("flush")
  /\ queue' = [queue EXCEPT ![choice] = None]
  /\ choice' = None /\ mutex' = "free"
  /\ UNCHANGED <<running, connected, port, main, lastVal, robot, asked, lost>>

(* Mutant: the exception is ignored, as in SocketCom.                      *)
flush_Ignores ==
  /\ At("flush") /\ Go("loop")
  /\ UNCHANGED <<running, mutex, queue, connected, port, main, choice, lastVal, robot, asked, lost>>

(* SerialCom.flush: a port that is not open throws.                        *)
flush ==
  /\ At("flush") /\ Go("loop")
  /\ connected' = (connected /\ port = "open")
  /\ UNCHANGED <<running, mutex, queue, port, main, choice, lastVal, robot, asked, lost>>

-----------------------------------------------------------------------------
(* The robot and its cable.                                                *)

Unplug(restarted) ==
  /\ link /\ cuts < Cuts
  /\ link' = FALSE /\ cuts' = cuts + 1
  /\ port' = IF port = "open" THEN "dead" ELSE port
  /\ wire' = <<>>
  /\ told' = IF restarted THEN [key \in Key |-> None] ELSE told
  /\ on' = (on /\ ~restarted)
  /\ lost' = lost \cup {key \in Key : \/ \E i \in 1 .. Len(wire) : wire[i].key = key
                                      \/ restarted /\ told[key] # None}
  /\ UNCHANGED <<running, mutex, queue, connected, main, dispatch, asked>>

Plug ==
  /\ ~link /\ link' = TRUE
  /\ UNCHANGED <<running, mutex, queue, connected, port, main, dispatch, wire, told, on, cuts,
                 asked, lost>>

Receive ==
  /\ wire # <<>>
  /\ wire' = Tail(wire)
  /\ told' = [told EXCEPT ![Head(wire).key] = Head(wire).args]
  /\ on' = IF Head(wire).key = "start" THEN TRUE
           ELSE IF Head(wire).key = "stop" THEN FALSE ELSE on
  /\ UNCHANGED <<running, mutex, queue, connected, port, main, dispatch, link, cuts, asked, lost>>

-----------------------------------------------------------------------------
Pad ==
  \/ \E axis \in Axes, position \in Positions : onAxis(axis, position)
  \/ ToggleEnable \/ disconnect

MainRuns == Acquire \/ Store \/ Release \/ Close \/ ClearConnected

Dispatches ==
  \/ DispatchThread \/ processOneItem \/ Nothing \/ connect \/ SetConnected
  \/ TestConnected \/ send \/ Delete \/ flush

Robot == (\E restarted \in BOOLEAN : Unplug(restarted)) \/ Plug \/ Receive

Next ==
  \/ Pad \/ MainRuns \/ Interrupt
  \/ Dispatches \/ \E key \in Key : process(key)
  \/ Robot

Spec == Init /\ [][Next]_vars

(* Both threads run; a lock that is free again and again is got; random    *)
(* choices give every command its turn; the robot reads.                   *)
FairSpec ==
  /\ Spec
  /\ WF_vars(MainRuns) /\ SF_vars(Acquire)
  /\ WF_vars(Dispatches) /\ SF_vars(processOneItem)
  /\ \A key \in Key : SF_vars(process(key))
  /\ WF_vars(Receive)

-----------------------------------------------------------------------------
TypeOK ==
  /\ running \in BOOLEAN /\ mutex \in {"free", "main", "dispatch"}
  /\ queue \in [Key -> Args \cup {None}] /\ lastVal \in [Key -> Args \cup {None}]
  /\ connected \in BOOLEAN /\ port \in {"none", "open", "dead", "closed"}
  /\ enabled \in BOOLEAN
  /\ pad \in {"idle", "acquire", "store", "release", "close", "clear", "ended"}
  /\ todo \in Seq(Order)
  /\ pad \in {"acquire", "store", "release"} => todo # <<>>
  /\ at \in Locked \cup {"loop", "acquire", "flush", "ended"}
  /\ choice \in Key \cup {None} /\ (at \in Pending \cup {"delete"} => choice \in Key)
  /\ link \in BOOLEAN /\ wire \in Seq(Order)
  /\ told \in [Key -> Args \cup {None}] /\ on \in BOOLEAN
  /\ events \in 0 .. Events /\ cuts \in 0 .. Cuts
  /\ asked \in [Key -> Args \cup {None}] /\ lost \subseteq Key

(* Once the robot has read what was written, the last order to the command *)
(* that it was told is this one.                                           *)
Tells(key, args) ==
  /\ \A i \in 1 .. Len(wire) :
       wire[i].key = key /\ (\A j \in i + 1 .. Len(wire) : wire[j].key # key)
         => wire[i].args = args
  /\ (\A i \in 1 .. Len(wire) : wire[i].key # key) => told[key] = args

(* Whatever the threads do, the queue is a mailbox: an order that is given *)
(* while another one is written replaces it whole or comes after it.       *)
Box == [key \in Key |-> IF at \in Pending \cup {"delete"} /\ choice = key THEN None ELSE queue[key]]
Flight == IF at \in Pending THEN [key |-> choice, args |-> queue[choice]] ELSE None
Boxes == INSTANCE Mailbox WITH box <- Box, noted <- lastVal, flight <- Flight
IsMailbox == Boxes!Spec

(* No order is forgotten but with a connection: the robot has been told,   *)
(* or will read, the last one that no longer waits.                        *)
Agreed ==
  \A key \in Key \ lost :
    queue[key] = None => Tells(key, asked[key])

(* Every last order reaches the robot, if the client is not stopped and no *)
(* connection is cut: the pad does not move for ever.                      *)
Settled ==
  \A key \in Key : told[key] = asked[key] \/ key \in lost \/ ~running
Reaches == []<>Settled

(* The dispatch thread ends when the program does, unless the main thread  *)
(* was interrupted in `send', where it holds the mutex.                    *)
Quits == ~running ~> at = "ended" \/ mutex = "main"

(* A connection that is not there any more is noticed.                     *)
Noticed ==
  connected /\ port # "open" ~> (~connected \/ port = "open" \/ at = "ended" \/ mutex = "main")

(* The comment of command.py: "Enabling/disabling the robot".              *)
Quiet ==
  /\ pad = "idle" /\ at = "loop" /\ wire = <<>> /\ lost = {}
  /\ \A key \in Key : queue[key] = None
Enabling == Quiet /\ cuts = 0 => on = enabled
=============================================================================
