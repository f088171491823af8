------------------------------- MODULE DxlBus -------------------------------
(***************************************************************************)
(* Requests and replies on the Dynamixel bus, protocol 2 (dxl.cpp).  A     *)
(* request is written to the bus; to a ping or a read the main thread then *)
(* waits for a reply, parsing the bytes that come one at a time, until a   *)
(* packet is complete or time is out.  A servo also answers a write, with  *)
(* a status nobody waits for: dxl_send empties the receive buffer before   *)
(* and after it sends, but what comes later meets the next reply.          *)
(*                                                                         *)
(* Bytes are bytes, since framing, stuffing and the checksum depend on     *)
(* their values; the packets are few.  `wire' holds what the servos have   *)
(* begun to send and the main thread has not read, whether it is in the    *)
(* receive buffer or still to come.  The instruction field, which nobody   *)
(* reads in a reply, is left out of the packets received.                  *)
(***************************************************************************)
EXTENDS DxlPackets

CONSTANTS
  Servos,      (* the ids of the servos on the bus                          *)
  Requests,    (* what is asked, as <<operation, id>>                       *)
  Data,        (* the data each servo may answer a read with                *)
  MaxWaiting,  (* bound: how many requests the servos have yet to answer    *)
  MaxWire,     (* bound: a servo starts only with fewer bytes on the wire   *)
  MaxCuts,     (* bound: how many of its packets in a row are cut short     *)
  Stalls       (* the main thread may find the bytes of the next packet     *)
               (* before dxl_tick returns from the last byte of one         *)

Operation == {"ping", "read", "write"}

ASSUME DxlBusAssumption ==
  /\ Servos \subseteq 0 .. 252
  /\ Requests \subseteq Operation \X (0 .. 252)
  /\ Data \in [Servos -> SUBSET Seq(Byte)]
  /\ \A id \in Servos : \A data \in Data[id] :
       Len(Stuffed(<<0>> \o data)) + 3 < 2^16   (* the length is a word *)
  /\ MaxWaiting \in Nat /\ MaxWire \in Nat /\ MaxCuts \in Nat
  /\ Stalls \in BOOLEAN

VARIABLES
  incoming_packet,  (* the packet being parsed, and the state of its parser *)
  awaited,          (* the request whose reply is awaited                   *)
  asked,            (* the requests a servo has yet to answer               *)
  wire,             (* the bytes on their way                               *)
  cuts              (* how often a packet was cut since one began (a bound) *)

busVars == <<incoming_packet, awaited, asked, wire, cuts>>

None == <<>>

-----------------------------------------------------------------------------
(* What a servo sends: an error byte, here 0, and the data it was asked.   *)
Answers(request) ==
  IF request[1] = "read" THEN {<<0>> \o data : data \in Data[request[2]]} ELSE {<<0>>}

Status(id, parameters) == dxl_write_packet(id, 85, parameters)

Statuses ==
  [request \in {r \in Requests : r[2] \in Servos} |->
    {Status(request[2], parameters) : parameters \in Answers(request)}]

-----------------------------------------------------------------------------
BusInit ==
  /\ incoming_packet = Blank
  /\ awaited = None
  /\ asked = {}
  /\ wire = <<>>
  /\ cuts = 0

(* dxl_send forgets the last reply, not the bytes parsed since.            *)
Sent_KeepsReply(packet) == packet

Sent(packet) ==
  IF packet.dxl_state = 0 THEN Blank ELSE [packet EXCEPT !.process = FALSE]

(* dxl_ping, dxl_read and dxl_write: the request is built and sent.  The   *)
(* receive buffer loses what has come until then, and the request is heard *)
(* or, when a servo was talking, is not.  A wait that was given up may have *)
(* left the parser in the middle of a packet: what is lost then is cut out *)
(* of it.                                                                  *)
dxl_send(request, lost, heard) ==
  LET cut == incoming_packet.dxl_state # 0 /\ lost > 0
  IN
  /\ awaited = None
  /\ lost \in 0 .. Len(wire)
  /\ cut => cuts < MaxCuts
  /\ cuts' = IF incoming_packet.dxl_state = 0 THEN 0 ELSE IF cut THEN cuts + 1 ELSE cuts
  /\ wire' = SubSeq(wire, lost + 1, Len(wire))
  /\ asked' = IF heard /\ request[2] \in Servos THEN asked \cup {request} ELSE asked
  /\ incoming_packet' = Sent(incoming_packet)
  /\ awaited' = IF request[1] = "write" THEN None ELSE request

(* A servo answers, some time after it was asked.                          *)
Answer(request, status) ==
  /\ Len(wire) < MaxWire
  /\ asked' = asked \ {request}
  /\ wire' = wire \o status
  /\ UNCHANGED <<incoming_packet, awaited, cuts>>

(* A round of the loop of dxl_tick, called by dxl_get_reply.  The loop     *)
(* goes on while bytes are available: past the end of a packet when the    *)
(* next is there already.                                                  *)
dxl_tick ==
  /\ awaited # None
  /\ wire # <<>>
  /\ Stalls \/ ~incoming_packet.process
  /\ incoming_packet' = dxl_packet_push_byte(incoming_packet, Head(wire))
  /\ wire' = Tail(wire)
  /\ UNCHANGED <<awaited, asked, cuts>>

(* dxl_get_reply returns the packet it sees after dxl_tick, or gives up.   *)
(* dxl_ping then compares its id, dxl_read takes its data.                 *)
GetReply ==
  /\ awaited # None
  /\ incoming_packet.process
  /\ awaited' = None
  /\ UNCHANGED <<incoming_packet, asked, wire, cuts>>

(* Time is out: whatever is still to come, wherever the parser is.         *)
GiveUp ==
  /\ awaited # None
  /\ ~incoming_packet.process
  /\ awaited' = None
  /\ UNCHANGED <<incoming_packet, asked, wire, cuts>>

Listen == dxl_tick \/ GetReply \/ GiveUp

Ask(requests, heard) ==
  \E request \in requests, lost \in 0 .. Len(wire) :
    /\ Cardinality(asked \cup {request}) <= MaxWaiting
    /\ dxl_send(request, lost, heard)

AnswerSome ==
  \E request \in asked : \E status \in Statuses[request] : Answer(request, status)

BusNext == (\E heard \in BOOLEAN : Ask(Requests, heard)) \/ AnswerSome \/ Listen

BusSpec == BusInit /\ [][BusNext]_busVars

(* The main thread listens while it waits, time passes, and it goes on     *)
(* asking; a servo that was asked answers.                                 *)
BusFairSpec ==
  BusSpec /\ WF_busVars(dxl_tick) /\ WF_busVars(GetReply \/ GiveUp) /\ WF_busVars(AnswerSome)
       /\ WF_busVars(\E heard \in BOOLEAN : Ask(Requests, heard))

-----------------------------------------------------------------------------
(* Every variable keeps its type; in particular the parser is in one of    *)
(* its states, and the checksum fits its word until its low byte is taken  *)
(* away.                                                                   *)
BusTypeOK ==
  /\ incoming_packet \in Packet
  /\ awaited \in Requests \cup {None}
  /\ asked \subseteq Requests
  /\ wire \in Seq(Byte)
  /\ cuts \in 0 .. MaxCuts

(* A packet accepted as a reply is one some servo of the bus wrote, whole: *)
(* its data, unstuffed, are data that very servo sends, whatever the       *)
(* parser was left in the middle of by a timeout and whatever dxl_send     *)
(* made it miss.  Excepted is the reply that RepliesEnd is about.          *)
Genuine ==
  awaited # None /\ incoming_packet.process /\ incoming_packet.dxl_state = 0 =>
    /\ incoming_packet.id \in Servos
    /\ \E op \in Operation :
         incoming_packet.parameters \in Answers(<<op, incoming_packet.id>>)

(* A reply is a packet that has come to its end (it fails: PushBeyond).    *)
RepliesEnd == awaited # None /\ incoming_packet.process => incoming_packet.dxl_state = 0

(* dxl_get_reply returns the reply of the last packet sent: it comes from  *)
(* the servo that was asked.                                               *)
ReplyOfLast == [][GetReply => incoming_packet.id = awaited[2]]_busVars

(* The time of a thousand bytes (dxl_init) is enough for a servo that is   *)
(* heard: its answer has come by then.                                     *)
TimedOut == asked = {} /\ wire = <<>> /\ GiveUp

(* A quiet step: the main thread asks nothing but reads of one servo,      *)
(* neither the request nor the answer is disturbed, and no answer is late. *)
Quiet(id) == Ask({<<"read", id>>}, TRUE) \/ AnswerSome \/ dxl_tick \/ GetReply \/ TimedOut

(* However the parser was left by what came before, reads that nothing     *)
(* disturbs any more are answered again: the parser finds the next header. *)
Resynchronized ==
  \A id \in Servos :
    <>[][Quiet(id)]_busVars
      => []<><<GetReply /\ awaited = <<"read", id>> /\ incoming_packet.id = id>>_busVars
=============================================================================
