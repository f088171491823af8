------------------------------ MODULE RingBuffer ------------------------------
(***************************************************************************)
(* The receive buffer of a serial port (ring_buffer.h, usart.h): the       *)
(* interrupt of the port inserts, HardwareSerial::read, in the main        *)
(* thread, asks for the number of bytes and removes one.  There is no      *)
(* lock: the interrupt comes between any two loads and stores of the main  *)
(* thread.  The button interrupt also removes: it sends a packet to the    *)
(* Dynamixel bus, and dxl_write_serial first empties the buffer.           *)
(*                                                                         *)
(* Byte n is the n-th byte received.                                       *)
(***************************************************************************)
EXTENDS Integers, Sequences

CONSTANTS
  Slots,      (* the items of rb->buf: rb->size + 1                         *)
  Bytes,      (* bound: how many bytes are received                         *)
  Overrun,    (* bytes may come when the buffer is full                     *)
  Button      (* when the button is pressed: never, between two reads, or   *)
              (* at any time                                                *)

ASSUME RingBufferAssumption ==
  /\ Slots \in Nat /\ Slots >= 2 /\ Slots < 2^15
  /\ Bytes \in Nat
  /\ Overrun \in BOOLEAN /\ Button \in {"never", "between", "any"}

VARIABLES
  buf, head, tail,   (* the ring buffer                                     *)
  received,          (* the last byte the port received                     *)
  pc,                (* where the main thread is                            *)
  loaded,            (* the indices rb_full_count has loaded                *)
  size,              (* its local variable                                  *)
  removing,          (* the index rb_remove has loaded, and the item        *)
  taken              (* the last byte HardwareSerial::read returned         *)

ring == <<buf, head, tail>>
reader == <<pc, loaded, size, removing, taken>>
vars == <<ring, received, reader>>

Index == 0 .. Slots - 1
Nothing == [x \in {} |-> 0]

Succ_Past(i) == IF i = Slots THEN 0 ELSE i + 1

Succ(i) == IF i = Slots - 1 THEN 0 ELSE i + 1

Init ==
  /\ buf = [i \in Index |-> 0]
  /\ head = 0 /\ tail = 0
  /\ received = 0
  /\ pc = "size"
  /\ loaded = Nothing
  /\ size = 0
  /\ removing = [index |-> 0, item |-> 0]
  /\ taken = 0

-----------------------------------------------------------------------------
(* The interrupt handlers.                                                 *)

rb_is_full_NoWrap == tail + 1 = head

rb_is_full == tail + 1 = head \/ (tail = Slots - 1 /\ head = 0)

usart_irq_KeepsOldest ==
  /\ received < Bytes
  /\ Overrun \/ ~rb_is_full
  /\ received' = received + 1
  /\ buf' = [buf EXCEPT ![tail] = received']
  /\ tail' = Succ(tail)
  /\ UNCHANGED <<head, reader>>

(* rb_push_insert: a full buffer gives up its first item.                  *)
usart_irq ==
  /\ received < Bytes
  /\ Overrun \/ ~rb_is_full
  /\ received' = received + 1
  /\ head' = IF rb_is_full THEN Succ(head) ELSE head
  /\ buf' = [buf EXCEPT ![tail] = received']
  /\ tail' = Succ(tail)
  /\ UNCHANGED reader

(* dxl_write_serial reads while bytes are available, and drops them.       *)
button_pressed ==
  /\ Button # "never"
  /\ Button = "between" => pc = "size" /\ loaded = Nothing
  /\ head' = tail
  /\ UNCHANGED <<buf, tail, received, reader>>

-----------------------------------------------------------------------------
(* HardwareSerial::read: rb_full_count until it is not 0, then rb_remove.  *)

(* rb_full_count loads tail and head, in no order C lays down, once to     *)
(* subtract them and once more to compare them.                            *)
Load(field, value) ==
  /\ pc \in {"size", "compare"}
  /\ field \notin DOMAIN loaded
  /\ loaded' = [f \in DOMAIN loaded \cup {field} |->
                 IF f = field THEN value ELSE loaded[f]]
  /\ UNCHANGED <<ring, received, pc, size, removing, taken>>

LoadedBoth == {"tail", "head"} \subseteq DOMAIN loaded

Subtract ==
  /\ pc = "size" /\ LoadedBoth
  /\ size' = loaded["tail"] - loaded["head"]
  /\ loaded' = Nothing
  /\ pc' = "compare"
  /\ UNCHANGED <<ring, received, removing, taken>>

(* The result is a uint16.                                                 *)
rb_full_count_NoWrap == IF size < 0 THEN 0 ELSE size

rb_full_count ==
  (IF loaded["tail"] < loaded["head"] THEN size + Slots ELSE size) % 2^16

Compare ==
  /\ pc = "compare" /\ LoadedBoth
  /\ size' = rb_full_count
  /\ loaded' = Nothing
  /\ pc' = IF size' = 0 THEN "size" ELSE "remove"
  /\ UNCHANGED <<ring, received, removing, taken>>

(* rb_remove loads head once, and stores the next index in it.             *)
LoadItem ==
  /\ pc = "remove"
  /\ removing' = [index |-> head, item |-> buf[head]]
  /\ pc' = "store"
  /\ UNCHANGED <<ring, received, loaded, size, taken>>

StoreHead_Stuck ==
  /\ pc = "store"
  /\ head' = IF removing.index = Slots - 1 THEN removing.index ELSE removing.index + 1
  /\ taken' = removing.item
  /\ pc' = "size"
  /\ UNCHANGED <<buf, tail, received, loaded, size, removing>>

StoreHead ==
  /\ pc = "store"
  /\ head' = Succ(removing.index)
  /\ taken' = removing.item
  /\ pc' = "size"
  /\ UNCHANGED <<buf, tail, received, loaded, size, removing>>

read == \/ Load("tail", tail) \/ Load("head", head)
        \/ Subtract \/ Compare \/ LoadItem \/ StoreHead

Next == usart_irq \/ button_pressed \/ read

Spec == Init /\ [][Next]_vars

(* The main thread, which the handlers interrupt but do not stop, reads    *)
(* its port again and again (terminal_tick, dxl_tick).                     *)
FairSpec == Spec /\ WF_vars(read)

-----------------------------------------------------------------------------
(* Every variable keeps its type; in particular the indices stay within    *)
(* the buffer, which rb_insert and rb_remove index without a check.        *)
TypeOK ==
  /\ buf \in [Index -> Nat]
  /\ head \in Index /\ tail \in Index
  /\ received \in 0 .. Bytes
  /\ pc \in {"size", "compare", "remove", "store"}
  /\ DOMAIN loaded \subseteq {"tail", "head"}
  /\ \A f \in DOMAIN loaded : loaded[f] \in Index
  /\ size \in Int
  /\ removing \in [index : Index, item : Nat]
  /\ taken \in Nat

(* The items stored, and how many.                                         *)
stored == IF tail < head THEN tail - head + Slots ELSE tail - head
queue == [i \in 1 .. stored |->
           IF head + i - 1 < Slots THEN buf[head + i - 1] ELSE buf[head + i - 1 - Slots]]

Fifo == INSTANCE BoundedFifo WITH Capacity <- Slots - 1

(* A buffer that is not overrun is a bounded first-in first-out queue,     *)
(* whatever the loads and stores the interrupt comes between.              *)
IsFifo == Fifo!Spec

(* The main thread removes from a buffer that holds a byte: the count that *)
(* rb_full_count loads piece by piece is not 0 by mistake (read).          *)
RemovesFromNonEmpty == pc \in {"remove", "store"} => head # tail

(* Every byte received is read, when none comes while the buffer is full:  *)
(* rb_full_count does not overlook the last one.                           *)
EveryByteRead == \A n \in 1 .. Bytes : received >= n ~> taken >= n

(* The bytes are read in the order they were received, none twice, even    *)
(* when the buffer overruns and the interrupt moves the head that the main *)
(* thread is about to store (rb_push_insert, rb_remove).                   *)
InOrder == [][pc = "store" /\ pc' = "size" => taken' > taken]_vars
=============================================================================
