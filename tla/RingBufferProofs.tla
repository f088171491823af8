--------------------------- MODULE RingBufferProofs ---------------------------
(* Safety of RingBuffer for a buffer of any size.                           *)
EXTENDS RingBuffer, SequenceTheorems, TLAPS

(* While the buffer is empty, the indices loaded so far are those of the   *)
(* empty buffer: the interrupt only ever makes it non-empty.               *)
EmptyIsSeen ==
  head = tail =>
    /\ pc \in {"size", "compare"}
    /\ \A f \in DOMAIN loaded : loaded[f] = head
    /\ pc = "compare" => size = 0

(* Nobody but the main thread moves the head of a buffer that is neither   *)
(* overrun nor drained.                                                    *)
RemovingHead ==
  pc = "store" => removing.index = head /\ removing.item = buf[head]
-----------------------------------------------------------------------------
(* The index after another is in the buffer, and another (rb_insert).      *)
LEMMA SuccInIndex ==
  ASSUME NEW i \in Index
  PROVE  Succ(i) \in Index /\ Succ(i) # i
BY RingBufferAssumption DEF Succ, Index

(* The types hold of the buffer rb_init leaves.                            *)
LEMMA InitTypeOK == Init => TypeOK
BY RingBufferAssumption DEF Init, TypeOK, Index, Nothing

(* Every step, of the interrupt or of the reader, keeps the types.         *)
LEMMA NextTypeOK == TypeOK /\ [Next]_vars => TypeOK'
<1> SUFFICES ASSUME TypeOK, [Next]_vars PROVE TypeOK'
  OBVIOUS
<1>1. CASE usart_irq
  BY <1>1, SuccInIndex, RingBufferAssumption DEF usart_irq, TypeOK, reader
<1>2. CASE button_pressed
  BY <1>2 DEF button_pressed, TypeOK, reader
<1>3. ASSUME NEW field \in {"tail", "head"}, NEW value \in Index, Load(field, value)
      PROVE  TypeOK'
  BY <1>3 DEF Load, TypeOK, ring
<1>4. CASE Subtract
  <2>1. loaded["tail"] \in Int /\ loaded["head"] \in Int
    BY <1>4 DEF Subtract, LoadedBoth, TypeOK, Index
  <2> QED
    BY <1>4, <2>1 DEF Subtract, TypeOK, ring, Nothing
<1>5. CASE Compare
  <2>1. rb_full_count \in Int
    BY <1>5, RingBufferAssumption DEF rb_full_count, TypeOK
  <2> QED
    BY <1>5, <2>1 DEF Compare, TypeOK, ring, Nothing
<1>6. CASE LoadItem
  BY <1>6 DEF LoadItem, TypeOK, ring
<1>7. CASE StoreHead
  BY <1>7, SuccInIndex DEF StoreHead, TypeOK
<1>8. CASE UNCHANGED vars
  BY <1>8 DEF vars, ring, reader, TypeOK
<1>9. tail \in Index /\ head \in Index
  BY DEF TypeOK
<1> QED
  BY <1>1, <1>2, <1>3, <1>4, <1>5, <1>6, <1>7, <1>8, <1>9 DEF Next, read

(* Every variable keeps its type; the indices stay within the buffer       *)
(* (rb_insert, rb_remove).                                                 *)
THEOREM RingTypeOK == Spec => []TypeOK
BY InitTypeOK, NextTypeOK, PTL DEF Spec

-----------------------------------------------------------------------------
(* Once rb_full_count has returned, nothing is loaded.                      *)
NothingLoaded == pc \in {"remove", "store"} => DOMAIN loaded = {}

SInv == TypeOK /\ NothingLoaded /\ EmptyIsSeen

(* An insertion leaves a byte in the buffer, and a full one stays full.     *)
LEMMA InsertFills == TypeOK /\ usart_irq => head' # tail'
<1> SUFFICES ASSUME TypeOK, usart_irq PROVE head' # tail'
  OBVIOUS
<1>1. CASE rb_is_full
  BY <1>1, RingBufferAssumption DEF usart_irq, rb_is_full, Succ, TypeOK, Index
<1>2. CASE ~rb_is_full
  BY <1>2, RingBufferAssumption DEF usart_irq, rb_is_full, Succ, TypeOK, Index
<1> QED
  BY <1>1, <1>2

(* An empty buffer is seen empty when nothing is loaded yet.               *)
LEMMA InitSInv == Init => SInv
BY InitTypeOK DEF Init, SInv, NothingLoaded, EmptyIsSeen, Nothing

(* No step makes the reader take an empty buffer for one that holds a      *)
(* byte, unless the button is pressed in the middle of a read.             *)
LEMMA NextSInv ==
  ASSUME Button # "any", SInv, [Next]_vars
  PROVE  SInv'
<1>1. TypeOK /\ TypeOK'
  BY NextTypeOK DEF SInv
<1>2. CASE usart_irq
  BY <1>1, <1>2, InsertFills DEF usart_irq, reader, SInv, NothingLoaded, EmptyIsSeen
<1>3. CASE button_pressed
  <2>1. pc = "size" /\ DOMAIN loaded = {}
    BY <1>3, RingBufferAssumption DEF button_pressed, Nothing
  <2> QED
    BY <1>1, <1>3, <2>1 DEF button_pressed, reader, SInv, NothingLoaded, EmptyIsSeen
<1>4. ASSUME NEW field \in {"tail", "head"}, NEW value \in Index, Load(field, value),
             head = tail => value = head
      PROVE  SInv'
  BY <1>1, <1>4 DEF Load, ring, SInv, NothingLoaded, EmptyIsSeen
<1>5. CASE Subtract
  <2>1. head = tail => loaded["tail"] - loaded["head"] = 0
    BY <1>1, <1>5 DEF Subtract, LoadedBoth, SInv, EmptyIsSeen, TypeOK, Index
  <2> QED
    BY <1>1, <1>5, <2>1 DEF Subtract, ring, Nothing, SInv, NothingLoaded, EmptyIsSeen
<1>6. CASE Compare
  <2>1. head = tail => rb_full_count = 0
    <3>1. head = tail => ~(loaded["tail"] < loaded["head"]) /\ size = 0
      BY <1>1, <1>6 DEF Compare, LoadedBoth, SInv, EmptyIsSeen, TypeOK, Index
    <3>2. 0 % 2^16 = 0
      OBVIOUS
    <3> QED
      BY <3>1, <3>2 DEF rb_full_count
  <2> HIDE DEF rb_full_count
  <2>2. DOMAIN loaded' = {}
    BY <1>6 DEF Compare, Nothing
  <2>3. head' = head /\ tail' = tail
    BY <1>6 DEF Compare, ring
  <2>4. pc' = IF rb_full_count = 0 THEN "size" ELSE "remove"
    BY <1>6 DEF Compare
  <2> QED
    BY <1>1, <2>1, <2>2, <2>3, <2>4 DEF SInv, NothingLoaded, EmptyIsSeen
<1>7. CASE LoadItem
  BY <1>1, <1>7 DEF LoadItem, ring, SInv, NothingLoaded, EmptyIsSeen
<1>8. CASE StoreHead
  BY <1>1, <1>8 DEF StoreHead, SInv, NothingLoaded, EmptyIsSeen
<1>9. CASE UNCHANGED vars
  BY <1>1, <1>9 DEF vars, ring, reader, SInv, NothingLoaded, EmptyIsSeen
<1>10. tail \in Index /\ head \in Index
  BY <1>1 DEF TypeOK
<1> QED
  BY <1>2, <1>3, <1>4, <1>5, <1>6, <1>7, <1>8, <1>9, <1>10 DEF Next, read

(* However the interrupt comes between the loads of rb_full_count, and     *)
(* even if it overruns the buffer, HardwareSerial::read removes only from  *)
(* a buffer that holds a byte, provided the button does not come in its    *)
(* middle.                                                                 *)
THEOREM ReadsNonEmpty ==
  ASSUME Button # "any"
  PROVE  Spec => []RemovesFromNonEmpty
<1>1. SInv => RemovesFromNonEmpty
  BY DEF SInv, EmptyIsSeen, RemovesFromNonEmpty
<1>2. SInv /\ [Next]_vars => SInv'
  BY NextSInv
<1> QED
  BY InitSInv, <1>1, <1>2, PTL DEF Spec

-----------------------------------------------------------------------------
(* The buffer as a queue.                                                   *)
LEMMA QueueType ==
  ASSUME TypeOK
  PROVE  /\ stored \in 0 .. Slots - 1
         /\ queue \in Seq(Nat) /\ Len(queue) = stored
         /\ DOMAIN queue = 1 .. stored
<1>1. stored \in 0 .. Slots - 1
  BY RingBufferAssumption DEF TypeOK, stored, Index
<1>2. ASSUME NEW i \in 1 .. stored PROVE queue[i] \in Nat
  BY <1>1, <1>2, RingBufferAssumption DEF TypeOK, stored, queue, Index
<1>3. queue \in [1 .. stored -> Nat]
  BY <1>2 DEF queue
<1> QED
  BY <1>1, <1>3

(* The same of the queue after a step.                                     *)
LEMMA QueueTypeNext ==
  TypeOK' => (queue \in Seq(Nat) /\ Len(queue) = stored)'
<1>1. TypeOK => queue \in Seq(Nat) /\ Len(queue) = stored
  BY QueueType
<1> QED
  BY <1>1, PTL

(* rb_is_full says that the one slot left free is all there is left.       *)
LEMMA FullIsFull ==
  TypeOK => (rb_is_full <=> stored = Slots - 1)
BY RingBufferAssumption DEF TypeOK, rb_is_full, stored, Index

(* The slot of the i-th byte.                                               *)
slot(i) == IF head + i - 1 < Slots THEN head + i - 1 ELSE head + i - 1 - Slots

(* The slot of a byte of the queue is in the buffer, and not that of the   *)
(* next insertion.                                                         *)
LEMMA QueueSlots ==
  ASSUME TypeOK
  PROVE  /\ queue = [i \in 1 .. stored |-> buf[slot(i)]]
         /\ \A i \in 1 .. stored : slot(i) \in Index /\ slot(i) # tail
<1>1. \A i \in 1 .. stored : slot(i) \in Index /\ slot(i) # tail
  BY RingBufferAssumption DEF TypeOK, stored, slot, Index
<1>2. queue = [i \in 1 .. stored |-> buf[slot(i)]]
  BY DEF queue, slot
<1> QED
  BY <1>1, <1>2

(* An insertion into a buffer that is not full puts a byte at the end of   *)
(* the queue (rb_insert).                                                  *)
LEMMA InsertAppends ==
  ASSUME TypeOK, ~rb_is_full, usart_irq
  PROVE  queue' = Append(queue, received')
<1>1. TypeOK'
  BY NextTypeOK DEF Next
<1>2. stored' = stored + 1
  BY RingBufferAssumption DEF TypeOK, usart_irq, rb_is_full, stored, Succ, Index
<1>3. head' = head /\ buf' = [buf EXCEPT ![tail] = received'] /\ received' \in Nat
  BY DEF usart_irq, TypeOK
<1>4. \A i \in 1 .. stored + 1 : slot(i)' = slot(i)
  BY <1>3 DEF slot
<1>5. slot(stored + 1) = tail
  BY RingBufferAssumption DEF TypeOK, stored, slot, Index
<1>6. queue' \in Seq(Nat) /\ Len(queue') = stored + 1
  <2>1. queue' \in Seq(Nat) /\ Len(queue') = stored'
    BY <1>1, QueueTypeNext
  <2> QED
    BY <1>2, <2>1
<1>7. ASSUME NEW i \in 1 .. stored + 1
      PROVE  queue'[i] = IF i = stored + 1 THEN received' ELSE queue[i]
  <2>1. queue'[i] = buf'[slot(i)]
    <3>1. queue' = [j \in 1 .. stored' |-> (buf[slot(j)])']
      BY DEF queue, slot
    <3> QED
      BY <1>2, <1>4, <1>7, <3>1
  <2>2. CASE i = stored + 1
    BY <1>3, <1>5, <2>1, <2>2 DEF TypeOK
  <2>3. CASE i # stored + 1
    <3>1. i \in 1 .. stored
      BY <1>7, <2>3, QueueType
    <3> QED
      BY <1>3, <2>1, <2>3, <3>1, QueueSlots DEF TypeOK
  <2> QED
    BY <2>2, <2>3
<1> HIDE DEF queue, stored
<1>8. /\ Append(queue, received') \in Seq(Nat)
      /\ Len(Append(queue, received')) = stored + 1
      /\ \A i \in 1 .. stored + 1 :
           Append(queue, received')[i] = IF i = stored + 1 THEN received' ELSE queue[i]
  BY <1>3, QueueType, AppendProperties
<1> QED
  BY <1>6, <1>7, <1>8, SeqEqual

(* The last step of rb_remove takes the first byte from the queue.         *)
LEMMA RemoveTakes ==
  ASSUME TypeOK, TypeOK', head # tail, UNCHANGED <<buf, tail>>, head' = Succ(head)
  PROVE  /\ queue # <<>> /\ Head(queue) = buf[head]
         /\ queue' = Tail(queue)
<1>1. stored' = stored - 1 /\ stored \in Nat /\ stored > 0
  <2>1. head \in Index /\ tail \in Index
    BY DEF TypeOK
  <2>2. CASE head = Slots - 1
    BY <2>1, <2>2, RingBufferAssumption DEF stored, Succ, Index
  <2>3. CASE head # Slots - 1
    BY <2>1, <2>3, RingBufferAssumption DEF stored, Succ, Index
  <2> QED
    BY <2>2, <2>3
<1>2. \A i \in 1 .. stored - 1 : slot(i)' = slot(i + 1)
  BY RingBufferAssumption DEF TypeOK, slot, Succ, Index, stored
<1>3. queue' \in Seq(Nat) /\ Len(queue') = stored - 1
  <2>1. queue' \in Seq(Nat) /\ Len(queue') = stored'
    BY QueueTypeNext
  <2> QED
    BY <1>1, <2>1
<1>4. ASSUME NEW i \in 1 .. stored - 1 PROVE queue'[i] = queue[i + 1]
  <2>1. queue' = [j \in 1 .. stored' |-> (buf[slot(j)])']
    BY DEF queue, slot
  <2>2. i + 1 \in 1 .. stored /\ queue[i + 1] = buf[slot(i + 1)]
    BY <1>1, <1>4, QueueSlots
  <2> QED
    BY <1>1, <1>2, <1>4, <2>1, <2>2
<1>5. slot(1) = head
  BY RingBufferAssumption DEF slot, TypeOK, Index
<1>6. queue # <<>> /\ Head(queue) = buf[head]
  BY <1>1, <1>5, QueueType, QueueSlots
<1> HIDE DEF queue, stored
<1>7. /\ Tail(queue) \in Seq(Nat) /\ Len(Tail(queue)) = stored - 1
      /\ \A i \in 1 .. stored - 1 : Tail(queue)[i] = queue[i + 1]
  BY <1>1, <1>6, QueueType, HeadTailProperties
<1> QED
  BY <1>3, <1>4, <1>6, <1>7, SeqEqual

-----------------------------------------------------------------------------
(* Without overrun and without the button, the buffer implements the       *)
(* bounded queue.                                                          *)
FInv == SInv /\ RemovingHead

(* The head the reader has loaded stays that of the buffer.                *)
LEMMA NextFInv ==
  ASSUME ~Overrun, Button = "never", FInv, [Next]_vars
  PROVE  FInv'
<1>1. SInv'
  BY NextSInv DEF FInv
<1>2. TypeOK /\ (pc = "store" => head # tail)
  BY DEF FInv, SInv, EmptyIsSeen
<1>3. CASE usart_irq
  BY <1>1, <1>2, <1>3 DEF usart_irq, reader, FInv, RemovingHead, TypeOK
<1>4. CASE button_pressed
  BY <1>4 DEF button_pressed
<1>5. CASE LoadItem
  BY <1>1, <1>5 DEF LoadItem, ring, FInv, RemovingHead
<1>6. CASE (\E f, v : Load(f, v)) \/ Subtract \/ Compare \/ StoreHead \/ UNCHANGED vars
  BY <1>1, <1>6
  DEF Load, Subtract, Compare, StoreHead, vars, ring, reader, FInv, RemovingHead
<1> QED
  BY <1>3, <1>4, <1>5, <1>6 DEF Next, read

(* The empty buffer is the empty queue.                                    *)
LEMMA InitFifo == Init => Fifo!Init
<1> SUFFICES ASSUME Init PROVE Fifo!Init
  OBVIOUS
<1>1. TypeOK /\ stored = 0
  BY InitTypeOK DEF Init, stored
<1>2. queue = <<>>
  BY <1>1, QueueType, EmptySeq
<1> QED
  BY <1>2 DEF Init, Fifo!Init

(* Every step is a Put, a Take or a stutter of the bounded queue.          *)
LEMMA NextFifo ==
  ASSUME ~Overrun, Button = "never", FInv, [Next]_vars
  PROVE  [Fifo!Put \/ Fifo!Take]_Fifo!vars
<1>1. TypeOK /\ TypeOK'
  BY NextTypeOK DEF FInv, SInv
<1>2. CASE usart_irq
  <2>1. ~rb_is_full /\ queue' = Append(queue, received')
    BY <1>1, <1>2, InsertAppends DEF usart_irq
  <2>2. Len(queue) < Slots - 1
    BY <1>1, <2>1, FullIsFull, QueueType, RingBufferAssumption
  <2>3. received' = received + 1 /\ taken' = taken
    BY <1>2 DEF usart_irq, reader
  <2> QED
    BY <2>1, <2>2, <2>3 DEF Fifo!Put
<1>3. CASE button_pressed
  BY <1>3 DEF button_pressed
<1>4. CASE StoreHead
  <2>1. head' = Succ(head) /\ taken' = buf[head] /\ UNCHANGED <<buf, tail, received>>
    BY <1>4 DEF StoreHead, FInv, RemovingHead
  <2>2. head # tail
    BY <1>4 DEF StoreHead, FInv, SInv, EmptyIsSeen
  <2>3. queue # <<>> /\ Head(queue) = buf[head] /\ queue' = Tail(queue)
    BY <1>1, <2>1, <2>2, RemoveTakes
  <2> QED
    BY <2>1, <2>3 DEF Fifo!Take
<1>5. CASE (\E f, v : Load(f, v)) \/ Subtract \/ Compare \/ LoadItem \/ UNCHANGED vars
  <2>1. UNCHANGED <<buf, head, tail, received, taken>>
    BY <1>5 DEF Load, Subtract, Compare, LoadItem, vars, ring, reader
  <2>2. UNCHANGED <<queue, received, taken>>
    BY <2>1 DEF queue, stored
  <2> QED
    BY <2>2 DEF Fifo!vars
<1> QED
  BY <1>2, <1>3, <1>4, <1>5 DEF Next, read

(* The receive buffer of any size is a bounded first-in first-out queue,   *)
(* whatever loads and stores the interrupt of the port comes between       *)
(* (rb_push_insert, rb_full_count, rb_remove), as long as no byte comes    *)
(* while it is full and the button is not pressed.                         *)
THEOREM ImplementsFifo ==
  ASSUME ~Overrun, Button = "never"
  PROVE  Spec => IsFifo
<1>1. Init => FInv
  BY InitSInv DEF Init, FInv, RemovingHead
<1>2. FInv /\ [Next]_vars => FInv'
  BY NextFInv
<1>3. FInv /\ [Next]_vars => [Fifo!Put \/ Fifo!Take]_Fifo!vars
  BY NextFifo
<1> QED
  BY <1>1, <1>2, <1>3, InitFifo, PTL DEF Spec, IsFifo, Fifo!Spec

-----------------------------------------------------------------------------
(* What the slots hold when the buffer overruns: the later the interrupt   *)
(* comes to a slot again, the later the byte that is in it.                *)
Turn(i) == IF i < tail THEN i + Slots ELSE i

(* The slots from one up to the tail.                                      *)
UpToTail(first, i) ==
  IF first <= tail THEN first <= i /\ i < tail ELSE first <= i \/ i < tail

Ordered ==
  /\ taken <= received /\ \A i \in Index : buf[i] <= received
  /\ \A i, j \in Index : Turn(i) < Turn(j) => buf[i] < buf[j] \/ buf[j] = 0

(* What is stored is newer than what has been taken.                       *)
StoredIsNewer == \A i \in Index : UpToTail(head, i) => buf[i] > taken

(* The item that rb_remove has loaded is newer too; and what will be       *)
(* stored, once it has put the head back to where it was, is newer still.  *)
LeftIsNewer ==
  pc = "store" =>
    /\ removing.item > taken /\ removing.item <= received
    /\ \A i \in Index : UpToTail(Succ(removing.index), i) => buf[i] > removing.item

OInv == SInv /\ Ordered /\ StoredIsNewer /\ LeftIsNewer

(* The numbers that the order is about.                                    *)
LEMMA OrderTypes ==
  ASSUME TypeOK
  PROVE  /\ Slots \in Nat /\ Slots >= 2 /\ Index = 0 .. Slots - 1
         /\ head \in Index /\ tail \in Index /\ Succ(tail) \in Index /\ Succ(head) \in Index
         /\ received \in Nat /\ taken \in Nat
         /\ removing.index \in Index /\ removing.item \in Nat
         /\ Succ(removing.index) \in Index
         /\ buf \in [Index -> Nat]
BY RingBufferAssumption, SuccInIndex DEF TypeOK, Index

(* The slot the interrupt has just filled has the last turn, and the turns *)
(* of the others keep their order.                                         *)
LEMMA TurnOfInsertion ==
  ASSUME TypeOK, tail' = Succ(tail), NEW i \in Index, NEW j \in Index,
         Turn(i)' < Turn(j)'
  PROVE  i # tail /\ (j # tail => Turn(i) < Turn(j))
<1>1. Slots \in Nat /\ tail \in 0 .. Slots - 1 /\ i \in 0 .. Slots - 1 /\ j \in 0 .. Slots - 1
  BY OrderTypes
<1>2. CASE tail = Slots - 1
  <2>1. Turn(i)' = i /\ Turn(j)' = j
    BY <1>1, <1>2 DEF Turn, Succ
  <2> QED
    BY <1>1, <1>2, <2>1 DEF Turn
<1>3. CASE tail # Slots - 1
  <2>1. Turn(i)' = (IF i <= tail THEN i + Slots ELSE i)
        /\ Turn(j)' = (IF j <= tail THEN j + Slots ELSE j)
    BY <1>1, <1>3 DEF Turn, Succ
  <2> QED
    BY <1>1, <1>3, <2>1 DEF Turn
<1> QED
  BY <1>2, <1>3

(* The slots up to the new tail are the ones up to the old, and that one.  *)
LEMMA UpToInsertion ==
  ASSUME TypeOK, tail' = Succ(tail), NEW first \in Index, NEW i \in Index,
         UpToTail(first, i)'
  PROVE  i = tail \/ UpToTail(first, i)
BY OrderTypes DEF UpToTail, Succ

(* After the first slot of some come others, with a later turn.            *)
LEMMA UpToNext ==
  ASSUME TypeOK, NEW first \in Index, first # tail, NEW i \in Index,
         UpToTail(Succ(first), i)
  PROVE  UpToTail(first, i) /\ Turn(first) < Turn(i)
<1>1. /\ Slots \in Nat /\ tail \in 0 .. Slots - 1
      /\ first \in 0 .. Slots - 1 /\ i \in 0 .. Slots - 1
  BY OrderTypes
<1>2. CASE first = Slots - 1
  BY <1>1, <1>2 DEF UpToTail, Turn, Succ
<1>3. CASE first # Slots - 1
  BY <1>1, <1>3 DEF UpToTail, Turn, Succ
<1> QED
  BY <1>2, <1>3

(* The interrupt inserts the newest byte, whatever it overwrites.          *)
LEMMA InsertKeepsOrder ==
  ASSUME OInv, SInv', usart_irq
  PROVE  OInv'
<1>1. TypeOK /\ TypeOK'
  BY DEF OInv, SInv
<1>2. /\ received' = received + 1 /\ tail' = Succ(tail)
      /\ buf' = [buf EXCEPT ![tail] = received']
      /\ head' = head \/ (rb_is_full /\ head' = Succ(head))
      /\ UNCHANGED <<pc, removing, taken>>
  BY DEF usart_irq, reader
<1>3. /\ head \in Index /\ tail \in Index /\ Succ(head) \in Index
      /\ received \in Nat /\ taken \in Nat
      /\ removing.index \in Index /\ removing.item \in Nat
      /\ Succ(removing.index) \in Index
      /\ buf \in [Index -> Nat]
  BY <1>1, OrderTypes
<1>4. \A i \in Index : buf'[i] = IF i = tail THEN received + 1 ELSE buf[i]
  BY <1>2, <1>3
<1>5. Ordered'
  <2>1. taken' <= received' /\ \A i \in Index : buf'[i] <= received'
    BY <1>2, <1>3, <1>4 DEF OInv, Ordered
  <2>2. ASSUME NEW i \in Index, NEW j \in Index, Turn(i)' < Turn(j)'
        PROVE  buf'[i] < buf'[j] \/ buf'[j] = 0
    <3>1. i # tail /\ (j # tail => Turn(i) < Turn(j))
      BY <1>1, <1>2, <2>2, TurnOfInsertion
    <3>2. buf[i] <= received /\ (j # tail => buf[i] < buf[j] \/ buf[j] = 0)
      BY <3>1 DEF OInv, Ordered
    <3> QED
      BY <1>3, <1>4, <3>1, <3>2
  <2> QED
    BY <2>1, <2>2 DEF Ordered
<1>6. ASSUME NEW first \in Index, NEW n \in Nat, n <= received,
             \A i \in Index : UpToTail(first, i) => buf[i] > n,
             NEW i \in Index, UpToTail(first, i)'
      PROVE  buf'[i] > n
  BY <1>1, <1>2, <1>3, <1>4, <1>6, UpToInsertion
<1>7. StoredIsNewer'
  <2> SUFFICES ASSUME NEW i \in Index, (UpToTail(head, i))' PROVE buf'[i] > taken
    BY <1>2 DEF StoredIsNewer
  <2>1. \A j \in Index : UpToTail(head, j) => buf[j] > taken
    BY DEF OInv, StoredIsNewer
  <2>2. taken <= received
    BY DEF OInv, Ordered
  <2>3. CASE head' = head
    <3>1. UpToTail(head, i)' = UpToTail(head, i)'
      OBVIOUS
    <3> QED
      BY <1>3, <1>6, <2>1, <2>2, <2>3
  <2>4. CASE rb_is_full /\ head' = Succ(head)
    <3>1. head # tail
      BY <1>1, <2>4, OrderTypes DEF rb_is_full
    <3>2. \A j \in Index : UpToTail(Succ(head), j) => buf[j] > taken
      BY <1>1, <1>3, <2>1, <3>1, UpToNext
    <3> QED
      BY <1>3, <1>6, <2>2, <2>4, <3>2
  <2> QED
    BY <1>2, <2>3, <2>4
<1>8. LeftIsNewer'
  <2> SUFFICES ASSUME pc = "store"
               PROVE  LeftIsNewer'
    BY <1>2 DEF LeftIsNewer
  <2>1. /\ removing.item > taken /\ removing.item <= received
        /\ \A i \in Index : UpToTail(Succ(removing.index), i) => buf[i] > removing.item
    BY DEF OInv, LeftIsNewer
  <2>2. \A i \in Index : UpToTail(Succ(removing.index), i)' => buf'[i] > removing.item
    BY <1>2, <1>3, <1>6, <2>1
  <2> QED
    BY <1>2, <1>3, <2>1, <2>2 DEF LeftIsNewer
<1> QED
  BY <1>5, <1>7, <1>8 DEF OInv

(* The first item of the queue is the oldest that is stored.               *)
LEMMA LoadKeepsOrder ==
  ASSUME OInv, SInv', LoadItem
  PROVE  OInv'
<1>1. TypeOK /\ head # tail
  BY DEF OInv, SInv, EmptyIsSeen, LoadItem
<1>2. /\ UNCHANGED <<buf, head, tail, received, taken>>
      /\ removing' = [index |-> head, item |-> buf[head]] /\ pc' = "store"
  BY DEF LoadItem, ring
<1>3. /\ head \in Index /\ tail \in Index /\ Succ(head) \in Index
      /\ Slots \in Nat /\ Index = 0 .. Slots - 1
      /\ received \in Nat /\ taken \in Nat /\ buf \in [Index -> Nat]
  BY <1>1, OrderTypes
<1>4. UpToTail(head, head)
  BY <1>1, <1>3 DEF UpToTail
<1>5. buf[head] > taken /\ buf[head] <= received
  BY <1>3, <1>4 DEF OInv, StoredIsNewer, Ordered
<1>6. ASSUME NEW i \in Index, UpToTail(Succ(head), i) PROVE buf[i] > buf[head]
  <2>1. UpToTail(head, i) /\ Turn(head) < Turn(i)
    BY <1>1, <1>3, <1>6, UpToNext
  <2>2. buf[i] > taken /\ (buf[head] < buf[i] \/ buf[i] = 0)
    BY <1>3, <2>1 DEF OInv, StoredIsNewer, Ordered
  <2> QED
    BY <1>3, <2>2
<1>7. Ordered' /\ StoredIsNewer'
  BY <1>2 DEF OInv, Ordered, StoredIsNewer, Turn, UpToTail
<1>8. LeftIsNewer'
  BY <1>2, <1>5, <1>6 DEF LeftIsNewer, UpToTail
<1> QED
  BY <1>7, <1>8 DEF OInv

(* rb_remove stores the head of its own count, whatever the interrupt has  *)
(* made of it, and gives its item to HardwareSerial::read.                 *)
LEMMA StoreKeepsOrder ==
  ASSUME OInv, SInv', StoreHead
  PROVE  OInv' /\ taken' > taken
<1>1. TypeOK
  BY DEF OInv, SInv
<1>2. /\ UNCHANGED <<buf, tail, received, removing>> /\ pc = "store" /\ pc' = "size"
      /\ head' = Succ(removing.index) /\ taken' = removing.item
  BY DEF StoreHead
<1>3. /\ removing.item > taken /\ removing.item <= received
      /\ \A i \in Index : UpToTail(Succ(removing.index), i) => buf[i] > removing.item
  BY <1>2 DEF OInv, LeftIsNewer
<1>4. Ordered' /\ StoredIsNewer' /\ LeftIsNewer'
  BY <1>2, <1>3 DEF OInv, Ordered, StoredIsNewer, LeftIsNewer, Turn, UpToTail
<1> QED
  BY <1>2, <1>3, <1>4 DEF OInv

(* Every step keeps what the order rests on, and takes a newer byte.       *)
LEMMA NextOInv ==
  ASSUME Button # "any", OInv, [Next]_vars
  PROVE  OInv' /\ (pc = "store" /\ pc' = "size" => taken' > taken)
<1>1. SInv' /\ TypeOK /\ TypeOK'
  BY NextSInv DEF OInv, SInv
<1>2. CASE usart_irq
  BY <1>1, <1>2, InsertKeepsOrder DEF usart_irq, reader
<1>3. CASE button_pressed
  <2>1. pc = "size" /\ head' = tail /\ UNCHANGED <<buf, tail, received, pc, removing, taken>>
    BY <1>3, RingBufferAssumption DEF button_pressed, reader
  <2>2. \A i \in Index : ~UpToTail(tail, i)
    BY <1>1, OrderTypes DEF UpToTail
  <2> QED
    BY <1>1, <2>1, <2>2
    DEF OInv, Ordered, StoredIsNewer, LeftIsNewer, Turn, UpToTail
<1>4. CASE LoadItem
  BY <1>1, <1>4, LoadKeepsOrder DEF LoadItem
<1>5. CASE StoreHead
  BY <1>1, <1>5, StoreKeepsOrder
<1>6. CASE (\E f, v : Load(f, v)) \/ Subtract \/ Compare \/ UNCHANGED vars
  <2>1. /\ UNCHANGED <<buf, head, tail, received, removing, taken>>
        /\ pc = "store" => pc' = "store"
        /\ pc' = "store" => pc = "store"
    BY <1>6 DEF Load, Subtract, Compare, vars, ring, reader
  <2> QED
    BY <1>1, <2>1 DEF OInv, Ordered, StoredIsNewer, LeftIsNewer, Turn, UpToTail
<1> QED
  BY <1>2, <1>3, <1>4, <1>5, <1>6 DEF Next, read

(* InOrder: whatever the interrupt overwrites, and wherever it moves the   *)
(* head that rb_remove is about to store, HardwareSerial::read returns the *)
(* bytes in the order they were received, none twice, provided the button  *)
(* does not come in its middle.                                            *)
THEOREM ReadsInOrder ==
  ASSUME Button # "any"
  PROVE  Spec => InOrder
<1>1. Init => OInv
  <2> SUFFICES ASSUME Init PROVE OInv
    OBVIOUS
  <2>1. SInv
    BY InitSInv
  <2>2. /\ buf = [i \in Index |-> 0] /\ head = 0 /\ tail = 0
        /\ received = 0 /\ taken = 0 /\ pc = "size"
    BY DEF Init
  <2>3. Index = 0 .. Slots - 1
    BY <2>1, OrderTypes DEF SInv
  <2> QED
    BY <2>1, <2>2, <2>3 DEF OInv, Ordered, StoredIsNewer, LeftIsNewer, UpToTail
<1>2. OInv /\ [Next]_vars => OInv'
  BY NextOInv
<1>3. OInv /\ [Next]_vars => [pc = "store" /\ pc' = "size" => taken' > taken]_vars
  BY NextOInv
<1> QED
  BY <1>1, <1>2, <1>3, PTL DEF Spec, InOrder
=============================================================================
