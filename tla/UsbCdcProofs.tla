---------------------------- MODULE UsbCdcProofs ----------------------------
(* Safety of UsbCdc for packets of any size and any traffic of the host.    *)
EXTENDS UsbCdc, SequenceTheorems, TLAPS

-----------------------------------------------------------------------------
(* Toggling what was read by the difference to a status sets that status.  *)
LEMMA SetEpStat ==
  ASSUME NEW is \in 0 .. 3, NEW was \in 0 .. 3, NEW status \in 0 .. 3
  PROVE  /\ set_ep_stat(is, was, status) \in 0 .. 3
         /\ is = was => set_ep_stat(is, was, status) = status
<1>1. is \in {0, 1, 2, 3} /\ was \in {0, 1, 2, 3} /\ status \in {0, 1, 2, 3}
  OBVIOUS
<1> QED
  BY <1>1 DEF set_ep_stat, Xor

(* What write hands to usb_cdcacm_tx fits a packet and is in the buffer.   *)
LEMMA ChunkFits ==
  ASSUME TypeOK
  PROVE  /\ Chunk \in Seq(Nat)
         /\ Len(Chunk) \in 0 .. TX_EPSIZE
         /\ txed + Len(Chunk) \in 0 .. Len(buf)
<1> DEFINE last == IF txed + TX_EPSIZE < Len(buf) THEN txed + TX_EPSIZE ELSE Len(buf)
<1>1. /\ buf \in Seq(Nat) /\ Len(buf) \in Nat /\ txed \in 0 .. Len(buf)
      /\ TX_EPSIZE \in Nat \ {0}
  BY UsbCdcAssumption, LenProperties DEF TypeOK
<1>2. last \in Nat /\ last <= Len(buf) /\ last >= txed /\ last - txed <= TX_EPSIZE
  BY <1>1
<1>3. \A i \in (txed + 1) .. last : buf[i] \in Nat
  BY <1>1, <1>2, ElementOfSeq
<1>4. /\ SubSeq(buf, txed + 1, last) \in Seq(Nat)
      /\ Len(SubSeq(buf, txed + 1, last)) = IF txed + 1 <= last THEN last - (txed + 1) + 1 ELSE 0
  BY <1>1, <1>2, <1>3, SubSeqProperties
<1>5. Chunk = SubSeq(buf, txed + 1, last)
  BY DEF Chunk
<1> HIDE DEF last
<1> QED
  BY <1>1, <1>2, <1>4, <1>5

(* The buffer is the sequence of its bytes.                                *)
LEMMA BufferIsSeq ==
  ASSUME NEW b \in [1 .. RX_EPSIZE -> Nat]
  PROVE  b \in Seq(Nat) /\ Len(b) = RX_EPSIZE
<1>1. RX_EPSIZE \in Nat
  BY UsbCdcAssumption
<1> QED
  BY <1>1, SeqDef, LenProperties

(* A packet of the host.                                                   *)
LEMMA PacketFits ==
  ASSUME NEW packet \in Packets
  PROVE  packet \in Seq(Nat) /\ Len(packet) \in 0 .. RX_EPSIZE
BY UsbCdcAssumption, LenProperties

(* The types hold when the board starts.                                   *)
LEMMA InitTypeOK == Init => TypeOK
<1>1. <<>> \in Seq(Nat) /\ Len(<<>>) = 0
  BY EmptySeq
<1> SUFFICES ASSUME Init PROVE TypeOK
  OBVIOUS
<1>2. vcomBufferRx \in [1 .. RX_EPSIZE -> Nat]
  BY DEF Init
<1>3. /\ pma \in Seq(Nat) /\ buf \in Seq(Nat) /\ due \in Seq(Nat) /\ owed \in Seq(Nat)
      /\ txed \in 0 .. Len(buf)
  BY <1>1 DEF Init
<1>4. pc \in PC
  BY DEF Init, PC
<1>5. pc = "idle" /\ RX_EPSIZE \in Nat /\ TX_EPSIZE \in Nat
  BY UsbCdcAssumption DEF Init
<1>6. /\ rx_offset \in 0 .. RX_EPSIZE /\ n_unread_bytes \in 0 .. MANY
      /\ n_unsent_bytes \in 0 .. TX_EPSIZE /\ sent \in 0 .. TX_EPSIZE
  BY <1>5 DEF Init, MANY
<1>7. configured \in BOOLEAN /\ listening \in BOOLEAN /\ torn \in BOOLEAN
  BY DEF Init
<1>8. {state, prevState} \subseteq
        {"UNCONNECTED", "ATTACHED", "ADDRESSED", "CONFIGURED", "SUSPENDED"}
  BY DEF Init
<1>9. transmitting \in 0 .. 1 /\ rx_stat \in 0 .. 3 /\ tx_stat \in 0 .. 3
      /\ n_copied \in 0 .. 1 /\ loaded \in Nat
      /\ reset_state \in {"UNSET", "NEGEDGE", "LOW"}
  BY DEF Init, DISABLED
<1> QED
  BY <1>2, <1>3, <1>4, <1>5, <1>6, <1>7, <1>8, <1>9 DEF TypeOK

(* And when the watchdog restarts it.                                      *)
LEMMA RestartTypeOK == Restart /\ TypeOK => TypeOK'
<1>1. <<>> \in Seq(Nat) /\ Len(<<>>) = 0
  BY EmptySeq
<1> SUFFICES ASSUME Restart, TypeOK PROVE TypeOK'
  OBVIOUS
<1>2. vcomBufferRx' \in [1 .. RX_EPSIZE -> Nat]
  BY DEF Restart
<1>3. /\ pma' \in Seq(Nat) /\ buf' \in Seq(Nat) /\ due' \in Seq(Nat) /\ owed' \in Seq(Nat)
      /\ txed' \in 0 .. Len(buf')
  BY <1>1 DEF Restart
<1>4. pc' \in PC
  BY DEF Restart, PC
<1>5. pc' = "idle" /\ RX_EPSIZE \in Nat /\ TX_EPSIZE \in Nat
  BY UsbCdcAssumption DEF Restart
<1>6. /\ rx_offset' \in 0 .. RX_EPSIZE /\ n_unread_bytes' \in 0 .. MANY
      /\ n_unsent_bytes' \in 0 .. TX_EPSIZE /\ sent' \in 0 .. TX_EPSIZE
  BY <1>5 DEF Restart, MANY
<1>7. configured' \in BOOLEAN /\ listening' \in BOOLEAN /\ torn' \in BOOLEAN
  BY DEF Restart, TypeOK
<1>8. {state', prevState'} \subseteq
        {"UNCONNECTED", "ATTACHED", "ADDRESSED", "CONFIGURED", "SUSPENDED"}
  BY DEF Restart
<1>9. transmitting' \in 0 .. 1 /\ rx_stat' \in 0 .. 3 /\ tx_stat' \in 0 .. 3
      /\ n_copied' \in 0 .. 1 /\ loaded' \in Nat
      /\ reset_state' \in {"UNSET", "NEGEDGE", "LOW"}
  BY DEF Restart, DISABLED
<1> QED
  BY <1>2, <1>3, <1>4, <1>5, <1>6, <1>7, <1>8, <1>9 DEF TypeOK

-----------------------------------------------------------------------------
(* The types are kept by the interrupt.                                     *)
LEMMA HostTypeOK == TypeOK /\ Host => TypeOK'
<1> SUFFICES ASSUME TypeOK, Host PROVE TypeOK'
  OBVIOUS
<1> USE UsbCdcAssumption
<1>1. ASSUME NEW woken \in BOOLEAN, usbReset(woken) PROVE TypeOK'
  <2>1. torn' \in BOOLEAN
    BY <1>1 DEF usbReset, TypeOK
  <2>2. <<>> \in Seq(Nat)
    BY EmptySeq
  <2>3. owed' \in Seq(Nat)
    BY <1>1, <2>2 DEF usbReset, TypeOK
  <2> QED
    <3>1. state' \in {"UNCONNECTED", "ATTACHED", "ADDRESSED", "CONFIGURED", "SUSPENDED"}
      BY <1>1 DEF usbReset, TypeOK
    <3>2. rx_stat' = 3 /\ tx_stat' = 2 /\ rx_offset' = 0 /\ n_unread_bytes' = 0
          /\ n_unsent_bytes' = 0 /\ transmitting' = 0 /\ configured' = FALSE
          /\ due' = <<>>
      BY <1>1 DEF usbReset, VALID, NAK
    <3>3. UNCHANGED <<vcomBufferRx, reset_state, prevState, pma, pc, n_copied, loaded, buf,
                      txed, sent, listening>>
      BY <1>1 DEF usbReset, locals
    <3>4. /\ vcomBufferRx' \in [1 .. RX_EPSIZE -> Nat]
          /\ rx_offset' \in 0 .. RX_EPSIZE /\ n_unread_bytes' \in 0 .. MANY
          /\ n_unsent_bytes' \in 0 .. TX_EPSIZE /\ transmitting' \in 0 .. 1
          /\ rx_stat' \in 0 .. 3 /\ tx_stat' \in 0 .. 3
      BY <3>2, <3>3 DEF TypeOK, MANY
    <3>5. due' \in Seq(Nat) /\ configured' \in BOOLEAN
      BY <2>2, <3>2
    <3> QED
      BY <2>1, <2>3, <3>1, <3>3, <3>4, <3>5 DEF TypeOK
<1>2. CASE usb_suspend
  BY <1>2 DEF usb_suspend, TypeOK, driver, output, locals
<1>3. CASE usb_resume
  BY <1>3 DEF usb_resume, TypeOK, driver, output, locals
<1>4. CASE usbSetDeviceAddress
  BY <1>4 DEF usbSetDeviceAddress, TypeOK, driver, output, locals
<1>5. CASE usbSetConfiguration
  BY <1>5 DEF usbSetConfiguration, TypeOK, driver, output, locals
<1>6. CASE Open
  BY <1>6 DEF Open, TypeOK, driver, output, device, locals
<1>7. CASE ifaceSetupHook
  BY <1>7 DEF ifaceSetupHook, TypeOK, output, device, locals
<1>8. CASE vcomDataTxCb
  BY <1>8 DEF vcomDataTxCb, TypeOK, driver, device, locals, NAK
<1>9. ASSUME NEW packet \in Packets, vcomDataRxCb(packet) PROVE TypeOK'
  <2> DEFINE buffer == [i \in 1 .. RX_EPSIZE |->
                          IF i <= Len(packet) THEN packet[i] ELSE vcomBufferRx[i]]
  <2>1. packet \in Seq(Nat) /\ Len(packet) \in 0 .. RX_EPSIZE
    BY PacketFits
  <2>2. buffer \in [1 .. RX_EPSIZE -> Nat]
    <3>1. \A i \in 1 .. Len(packet) : packet[i] \in Nat
      BY <2>1, ElementOfSeq
    <3> QED
      BY <2>1, <3>1 DEF TypeOK
  <2>3. CASE Restart
    BY <2>3, RestartTypeOK
  <2>4. CASE ~Restart
    <3>1. /\ vcomBufferRx' = buffer /\ n_unread_bytes' = Len(packet)
          /\ rx_stat' = Enabled(packet)
          /\ rx_offset' = IF packet = <<>> THEN 0 ELSE rx_offset
          /\ reset_state' = IF reset_state = "NEGEDGE" THEN "LOW" ELSE reset_state
          /\ due' = packet
          /\ UNCHANGED <<output, device, pc, locals, listening, torn>>
      BY <1>9, <2>4 DEF vcomDataRxCb
    <3>2. Enabled(packet) \in 0 .. 3
      BY DEF Enabled, VALID, NAK
    <3> QED
      BY <2>1, <2>2, <3>1, <3>2 DEF TypeOK, output, device, locals, MANY
  <2> QED
    BY <2>3, <2>4
<1> QED
  BY <1>1, <1>2, <1>3, <1>4, <1>5, <1>6, <1>7, <1>8, <1>9 DEF Host

(* The types are kept by the main thread in read.                          *)
ReadStep ==
  \/ available \/ PeekLen \/ Peek \/ LoadUnread \/ StoreUnread \/ LoadOffset \/ StoreOffset
  \/ AllRead \/ LoadRxStat \/ StoreRxStat \/ ClearOffset \/ Return

LEMMA ReadTypeOK == TypeOK /\ ReadStep => TypeOK'
<1> SUFFICES ASSUME TypeOK, ReadStep PROVE TypeOK'
  OBVIOUS
<1> USE UsbCdcAssumption DEF TypeOK, At, Go, PC, Reading, Writing, Sending
<1>1. CASE available
  BY <1>1 DEF available, driver, output, device, locals
<1>2. CASE PeekLen
  BY <1>2 DEF PeekLen, driver, output, device
<1>3. CASE Peek
  <2>1. due # <<>> => Tail(due) \in Seq(Nat)
    BY HeadTailProperties
  <2> QED
    BY <1>3, <2>1 DEF Peek, driver, output, device, locals
<1>4. CASE LoadUnread
  BY <1>4 DEF LoadUnread, Load, driver, output, device
<1>5. CASE StoreUnread
  BY <1>5 DEF StoreUnread, Less, MANY, output, device
<1>6. CASE LoadOffset
  BY <1>6 DEF LoadOffset, Load, driver, output, device
<1>7. CASE StoreOffset
  BY <1>7 DEF StoreOffset, Beyond, MANY, output, device
<1>8. CASE AllRead
  BY <1>8 DEF AllRead, driver, output, device, locals
<1>9. CASE LoadRxStat
  BY <1>9 DEF LoadRxStat, Load, driver, output, device
<1>10. CASE StoreRxStat
  <2>1. loaded \in 0 .. 3 /\ rx_stat \in 0 .. 3 /\ VALID \in 0 .. 3
    BY <1>10 DEF StoreRxStat, VALID
  <2>2. rx_stat' \in 0 .. 3
    BY <1>10, <2>1, SetEpStat DEF StoreRxStat
  <2> QED
    BY <1>10, <2>2 DEF StoreRxStat, driver, output, device
<1>11. CASE ClearOffset
  BY <1>11 DEF ClearOffset, output, device, locals
<1>12. CASE Return
  BY <1>12 DEF Return, driver, output, device
<1> QED
  BY <1>1, <1>2, <1>3, <1>4, <1>5, <1>6, <1>7, <1>8, <1>9, <1>10, <1>11, <1>12 DEF ReadStep

(* The types are kept by the main thread in write.                         *)
WriteStep ==
  \/ \E buffer \in Writes : write(buffer)
  \/ More \/ Full \/ Written \/ Timeout \/ Flush
  \/ Busy \/ Ready \/ Copy \/ Transmit \/ LoadTxStat \/ StoreTxStat

LEMMA WriteTypeOK == TypeOK /\ WriteStep => TypeOK'
<1> SUFFICES ASSUME TypeOK, WriteStep PROVE TypeOK'
  OBVIOUS
<1> USE UsbCdcAssumption DEF At, Go, PC, Reading, Writing, Sending
<1>0. <<>> \in Seq(Nat) /\ Len(<<>>) = 0
  BY EmptySeq
<1>1. ASSUME NEW buffer \in Writes, write(buffer) PROVE TypeOK'
  <2>1. buffer \in Seq(Nat) /\ Len(buffer) \in Nat
    BY LenProperties
  <2>2. /\ buf' = buffer /\ txed' = 0 /\ sent' = 0 /\ pc' = "more"
        /\ UNCHANGED <<driver, output, device, rx_stat, n_copied, loaded, listening, due, torn>>
    BY <1>1 DEF write
  <2> QED
    BY <2>1, <2>2 DEF TypeOK, driver, output, device
<1>2. CASE More
  BY <1>2 DEF More, TypeOK, driver, output, device, locals
<1>3. CASE Full
  BY <1>3 DEF Full, TypeOK, driver, output, device, locals
<1>4. CASE Written \/ Timeout
  <2>1. /\ pc' = "idle" /\ buf' = <<>> /\ txed' = 0 /\ sent' = 0
        /\ UNCHANGED <<driver, output, device, rx_stat, n_copied, loaded, listening, due, torn>>
    BY <1>4 DEF Written, Timeout, WriteReturns
  <2>2. buf' \in Seq(Nat) /\ txed' \in 0 .. Len(buf')
    BY <1>0, <2>1
  <2> QED
    BY <2>1, <2>2 DEF TypeOK, driver, output, device
<1>5. CASE Flush
  <2>1. /\ pc' = "tx" /\ buf' = <<>> /\ txed' = 0 /\ sent' = 0
        /\ UNCHANGED <<driver, output, device, rx_stat, n_copied, loaded, listening, due, torn>>
    BY <1>5 DEF Flush
  <2>2. buf' \in Seq(Nat) /\ txed' \in 0 .. Len(buf')
    BY <1>0, <2>1
  <2> QED
    BY <2>1, <2>2 DEF TypeOK, driver, output, device
<1>6. CASE Busy
  BY <1>6 DEF Busy, TypeOK, driver, output, device
<1>7. CASE Ready
  BY <1>7 DEF Ready, TypeOK, driver, output, device, locals
<1>8. CASE Copy
  BY <1>8, ChunkFits DEF Copy, TypeOK, driver, device
<1>9. CASE Transmit
  BY <1>9 DEF Transmit, TypeOK, driver, device, locals
<1>10. CASE LoadTxStat
  BY <1>10 DEF LoadTxStat, Load, TypeOK, driver, output, device
<1>11. CASE StoreTxStat
  <2>1. loaded \in 0 .. 3 /\ tx_stat \in 0 .. 3 /\ VALID \in 0 .. 3
    BY <1>11 DEF StoreTxStat, TypeOK, VALID
  <2>2. tx_stat' \in 0 .. 3
    BY <1>11, <2>1, SetEpStat DEF StoreTxStat
  <2> QED
    BY <1>11, <2>2 DEF StoreTxStat, TypeOK, driver, device
<1> QED
  BY <1>1, <1>2, <1>3, <1>4, <1>5, <1>6, <1>7, <1>8, <1>9, <1>10, <1>11 DEF WriteStep

(* Every step is one of the host, of read or of write.                     *)
LEMMA Steps == [Next]_vars => Host \/ ReadStep \/ WriteStep \/ UNCHANGED vars
BY DEF Next, Main, Run, ReadStep, WriteStep

(* The types are kept by every step.                                       *)
LEMMA NextTypeOK == TypeOK /\ [Next]_vars => TypeOK'
<1>1. TypeOK /\ UNCHANGED vars => TypeOK'
  BY DEF TypeOK, vars, driver, output, device, locals
<1> QED
  BY <1>1, Steps, HostTypeOK, ReadTypeOK, WriteTypeOK

(* Every variable keeps its type, whatever interrupts the main thread: in  *)
(* particular no packet is longer than the endpoint's memory               *)
(* (usb_cdcacm_tx).                                                        *)
THEOREM UsbTypeOK == Spec => []TypeOK
BY InitTypeOK, NextTypeOK, PTL DEF Spec

-----------------------------------------------------------------------------
(* A packet is handed over by raising the flag first: while the endpoint   *)
(* is being enabled its status does not change unless the flag is lowered. *)
FlagFirst ==
  /\ pc \in {"copy", "transmit"} => transmitting = 0
  /\ pc = "store_tx_stat" /\ transmitting = 1 => loaded = tx_stat
  /\ NotStuck

(* What read does not touch.                                               *)
LEMMA ReadKeepsOutput ==
  ASSUME ReadStep
  PROVE  /\ UNCHANGED <<transmitting, tx_stat, pma, owed, state, prevState, configured, torn>>
         /\ pc \notin Writing
         /\ pc' \notin Writing
BY DEF ReadStep, available, PeekLen, Peek, LoadUnread, LoadOffset, LoadRxStat, Load,
       StoreUnread, StoreOffset, StoreRxStat, AllRead, ClearOffset, Return,
       output, device, At, Go, Writing, Sending

(* FlagFirst is kept by every step.                                        *)
LEMMA NextFlagFirst == TypeOK /\ FlagFirst /\ [Next]_vars => FlagFirst'
<1> SUFFICES ASSUME TypeOK, FlagFirst, [Next]_vars PROVE FlagFirst'
  OBVIOUS
<1> USE DEF FlagFirst, NotStuck, Sending
<1>1. CASE Host
  <2>1. ASSUME NEW woken \in BOOLEAN, usbReset(woken) PROVE FlagFirst'
    BY <2>1 DEF usbReset
  <2>2. ASSUME UNCHANGED <<transmitting, tx_stat, pc, loaded>> PROVE FlagFirst'
    BY <2>2
  <2>3. CASE vcomDataTxCb
    BY <2>3 DEF vcomDataTxCb
  <2>4. ASSUME NEW packet \in Packets, vcomDataRxCb(packet) PROVE FlagFirst'
    <3>1. CASE Restart
      BY <3>1 DEF Restart
    <3>2. CASE ~Restart
      BY <2>2, <2>4, <3>2 DEF vcomDataRxCb, output, locals
    <3> QED
      BY <3>1, <3>2
  <2> QED
    BY <1>1, <2>1, <2>2, <2>3, <2>4
       DEF Host, usb_suspend, usb_resume, usbSetDeviceAddress, usbSetConfiguration, Open,
           ifaceSetupHook, output, locals
<1>2. CASE ReadStep
  BY <1>2, ReadKeepsOutput DEF Writing
<1>3. CASE WriteStep
  <2> USE DEF At, Go, is_transmitting
  <2>1. ASSUME NEW buffer \in Writes, write(buffer) PROVE FlagFirst'
    BY <2>1 DEF write, output
  <2>2. CASE More \/ Full \/ Written \/ Timeout
    BY <2>2 DEF More, Full, Written, Timeout, WriteReturns, output
  <2>3. CASE Flush \/ Busy
    BY <2>3 DEF Flush, Busy, output
  <2>4. CASE Ready
    BY <2>4 DEF Ready, output, TypeOK
  <2>5. CASE Copy \/ Transmit
    BY <2>5 DEF Copy, Transmit
  <2>6. CASE LoadTxStat
    BY <2>6 DEF LoadTxStat, Load, output
  <2>7. CASE StoreTxStat
    <3>1. loaded \in 0 .. 3 /\ tx_stat \in 0 .. 3 /\ VALID \in 0 .. 3
      BY <2>7 DEF StoreTxStat, TypeOK, VALID
    <3>2. transmitting = 1 => tx_stat' = VALID
      BY <2>7, <3>1, SetEpStat DEF StoreTxStat
    <3> QED
      BY <2>7, <3>2 DEF StoreTxStat
  <2> QED
    BY <1>3, <2>1, <2>2, <2>3, <2>4, <2>5, <2>6, <2>7 DEF WriteStep
<1>4. CASE UNCHANGED vars
  BY <1>4 DEF vars, output, locals
<1> QED
  BY <1>1, <1>2, <1>3, <1>4, Steps

(* The driver never believes that it is sending while the host finds       *)
(* nothing to take, through any reset of the bus (usb_cdcacm_tx,           *)
(* vcomDataTxCb, usbReset): otherwise all later writes would time out.     *)
THEOREM UsbNotStuck == Spec => []NotStuck
<1>1. Init => FlagFirst
  BY DEF Init, FlagFirst, NotStuck
<1>2. FlagFirst => NotStuck
  BY DEF FlagFirst
<1> QED
  BY <1>1, <1>2, InitTypeOK, NextTypeOK, NextFlagFirst, PTL DEF Spec

-----------------------------------------------------------------------------
(* Unless a reset has met the main thread at one of the TornPoints, what   *)
(* stands at the endpoint is what is owed, and it is there until the flag  *)
(* is lowered.                                                             *)
OwedStands ==
  ~torn =>
    /\ tx_stat = VALID => transmitting = 1 /\ pma = owed
    /\ pc \in Sending => transmitting = 1 /\ tx_stat # VALID /\ pma = owed
    /\ pc = "transmit" => pma = owed

(* OwedStands is kept by every step.                                       *)
LEMMA NextOwedStands ==
  TypeOK /\ FlagFirst /\ OwedStands /\ [Next]_vars => OwedStands'
<1> SUFFICES ASSUME TypeOK, FlagFirst, OwedStands, [Next]_vars PROVE OwedStands'
  OBVIOUS
<1> USE DEF FlagFirst, OwedStands, Sending, VALID, NAK
<1>1. CASE Host
  <2>1. ASSUME NEW woken \in BOOLEAN, usbReset(woken) PROVE OwedStands'
    <3>1. SUFFICES ASSUME ~torn' PROVE OwedStands'
      OBVIOUS
    <3>2. ~torn /\ pc \notin TornPoints
      BY <2>1, <3>1 DEF usbReset
    <3>3. /\ tx_stat' = NAK /\ transmitting' = 0 /\ pc' = pc /\ pma' = pma
          /\ pc = "transmit" => owed' = owed
      BY <2>1 DEF usbReset
    <3> QED
      BY <3>2, <3>3 DEF TornPoints
  <2>2. ASSUME UNCHANGED <<torn, transmitting, tx_stat, pma, owed, pc>> PROVE OwedStands'
    BY <2>2
  <2>3. CASE vcomDataTxCb
    BY <2>3 DEF vcomDataTxCb
  <2>4. ASSUME NEW packet \in Packets, vcomDataRxCb(packet) PROVE OwedStands'
    <3>1. CASE Restart
      BY <3>1 DEF Restart, DISABLED
    <3>2. CASE ~Restart
      BY <2>2, <2>4, <3>2 DEF vcomDataRxCb, output
    <3> QED
      BY <3>1, <3>2
  <2> QED
    BY <1>1, <2>1, <2>2, <2>3, <2>4
       DEF Host, usb_suspend, usb_resume, usbSetDeviceAddress, usbSetConfiguration, Open,
           ifaceSetupHook, output
<1>2. CASE ReadStep
  BY <1>2, ReadKeepsOutput DEF Writing
<1>3. CASE WriteStep
  <2> USE DEF At, Go, is_transmitting
  <2>1. ASSUME NEW buffer \in Writes, write(buffer) PROVE OwedStands'
    BY <2>1 DEF write, output
  <2>2. CASE More \/ Full \/ Written \/ Timeout
    BY <2>2 DEF More, Full, Written, Timeout, WriteReturns, output
  <2>3. CASE Flush \/ Busy \/ Ready
    BY <2>3 DEF Flush, Busy, Ready, output
  <2>4. CASE Copy
    BY <2>4 DEF Copy
  <2>5. CASE Transmit
    BY <2>5 DEF Transmit
  <2>6. CASE LoadTxStat
    BY <2>6 DEF LoadTxStat, Load, output
  <2>7. CASE StoreTxStat
    BY <2>7 DEF StoreTxStat
  <2> QED
    BY <1>3, <2>1, <2>2, <2>3, <2>4, <2>5, <2>6, <2>7 DEF WriteStep
<1>4. CASE UNCHANGED vars
  BY <1>4 DEF vars, output
<1> QED
  BY <1>1, <1>2, <1>3, <1>4, Steps

(* What the host takes is what was written, once: usb_cdcacm_tx writes to  *)
(* the memory of the endpoint only while the host cannot take from it.     *)
THEOREM UsbOutputInOrder == Spec => []OutputInOrder
<1>1. Init => FlagFirst /\ OwedStands
  BY DEF Init, FlagFirst, NotStuck, OwedStands, Sending, DISABLED, VALID
<1>2. OwedStands => OutputInOrder
  BY DEF OwedStands, OutputInOrder
<1> QED
  BY <1>1, <1>2, InitTypeOK, NextTypeOK, NextFlagFirst, NextOwedStands, PTL DEF Spec

-----------------------------------------------------------------------------
(* The state that a suspension hides is the configured one.                *)
ConfiguredBefore ==
  configured => \/ state = "CONFIGURED"
                \/ state = "SUSPENDED" /\ prevState = "CONFIGURED"

(* A board that the host has configured and not suspended knows it         *)
(* (usb_suspend, usb_resume): otherwise write would drop what it is given. *)
THEOREM UsbConfigured == Spec => []Configured
<1>1. Init => ConfiguredBefore
  BY DEF Init, ConfiguredBefore
<1>2. ConfiguredBefore => Configured
  BY DEF ConfiguredBefore, Configured, Awake, isConnected
<1>3. ConfiguredBefore /\ [Next]_vars => ConfiguredBefore'
  <2> SUFFICES ASSUME ConfiguredBefore, [Next]_vars PROVE ConfiguredBefore'
    OBVIOUS
  <2>1. ASSUME UNCHANGED <<state, prevState, configured>> PROVE ConfiguredBefore'
    BY <2>1 DEF ConfiguredBefore
  <2>2. CASE Host
    BY <2>1, <2>2
       DEF Host, ConfiguredBefore, usbReset, usb_suspend, usb_resume, usbSetDeviceAddress,
           usbSetConfiguration, Open, ifaceSetupHook, vcomDataTxCb, vcomDataRxCb, Restart,
           device
  <2>3. CASE ReadStep
    BY <2>1, <2>3, ReadKeepsOutput
  <2>4. CASE WriteStep
    BY <2>1, <2>4
       DEF WriteStep, write, More, Full, Written, Timeout, WriteReturns, Flush, Busy, Ready,
           Copy, Transmit, LoadTxStat, Load, StoreTxStat, device
  <2>5. CASE UNCHANGED vars
    BY <2>1, <2>5 DEF vars, device
  <2> QED
    BY <2>2, <2>3, <2>4, <2>5, Steps
<1> QED
  BY <1>1, <1>2, <1>3, PTL DEF Spec

-----------------------------------------------------------------------------
(* Where the main thread is in read, the bytes it has copied and not yet   *)
(* counted are at the offset.                                              *)
Counting == {"load_unread", "store_unread"}
Moving == {"load_offset", "store_offset"}

Left == IF pc \in Counting THEN n_unread_bytes - 1 ELSE n_unread_bytes

Base == IF pc \in Counting \cup Moving THEN rx_offset + 1
        ELSE IF pc = "clear_offset" THEN 0
        ELSE rx_offset

(* What the main thread is still to copy stands in the buffer.             *)
DueStands ==
  /\ n_unread_bytes <= RX_EPSIZE
  /\ Left \in Nat /\ Len(due) = Left
  /\ Base + Left <= RX_EPSIZE
  /\ \A i \in 1 .. Left : due[i] = vcomBufferRx[Base + i]

(* While the main thread is in read, the endpoint stays disabled, and what *)
(* it has loaded stays true.                                               *)
AloneInRead ==
  /\ pc \in Reading => rx_stat # VALID
  /\ pc \in {"peek_len", "peek"} \cup Counting => n_unread_bytes > 0
  /\ pc \in (Reading \cup {"clear_offset", "return"}) \ {"peek_len"} => n_copied = 1
  /\ pc = "store_unread" => loaded = n_unread_bytes
  /\ pc = "store_offset" => loaded = rx_offset
  /\ pc = "store_rx_stat" => loaded = rx_stat
  /\ pc \in {"load_rx_stat", "store_rx_stat"} => n_unread_bytes = 0

(* The endpoint is enabled when all is read, and the offset is then 0.     *)
EnabledWhenRead ==
  /\ rx_stat = VALID => Left = 0
  /\ n_unread_bytes = 0 /\ pc \notin Reading \cup {"clear_offset"} => rx_offset = 0

DueInv == ~torn => DueStands /\ AloneInRead /\ EnabledWhenRead

(* DueInv holds when the board starts.                                     *)
LEMMA InitDueInv == Init => DueInv
<1>1. Len(<<>>) = 0
  BY EmptySeq
<1> QED
  BY <1>1, UsbCdcAssumption
     DEF Init, DueInv, DueStands, AloneInRead, EnabledWhenRead, Left, Base, Counting, Moving,
         Reading, DISABLED, VALID

(* DueInv is kept by the interrupt.                                        *)
LEMMA HostDueInv == TypeOK /\ DueInv /\ Host => DueInv'
<1> SUFFICES ASSUME TypeOK, DueInv, Host, ~torn' PROVE DueInv'
  BY DEF DueInv
<1> USE DEF DueInv, DueStands, AloneInRead, EnabledWhenRead, Left, Base, Counting, Moving,
            Reading, VALID, NAK
<1>0. Len(<<>>) = 0 /\ RX_EPSIZE \in Nat
  BY EmptySeq, UsbCdcAssumption
<1>1. ASSUME NEW woken \in BOOLEAN, usbReset(woken) PROVE DueInv'
  <2>1. pc \notin Reading /\ ~torn
    BY <1>1 DEF usbReset, TornPoints
  <2>2. /\ rx_stat' = VALID /\ n_unread_bytes' = 0 /\ rx_offset' = 0 /\ due' = <<>>
        /\ pc' = pc /\ n_copied' = n_copied
    BY <1>1 DEF usbReset, locals
  <2>3. Left' = 0 /\ Base' = 0
    BY <2>1, <2>2
  <2> QED
    BY <1>0, <2>1, <2>2, <2>3
<1>2. ASSUME UNCHANGED <<torn, driver, rx_stat, pc, locals, due>> PROVE DueInv'
  BY <1>2 DEF driver, locals
<1>3. ASSUME UNCHANGED <<torn, vcomBufferRx, rx_offset, n_unread_bytes, rx_stat, pc, locals, due>>
      PROVE  DueInv'
  BY <1>3 DEF locals
<1>4. ASSUME NEW packet \in Packets, vcomDataRxCb(packet) PROVE DueInv'
  <2>1. CASE Restart
    BY <1>0, <2>1 DEF Restart, DISABLED
  <2>2. CASE ~Restart
    <3>1. /\ rx_stat = VALID /\ torn' = torn
          /\ vcomBufferRx' = [i \in 1 .. RX_EPSIZE |->
                                IF i <= Len(packet) THEN packet[i] ELSE vcomBufferRx[i]]
          /\ n_unread_bytes' = Len(packet)
          /\ rx_stat' = Enabled(packet)
          /\ rx_offset' = IF packet = <<>> THEN 0 ELSE rx_offset
          /\ due' = packet
          /\ UNCHANGED <<pc, locals>>
      BY <1>4, <2>2 DEF vcomDataRxCb
    <3>2. packet \in Seq(Nat) /\ Len(packet) \in 0 .. RX_EPSIZE
      BY PacketFits
    <3>3. pc \notin Reading /\ n_unread_bytes = 0
      BY <3>1
    <3>4. pc = "clear_offset" \/ rx_offset = 0
      BY <3>1, <3>3
    <3>5. Left' = Len(packet) /\ Base' = 0
      BY <3>1, <3>3, <3>4
    <3>6. DueStands'
      BY <1>0, <3>1, <3>2, <3>3, <3>5
    <3>7. AloneInRead'
      BY <3>1, <3>3 DEF locals
    <3>8. EnabledWhenRead'
      BY <1>0, <3>1, <3>2, <3>3, <3>4, <3>5 DEF Enabled
    <3> QED
      BY <3>6, <3>7, <3>8
  <2> QED
    BY <2>1, <2>2
<1> QED
  BY <1>1, <1>2, <1>3, <1>4
     DEF Host, usb_suspend, usb_resume, usbSetDeviceAddress, usbSetConfiguration, Open,
         ifaceSetupHook, vcomDataTxCb, driver

(* DueInv is kept by the main thread in read.                              *)
LEMMA ReadDueInv == TypeOK /\ DueInv /\ ReadStep => DueInv'
<1> SUFFICES ASSUME TypeOK, DueInv, ReadStep, ~torn' PROVE DueInv'
  BY DEF DueInv
<1>0. /\ ~torn
      /\ RX_EPSIZE \in Nat /\ rx_offset \in Nat /\ n_unread_bytes \in Nat
      /\ due \in Seq(Nat)
  BY ReadKeepsOutput, UsbCdcAssumption DEF TypeOK, MANY
<1>i. DueStands /\ AloneInRead /\ EnabledWhenRead
  BY <1>0 DEF DueInv
<1> USE <1>0, <1>i
    DEF DueInv, DueStands, AloneInRead, EnabledWhenRead, Left, Base, Counting, Moving,
        Reading, VALID, At, Go
<1>1. CASE available
  BY <1>1 DEF available, driver, locals
<1>2. CASE PeekLen
  BY <1>2 DEF PeekLen, driver
<1>3. CASE Peek
  <2>1. n_unread_bytes > 0 /\ due # <<>>
    BY <1>3, EmptySeq DEF Peek
  <2>2. /\ due' = Tail(due) /\ Len(due') = Len(due) - 1
        /\ \A i \in 1 .. Len(due') : due'[i] = due[i + 1]
    BY <1>3, <2>1, HeadTailProperties DEF Peek
  <2>3. /\ pc = "peek" /\ pc' = "load_unread" /\ n_copied' = n_copied /\ rx_stat' = rx_stat
        /\ UNCHANGED <<vcomBufferRx, rx_offset, n_unread_bytes>>
    BY <1>3 DEF Peek, driver, locals
  <2>4. Left' = Left - 1 /\ Base' = Base + 1
    BY <2>3
  <2>5. \A i \in 1 .. Left' : due'[i] = vcomBufferRx'[Base' + i]
    BY <2>2, <2>3, <2>4
  <2> QED
    BY <2>1, <2>2, <2>3, <2>4, <2>5
<1>4. CASE LoadUnread
  BY <1>4 DEF LoadUnread, Load, driver
<1>5. CASE StoreUnread
  <2>1. n_unread_bytes' = n_unread_bytes - 1
    BY <1>5 DEF StoreUnread, Less, MANY
  <2>2. /\ pc = "store_unread" /\ pc' = "load_offset" /\ n_copied' = n_copied
        /\ UNCHANGED <<vcomBufferRx, rx_offset, rx_stat, due>>
    BY <1>5 DEF StoreUnread
  <2>3. Left' = Left /\ Base' = Base
    BY <2>1, <2>2
  <2> QED
    BY <2>1, <2>2, <2>3
<1>6. CASE LoadOffset
  BY <1>6 DEF LoadOffset, Load, driver
<1>7. CASE StoreOffset
  <2>1. rx_offset' = rx_offset + 1
    BY <1>7 DEF StoreOffset, Beyond
  <2> QED
    BY <1>7, <2>1 DEF StoreOffset
<1>8. CASE AllRead
  BY <1>8 DEF AllRead, all_read, driver, locals
<1>9. CASE LoadRxStat
  BY <1>9 DEF LoadRxStat, Load, driver
<1>10. CASE StoreRxStat
  BY <1>10 DEF StoreRxStat, driver
<1>11. CASE ClearOffset
  BY <1>11 DEF ClearOffset, locals
<1>12. CASE Return
  BY <1>12 DEF Return, driver
<1> QED
  BY <1>1, <1>2, <1>3, <1>4, <1>5, <1>6, <1>7, <1>8, <1>9, <1>10, <1>11, <1>12 DEF ReadStep

(* write leaves the input alone.                                           *)
LEMMA WriteDueInv == DueInv /\ WriteStep => DueInv'
<1> SUFFICES ASSUME DueInv, WriteStep PROVE DueInv'
  OBVIOUS
<1>1. /\ UNCHANGED <<torn, driver, rx_stat, due>>
      /\ pc \in Writing \cup {"idle"} /\ pc' \in Writing \cup {"idle"}
  BY DEF WriteStep, write, More, Full, Written, Timeout, WriteReturns, Flush, Busy, Ready,
         Copy, Transmit, LoadTxStat, Load, StoreTxStat, At, Go, Writing, Sending
<1> QED
  BY <1>1 DEF DueInv, DueStands, AloneInRead, EnabledWhenRead, Left, Base, Counting, Moving,
              Reading, Writing, Sending, driver

(* DueInv is kept by every step.                                           *)
LEMMA NextDueInv == TypeOK /\ DueInv /\ [Next]_vars => DueInv'
<1>1. DueInv /\ UNCHANGED vars => DueInv'
  BY DEF vars, driver, locals, DueInv, DueStands, AloneInRead, EnabledWhenRead, Left, Base,
         Counting, Moving
<1> QED
  BY <1>1, Steps, HostDueInv, ReadDueInv, WriteDueInv

(* A packet overwrites nothing that is unread (vcomDataRxCb), unless a     *)
(* reset has met the main thread while it read.                            *)
THEOREM UsbKept == Spec => []Kept
<1>1. TypeOK /\ DueInv => Kept
  <2> SUFFICES ASSUME TypeOK, DueInv, ~torn, rx_stat = VALID PROVE due = <<>>
    BY DEF Kept, NoOverwrite
  <2>1. Len(due) = 0 /\ due \in Seq(Nat)
    BY DEF DueInv, DueStands, EnabledWhenRead, TypeOK
  <2> QED
    BY <2>1, EmptySeq
<1> QED
  BY <1>1, InitTypeOK, NextTypeOK, InitDueInv, NextDueInv, PTL DEF Spec

(* The main thread reads what the host has sent, in order and all of it    *)
(* (usb_cdcacm_rx, usb_cdcacm_peek, vcomDataRxCb), unless a reset has met  *)
(* it while it read.                                                       *)
THEOREM UsbInputInOrder == Spec => []InputInOrder
<1>1. TypeOK /\ DueInv => InputInOrder
  <2> SUFFICES ASSUME TypeOK, DueInv, ~torn, pc \in {"idle", "peek_len", "peek"}
               PROVE  SubSeq(vcomBufferRx, rx_offset + 1, rx_offset + n_unread_bytes) = due
    BY DEF InputInOrder
  <2> DEFINE unread == SubSeq(vcomBufferRx, rx_offset + 1, rx_offset + n_unread_bytes)
  <2>1. /\ rx_offset \in Nat /\ n_unread_bytes \in Nat /\ due \in Seq(Nat)
        /\ Len(due) = n_unread_bytes /\ rx_offset + n_unread_bytes <= RX_EPSIZE
        /\ \A i \in 1 .. n_unread_bytes : due[i] = vcomBufferRx[rx_offset + i]
    <3>1. DueStands /\ Left = n_unread_bytes /\ Base = rx_offset
      BY DEF DueInv, Left, Base, Counting, Moving
    <3> QED
      BY <3>1, UsbCdcAssumption DEF DueStands, TypeOK, MANY
  <2>2. \A i \in (rx_offset + 1) .. (rx_offset + n_unread_bytes) : vcomBufferRx[i] \in Nat
    BY <2>1, UsbCdcAssumption DEF TypeOK
  <2>3. /\ unread \in Seq(Nat) /\ Len(unread) = n_unread_bytes
        /\ \A i \in 1 .. n_unread_bytes : unread[i] = vcomBufferRx[rx_offset + i]
    <3>1. /\ unread \in Seq(Nat)
          /\ Len(unread) = IF rx_offset + 1 <= rx_offset + n_unread_bytes
                           THEN (rx_offset + n_unread_bytes) - (rx_offset + 1) + 1 ELSE 0
          /\ \A i \in 1 .. (rx_offset + n_unread_bytes) - (rx_offset + 1) + 1 :
               unread[i] = vcomBufferRx[rx_offset + 1 + i - 1]
      BY <2>1, <2>2, SubSeqProperties
    <3> HIDE DEF unread
    <3>2. \A i \in 1 .. n_unread_bytes : rx_offset + 1 + i - 1 = rx_offset + i
      BY <2>1
    <3> QED
      BY <2>1, <3>1, <3>2
  <2> HIDE DEF unread
  <2>4. unread = due
    BY <2>1, <2>3, SeqEqual
  <2> QED
    BY <2>4 DEF unread
<1> QED
  BY <1>1, InitTypeOK, NextTypeOK, InitDueInv, NextDueInv, PTL DEF Spec

-----------------------------------------------------------------------------
(* Only a packet can be what is missed.                                    *)
LEMMA MissedPacket ==
  ASSUME [Next]_vars, Missed
  PROVE  vcomDataRxCb(MAGIC) /\ MAGIC \in Packets /\ ~MagicSeen(vcomBufferRx', Len(MAGIC))
<1>1. ~UNCHANGED reset_state /\ reset_state = "NEGEDGE" /\ reset_state' = "LOW" /\ due' = MAGIC
  BY DEF Missed
<1>2. ~ReadStep
  BY <1>1
  DEF ReadStep, available, PeekLen, Peek, LoadUnread, LoadOffset, LoadRxStat, Load,
      StoreUnread, StoreOffset, StoreRxStat, AllRead, ClearOffset, Return, driver
<1>3. ~WriteStep
  BY <1>1
  DEF WriteStep, write, More, Full, Written, Timeout, WriteReturns, Flush, Busy, Ready,
      Copy, Transmit, LoadTxStat, Load, StoreTxStat, driver
<1>4. ~UNCHANGED vars
  BY <1>1 DEF vars, driver
<1>5. \E packet \in Packets : vcomDataRxCb(packet)
  BY <1>1, <1>2, <1>3, <1>4, Steps
  DEF Host, usbReset, usb_suspend, usb_resume, usbSetDeviceAddress, usbSetConfiguration,
      Open, ifaceSetupHook, vcomDataTxCb, driver
<1>6. PICK packet \in Packets : vcomDataRxCb(packet)
  BY <1>5
<1>7. ~Restart
  BY <1>1 DEF Restart
<1>8. packet = MAGIC
  BY <1>1, <1>6, <1>7 DEF vcomDataRxCb
<1>9. ~MagicSeen(vcomBufferRx', Len(packet))
  BY <1>1, <1>6, <1>7 DEF vcomDataRxCb
<1> QED
  BY <1>6, <1>8, <1>9

(* MagicHeeded: the magic bytes restart the board when the host has asked  *)
(* for it (rxHook), wherever the main thread is, but between the enabling  *)
(* of the endpoint and the reset of the offset.                            *)
THEOREM UsbMagicHeeded == Spec => MagicHeeded
<1>1. TypeOK /\ DueInv /\ [Next]_vars => [Missed => torn \/ pc = "clear_offset"]_vars
  <2> SUFFICES ASSUME TypeOK, DueInv, [Next]_vars, Missed, ~torn, pc # "clear_offset"
               PROVE  FALSE
    BY DEF TypeOK
  <2>1. /\ vcomDataRxCb(MAGIC) /\ ~MagicSeen(vcomBufferRx', Len(MAGIC))
        /\ MAGIC \in Seq(Nat) /\ Len(MAGIC) \in 0 .. RX_EPSIZE /\ RX_EPSIZE \in Nat
    BY MissedPacket, PacketFits, UsbCdcAssumption
  <2>2. rx_stat = VALID
    BY <2>1 DEF vcomDataRxCb
  <2>3. pc \notin Reading /\ n_unread_bytes = 0
    BY <2>2 DEF DueInv, AloneInRead, EnabledWhenRead, Left, Counting, Reading
  <2>4. rx_offset = 0
    BY <2>3 DEF DueInv, EnabledWhenRead
  <2>5. vcomBufferRx' = [i \in 1 .. RX_EPSIZE |->
                           IF i <= Len(MAGIC) THEN MAGIC[i] ELSE vcomBufferRx[i]]
    BY <2>1 DEF vcomDataRxCb, Restart, Missed
  <2>6. \A i \in 1 .. Len(MAGIC) :
          rx_offset + i <= RX_EPSIZE /\ vcomBufferRx'[rx_offset + i] = MAGIC[i]
    BY <2>1, <2>4, <2>5
  <2> QED
    BY <2>1, <2>6 DEF MagicSeen
<1> QED
  BY <1>1, InitTypeOK, NextTypeOK, InitDueInv, NextDueInv, PTL DEF Spec, MagicHeeded
=============================================================================
