------------------------------- MODULE UsbCdc -------------------------------
(***************************************************************************)
(* The USB serial port of the board: the CDC ACM driver (usb_cdcacm.c),    *)
(* its device states (usb.c) and the class USBSerial (usb_serial.cpp).     *)
(* The main thread reads and writes, the interrupt of the peripheral       *)
(* breaks in between any two of its accesses to what they share, and the   *)
(* host sends, polls, suspends and resets as it likes.                     *)
(*                                                                         *)
(* A handler of the interrupt is one step, since the main thread does not  *)
(* run meanwhile; an access of the main thread to a volatile variable or   *)
(* to a register is one step, so that `n_unread_bytes -= n' is two, and so *)
(* is a change of an endpoint's status: those bits are toggled by writing  *)
(* ones, and the driver computes the toggles from what it has read.        *)
(*                                                                         *)
(* `due' and `owed' are histories, of the bytes the host has sent and the  *)
(* main thread has not copied, and of the packet the host is to get;       *)
(* `torn' says that a reset of the bus has met the main thread at one of   *)
(* the TornPoints.                                                         *)
(***************************************************************************)
EXTENDS Naturals, Sequences

CONSTANTS
  RX_EPSIZE, TX_EPSIZE,  (* the longest packets: 64 bytes                   *)
  MAGIC,       (* the bytes that restart the board: "CM9X"                  *)
  Packets,     (* the packets the host may send                             *)
  Writes       (* the buffers the program may write                         *)

ASSUME UsbCdcAssumption ==
  /\ RX_EPSIZE \in Nat \ {0} /\ TX_EPSIZE \in Nat \ {0}
  /\ MAGIC \in Seq(Nat)
  /\ Packets \subseteq {p \in Seq(Nat) : Len(p) <= RX_EPSIZE}
  /\ Writes \subseteq Seq(Nat)

VARIABLES
  vcomBufferRx, rx_offset, n_unread_bytes,   (* the batch being read        *)
  n_unsent_bytes, transmitting,
  reset_state,    (* what of a request for the bootloader has been seen     *)
  state, prevState,                          (* of USBLIB                   *)
  rx_stat, tx_stat, pma,                     (* the peripheral              *)
  pc, n_copied, loaded, buf, txed, sent,     (* the main thread             *)
  configured, listening,                     (* the host                    *)
  due, owed, torn

driver == <<vcomBufferRx, rx_offset, n_unread_bytes, reset_state>>
output == <<n_unsent_bytes, transmitting, tx_stat, pma, owed>>
device == <<state, prevState, configured>>
locals == <<n_copied, loaded, buf, txed, sent>>
vars == <<driver, output, device, rx_stat, pc, locals, listening, due, torn>>

(* The status of an endpoint, as its two bits.                             *)
DISABLED == 0
NAK == 2
VALID == 3

(* Two bits, each toggled where the other word has a one.                  *)
Xor(a, b) == ((a + b) % 2) + 2 * (((a \div 2) + (b \div 2)) % 2)

(* Mutant: the status is written as if the bits were not toggled.          *)
set_ep_stat_Plain(is, was, status) == Xor(is, status)

(* What usb_set_ep_rx_stat and usb_set_ep_tx_stat make of a register that  *)
(* they read as `was' and that now is `is'.                                *)
set_ep_stat(is, was, status) == Xor(is, Xor(was, status))

(* An unsigned count that has wrapped below 0: more than is ever read.     *)
MANY == RX_EPSIZE + 1

Less(n, k) == IF n = MANY \/ n < k THEN MANY ELSE n - k

(* Mutant: the offset stays.  The code counts on past the buffer.          *)
Beyond_Same(i) == i

Beyond(i) == IF i < RX_EPSIZE THEN i + 1 ELSE RX_EPSIZE

(* Where the main thread has seen bytes that are there, or is about to     *)
(* enable an endpoint.                                                     *)
Reading == {"peek_len", "peek", "load_unread", "store_unread", "load_offset",
            "store_offset", "all_read", "load_rx_stat", "store_rx_stat"}
Sending == {"load_tx_stat", "store_tx_stat"}
TornPoints == Reading \cup Sending
Writing == Sending \cup {"tx", "copy", "transmit", "more", "flush"}
PC == Reading \cup Writing \cup {"idle", "clear_offset", "return"}

(* Mutant: only bytes count as being sent, an empty packet does not.       *)
is_transmitting_Bytes == n_unsent_bytes > 0

is_transmitting == transmitting = 1

(* Mutant: the last byte need not be read.                                 *)
all_read_Early == n_unread_bytes <= 1

all_read == n_unread_bytes = 0

isConnected == state = "CONFIGURED"

-----------------------------------------------------------------------------
(* After power on the host resets the bus and configures the device.       *)
Init ==
  /\ vcomBufferRx = [i \in 1 .. RX_EPSIZE |-> 0] /\ rx_offset = 0 /\ n_unread_bytes = 0
  /\ n_unsent_bytes = 0 /\ transmitting = 0
  /\ reset_state = "UNSET"
  /\ state = "UNCONNECTED" /\ prevState = "UNCONNECTED"
  /\ rx_stat = DISABLED /\ tx_stat = DISABLED /\ pma = <<>>
  /\ pc = "idle" /\ n_copied = 0 /\ loaded = 0
  /\ buf = <<>> /\ txed = 0 /\ sent = 0
  /\ configured = FALSE
  /\ due = <<>> /\ owed = <<>> /\ torn = FALSE
  /\ listening = FALSE

-----------------------------------------------------------------------------
(* The interrupt.                                                          *)

(* The host resets the bus.  The handler serves a wake-up after a reset,   *)
(* when it finds both.                                                     *)
usbReset(woken) ==
  /\ woken => state = "SUSPENDED"
  /\ rx_stat' = VALID /\ tx_stat' = NAK
  /\ n_unread_bytes' = 0 /\ n_unsent_bytes' = 0
  /\ rx_offset' = 0 /\ transmitting' = 0
  /\ state' = IF woken THEN prevState ELSE "ATTACHED"
  /\ configured' = FALSE
  /\ due' = <<>>
  /\ owed' = IF pc = "transmit" THEN owed ELSE <<>>
  /\ torn' = (torn \/ pc \in TornPoints)
  /\ UNCHANGED <<vcomBufferRx, reset_state, prevState, pma, pc, locals, listening>>

(* Mutant: the state before is not kept.                                   *)
usb_suspend_Forgets ==
  /\ state # "SUSPENDED"
  /\ state' = "SUSPENDED"
  /\ UNCHANGED <<driver, output, prevState, configured, rx_stat, pc, locals, listening,
                 due, torn>>

usb_suspend ==
  /\ state # "SUSPENDED"
  /\ state' = "SUSPENDED" /\ prevState' = state
  /\ UNCHANGED <<driver, output, configured, rx_stat, pc, locals, listening, due, torn>>

usb_resume ==
  /\ state = "SUSPENDED"
  /\ state' = prevState
  /\ UNCHANGED <<driver, output, prevState, configured, rx_stat, pc, locals, listening, due, torn>>

usbSetDeviceAddress ==
  /\ rx_stat # DISABLED /\ state # "SUSPENDED" /\ ~configured
  /\ state' = "ADDRESSED"
  /\ UNCHANGED <<driver, output, prevState, configured, rx_stat, pc, locals, listening, due, torn>>

usbSetConfiguration ==
  /\ state = "ADDRESSED"
  /\ state' = "CONFIGURED" /\ configured' = TRUE
  /\ UNCHANGED <<driver, output, prevState, rx_stat, pc, locals, listening, due, torn>>

Awake == configured /\ state # "SUSPENDED"

(* The host opens or closes the port: it polls for output while it is open. *)
Open ==
  /\ Awake /\ listening' = ~listening
  /\ UNCHANGED <<driver, output, device, rx_stat, pc, locals, due, torn>>

(* A change of the control lines: RTS without DTR asks for the bootloader. *)
ifaceSetupHook ==
  /\ Awake
  /\ reset_state' = "NEGEDGE"
  /\ UNCHANGED <<vcomBufferRx, rx_offset, n_unread_bytes, output, device, rx_stat,
                 pc, locals, listening, due, torn>>

(* Mutant: the hook wants more bytes than there are to compare.            *)
MagicSeen_More(buffer, unread) ==
  /\ unread > Len(MAGIC)
  /\ \A i \in 1 .. Len(MAGIC) :
       rx_offset + i <= RX_EPSIZE /\ buffer[rx_offset + i] = MAGIC[i]

(* Whether rxHook, which peeks from rx_offset on, finds the magic bytes.   *)
MagicSeen(buffer, unread) ==
  /\ unread >= Len(MAGIC)
  /\ \A i \in 1 .. Len(MAGIC) :
       rx_offset + i <= RX_EPSIZE /\ buffer[rx_offset + i] = MAGIC[i]

(* The watchdog restarts the board.                                        *)
Restart ==
  /\ vcomBufferRx' = [i \in 1 .. RX_EPSIZE |-> 0] /\ rx_offset' = 0 /\ n_unread_bytes' = 0
  /\ n_unsent_bytes' = 0 /\ transmitting' = 0
  /\ reset_state' = "UNSET"
  /\ state' = "UNCONNECTED" /\ prevState' = "UNCONNECTED"
  /\ rx_stat' = DISABLED /\ tx_stat' = DISABLED /\ pma' = <<>>
  /\ pc' = "idle" /\ n_copied' = 0 /\ loaded' = 0
  /\ buf' = <<>> /\ txed' = 0 /\ sent' = 0
  /\ configured' = FALSE
  /\ due' = <<>> /\ owed' = <<>> /\ torn' = FALSE
  /\ UNCHANGED listening

(* Mutant: an empty packet, too, leaves the endpoint disabled.             *)
Enabled_Never(packet) == NAK

Enabled(packet) == IF packet = <<>> THEN VALID ELSE NAK

(* A packet comes: vcomDataRxCb and the hook it calls.  An empty packet    *)
(* leaves the endpoint enabled.                                            *)
vcomDataRxCb(packet) ==
  LET buffer == [i \in 1 .. RX_EPSIZE |->
                   IF i <= Len(packet) THEN packet[i] ELSE vcomBufferRx[i]]
      asked == reset_state = "NEGEDGE"
  IN
  /\ Awake /\ rx_stat = VALID
  /\ \/ /\ asked /\ MagicSeen(buffer, Len(packet))
        /\ Restart
     \/ /\ ~(asked /\ MagicSeen(buffer, Len(packet)))
        /\ vcomBufferRx' = buffer
        /\ n_unread_bytes' = Len(packet)
        /\ rx_stat' = Enabled(packet)
        /\ rx_offset' = IF packet = <<>> THEN 0 ELSE rx_offset
        /\ reset_state' = IF asked THEN "LOW" ELSE reset_state
        /\ due' = packet
        /\ UNCHANGED <<output, device, pc, locals, listening, torn>>

Polls == Awake /\ listening

(* Mutant: the bytes are gone, the flag stays.                             *)
vcomDataTxCb_Flag ==
  /\ Polls /\ tx_stat = VALID
  /\ tx_stat' = NAK
  /\ n_unsent_bytes' = 0
  /\ owed' = <<>>
  /\ UNCHANGED <<driver, transmitting, device, rx_stat, pma, pc, locals, listening, due, torn>>

(* The host takes a packet.                                                *)
vcomDataTxCb ==
  /\ Polls /\ tx_stat = VALID
  /\ tx_stat' = NAK
  /\ n_unsent_bytes' = 0 /\ transmitting' = 0
  /\ owed' = <<>>
  /\ UNCHANGED <<driver, device, rx_stat, pma, pc, locals, listening, due, torn>>

-----------------------------------------------------------------------------
(* The main thread, in USBSerial::read for one byte, usb_cdcacm_rx and     *)
(* usb_cdcacm_peek.                                                        *)

At(label) == pc = label
Go(label) == pc' = label

available ==
  /\ At("idle") /\ n_unread_bytes > 0
  /\ Go("peek_len")
  /\ UNCHANGED <<driver, output, device, rx_stat, locals, listening, due, torn>>

PeekLen ==
  /\ At("peek_len")
  /\ n_copied' = IF n_unread_bytes = 0 THEN 0 ELSE 1
  /\ Go(IF n_unread_bytes = 0 THEN "load_unread" ELSE "peek")
  /\ UNCHANGED <<driver, output, device, rx_stat, loaded, buf, txed, sent, listening, due, torn>>

(* The byte vcomBufferRx[rx_offset] is copied.                             *)
Peek ==
  /\ At("peek") /\ Go("load_unread")
  /\ due' = IF due = <<>> THEN due ELSE Tail(due)
  /\ UNCHANGED <<driver, output, device, rx_stat, locals, listening, torn>>

Load(from, value, to) ==
  /\ At(from) /\ Go(to)
  /\ loaded' = value
  /\ UNCHANGED <<driver, output, device, rx_stat, n_copied, buf, txed, sent, listening, due, torn>>

LoadUnread == Load("load_unread", n_unread_bytes, "store_unread")

StoreUnread ==
  /\ At("store_unread") /\ Go("load_offset")
  /\ n_unread_bytes' = Less(loaded, n_copied) /\ loaded' = 0
  /\ UNCHANGED <<vcomBufferRx, rx_offset, reset_state, output, device, rx_stat,
                 n_copied, buf, txed, sent, listening, due, torn>>

LoadOffset == Load("load_offset", rx_offset, "store_offset")

StoreOffset ==
  /\ At("store_offset") /\ Go("all_read")
  /\ rx_offset' = IF n_copied = 0 THEN loaded ELSE Beyond(loaded)
  /\ loaded' = 0
  /\ UNCHANGED <<vcomBufferRx, n_unread_bytes, reset_state, output, device, rx_stat,
                 n_copied, buf, txed, sent, listening, due, torn>>

AllRead ==
  /\ At("all_read")
  /\ Go(IF all_read THEN "load_rx_stat" ELSE "return")
  /\ UNCHANGED <<driver, output, device, rx_stat, locals, listening, due, torn>>

LoadRxStat == Load("load_rx_stat", rx_stat, "store_rx_stat")

StoreRxStat ==
  /\ At("store_rx_stat") /\ Go("clear_offset")
  /\ rx_stat' = set_ep_stat(rx_stat, loaded, VALID) /\ loaded' = 0
  /\ UNCHANGED <<driver, output, device, n_copied, buf, txed, sent, listening, due, torn>>

ClearOffset ==
  /\ At("clear_offset") /\ Go("return")
  /\ rx_offset' = 0
  /\ UNCHANGED <<vcomBufferRx, n_unread_bytes, reset_state, output, device, rx_stat,
                 locals, listening, due, torn>>

(* read goes on until it has its byte.                                     *)
Return ==
  /\ At("return")
  /\ Go(IF n_copied = 0 THEN "peek_len" ELSE "idle")
  /\ n_copied' = 0
  /\ UNCHANGED <<driver, output, device, rx_stat, loaded, buf, txed, sent, listening, due, torn>>

-----------------------------------------------------------------------------
(* The main thread, in USBSerial::write and usb_cdcacm_tx.                 *)

write(buffer) ==
  /\ At("idle") /\ isConnected
  /\ buf' = buffer /\ txed' = 0 /\ sent' = 0
  /\ Go("more")
  /\ UNCHANGED <<driver, output, device, rx_stat, n_copied, loaded, listening, due, torn>>

(* The loop of write.                                                      *)
More ==
  /\ At("more") /\ txed < Len(buf)
  /\ Go("tx")
  /\ UNCHANGED <<driver, output, device, rx_stat, locals, listening, due, torn>>

(* After a full packet, wait for it to go: the wait has no limit.          *)
Full ==
  /\ At("more") /\ txed = Len(buf) /\ sent = TX_EPSIZE
  /\ Go("flush")
  /\ UNCHANGED <<driver, output, device, rx_stat, locals, listening, due, torn>>

WriteReturns ==
  /\ Go("idle")
  /\ buf' = <<>> /\ txed' = 0 /\ sent' = 0
  /\ UNCHANGED <<driver, output, device, rx_stat, n_copied, loaded, listening, due, torn>>

Written == At("more") /\ txed = Len(buf) /\ sent < TX_EPSIZE /\ WriteReturns

(* USB_TIMEOUT passes while nothing is sent.                               *)
Timeout == At("more") /\ txed < Len(buf) /\ sent = 0 /\ WriteReturns

(* The packet has gone: send an empty one.                                 *)
Flush ==
  /\ At("flush") /\ ~is_transmitting
  /\ buf' = <<>> /\ txed' = 0 /\ sent' = 0
  /\ Go("tx")
  /\ UNCHANGED <<driver, output, device, rx_stat, n_copied, loaded, listening, due, torn>>

Busy ==
  /\ At("tx") /\ is_transmitting
  /\ sent' = 0
  /\ Go("more")
  /\ UNCHANGED <<driver, output, device, rx_stat, n_copied, loaded, buf, txed, listening, due, torn>>

Ready ==
  /\ At("tx") /\ ~is_transmitting
  /\ Go("copy")
  /\ UNCHANGED <<driver, output, device, rx_stat, locals, listening, due, torn>>

(* Mutant: the length is not cut.                                          *)
Chunk_Whole == SubSeq(buf, txed + 1, Len(buf))

(* What is left of the buffer, as much as a packet holds.                  *)
Chunk == SubSeq(buf, txed + 1, IF txed + TX_EPSIZE < Len(buf) THEN txed + TX_EPSIZE ELSE Len(buf))

Copy ==
  /\ At("copy") /\ Go("transmit")
  /\ pma' = Chunk /\ owed' = Chunk
  /\ n_unsent_bytes' = Len(Chunk)
  /\ sent' = Len(Chunk) /\ txed' = txed + Len(Chunk)
  /\ UNCHANGED <<driver, transmitting, tx_stat, device, rx_stat, n_copied, loaded, buf,
                 listening, due, torn>>

Transmit ==
  /\ At("transmit") /\ Go("load_tx_stat")
  /\ transmitting' = 1
  /\ UNCHANGED <<driver, n_unsent_bytes, tx_stat, pma, owed, device, rx_stat, locals,
                 listening, due, torn>>

LoadTxStat == Load("load_tx_stat", tx_stat, "store_tx_stat")

StoreTxStat ==
  /\ At("store_tx_stat") /\ Go("more")
  /\ tx_stat' = set_ep_stat(tx_stat, loaded, VALID) /\ loaded' = 0
  /\ UNCHANGED <<driver, n_unsent_bytes, transmitting, pma, owed, device, rx_stat,
                 n_copied, buf, txed, sent, listening, due, torn>>

-----------------------------------------------------------------------------
Host ==
  \/ \E woken \in BOOLEAN : usbReset(woken)
  \/ usb_suspend \/ usb_resume \/ usbSetDeviceAddress \/ usbSetConfiguration
  \/ Open \/ ifaceSetupHook \/ vcomDataTxCb
  \/ \E packet \in Packets : vcomDataRxCb(packet)

Run ==
  \/ PeekLen \/ Peek \/ LoadUnread \/ StoreUnread \/ LoadOffset \/ StoreOffset
  \/ AllRead \/ LoadRxStat \/ StoreRxStat \/ ClearOffset \/ Return
  \/ More \/ Full \/ Written \/ Flush \/ Busy \/ Ready \/ Copy \/ Transmit \/ LoadTxStat \/ StoreTxStat

Main == available \/ (\E buffer \in Writes : write(buffer)) \/ Timeout \/ Run

Next == Host \/ Main

Spec == Init /\ [][Next]_vars

(* The main thread runs on, comes back to its input, and sees time pass;   *)
(* the host takes what it can while it polls.                              *)
FairSpec ==
  /\ Spec
  /\ WF_vars(Run) /\ SF_vars(available) /\ SF_vars(Timeout)
  /\ SF_vars(vcomDataTxCb)

-----------------------------------------------------------------------------
TypeOK ==
  /\ vcomBufferRx \in [1 .. RX_EPSIZE -> Nat]
  /\ rx_offset \in 0 .. RX_EPSIZE /\ n_unread_bytes \in 0 .. MANY
  /\ n_unsent_bytes \in 0 .. TX_EPSIZE /\ transmitting \in 0 .. 1
  /\ reset_state \in {"UNSET", "NEGEDGE", "LOW"}
  /\ {state, prevState} \subseteq
       {"UNCONNECTED", "ATTACHED", "ADDRESSED", "CONFIGURED", "SUSPENDED"}
  /\ rx_stat \in 0 .. 3 /\ tx_stat \in 0 .. 3 /\ pma \in Seq(Nat)
  /\ pc \in PC
  /\ n_copied \in 0 .. 1 /\ loaded \in Nat
  /\ pc = "store_unread" => loaded <= MANY
  /\ pc = "store_offset" => loaded <= RX_EPSIZE
  /\ pc \in {"store_rx_stat", "store_tx_stat"} => loaded <= 3
  /\ buf \in Seq(Nat) /\ txed \in 0 .. Len(buf) /\ sent \in 0 .. TX_EPSIZE
  /\ configured \in BOOLEAN /\ listening \in BOOLEAN /\ torn \in BOOLEAN
  /\ due \in Seq(Nat) /\ owed \in Seq(Nat)

(* The main thread gets the bytes of the host in order, all of them: what  *)
(* it is to read stands at the offset, whatever comes in between.          *)
InputInOrder ==
  ~torn /\ pc \in {"idle", "peek_len", "peek"} =>
    SubSeq(vcomBufferRx, rx_offset + 1, rx_offset + n_unread_bytes) = due

(* "This copy won't overwrite unread bytes, since we've set the RX         *)
(* endpoint to NAK, and will only set it to VALID when all bytes have been *)
(* read."  NoOverwrite is what the comment says, Kept what holds.          *)
NoOverwrite == rx_stat = VALID => due = <<>>
Kept == ~torn => NoOverwrite

(* An endpoint that has been enabled is not overwritten: the host gets     *)
(* what was written, once.                                                 *)
OutputInOrder == ~torn /\ tx_stat = VALID => pma = owed

(* When the driver says that it is sending, the host can take the packet:  *)
(* otherwise nothing would be sent again.  It holds through every reset.   *)
NotStuck == transmitting = 1 => tx_stat = VALID \/ pc \in Sending

(* A board that the host has configured and not suspended writes.          *)
Configured == Awake => isConnected

(* A request for the bootloader is missed only by a packet that comes      *)
(* before the offset is reset.                                             *)
Missed == reset_state = "NEGEDGE" /\ reset_state' = "LOW" /\ due' = MAGIC
MagicHeeded == [][Missed => torn \/ pc = "clear_offset"]_vars

(* A write ends, unless it waits for the end of a full packet that a host  *)
(* does not take.                                                          *)
Waits == pc = "flush" /\ ~Polls
WriteEnds == pc \in Writing ~> (pc \notin Writing \/ Waits)

(* The host can send again and again.                                      *)
Listens == []<>(rx_stat # NAK \/ torn \/ Waits)
=============================================================================
