# Verification of the RobotsWar firmware

TLA+ modules that model the control core of the firmware under `src/`, the
configurations that check them with TLC, and proofs checked by TLAPS. Paths
are relative to the root of the repository. `PROJECT.json` maps every
definition to the lines it models and lists components, runs, hazards,
findings and theorems.

## 1. The system

A robot is an STM32 board that runs `src/LibRhoban` on a fork of libmaple. One
main thread runs `internal_loop` (`main.cpp`): it reads the terminal, calls the
user's `tick` and `dxl_flush` at 50 Hz, and the user's `loop`. There is no
operating system. What runs besides the main thread are interrupts: timer 1
(PWM pulses), a timer at 50 Hz that sets a flag, the USARTs and USB (receive
buffers), and the board button. They share the globals of the main thread
without locks; all have one priority, so that a handler is never interrupted
by another. Outside are Dynamixel servos on a half-duplex bus and a joypad
client in Python (`src/joypad`) that types terminal commands over a socket or a
serial line.

| component | state | operations | interacts through | hard |
|---|---|---|---|---|
| PWM servos (`servos.cpp`, `servos_commands.cpp`, `commands.cpp`) | servo table, slot, compare registers, pins | register, calibrate, set position, enable, disable, start, stop, flush; `_servos_ovf`, `_servos_update` | the timer interrupt reads the table and writes pins; the button disables all | two halves of `servos_enable` around an interrupt; late interrupts; the button in the middle of a loop |
| Dynamixel orders (`dxl.cpp`) | table of positions, dirty flags, limits, mode | `dxl_set_position`, `dxl_set_zero`, `dxl_set_min_max`, `dxl_flush` | terminal and user write the table, the loop flushes it, the bus loses packets | flags cleared before the packet is sent; the button in the middle of a packet; more orders than a packet takes |
| Dynamixel bus (`dxl.cpp`, `crc16.cpp`) | the packet being parsed | write a packet, `dxl_send`, `dxl_get_reply`, `dxl_packet_push_byte` | bytes of servos that answer when they like | unawaited answers, flushes that cut a packet, resynchronisation, stuffing |
| serial receive buffer (`ring_buffer.h`, `usart_private.h`, `HardwareSerial.cpp`) | ring of bytes, head, tail | insert with overwriting, count, remove | interrupt inserts, main thread and button remove, no lock | every load and store of the reader against the interrupt; overrun |
| terminal (`terminal.cpp`) | line buffer, position, last line | edit, cut, execute, assign, run again, reset | reads the serial port, calls commands | one buffer reused for line, arguments and repetition |
| main loop (`main.cpp`) | rhock mode, exit position, port, flag | mode switches, change of port, 50 Hz tick | owns every other component | a mode that changes inside `terminal_tick`; state kept between sessions |
| USB serial (`usb_cdcacm.c`, `usb.c`, `usb_serial.cpp`) | batch of received bytes, counts, endpoint status, device state | read, write, flush; handlers of the two endpoints; reset, suspend, resume | the USB interrupt and the main thread change counts and endpoint registers, no lock; the host | a count changed in two accesses around an interrupt; status bits that are toggled; a reset in the middle of a read or write; a full packet that needs an empty one after it |
| joypad client (`terminalcontrol.py`, `command.py`, `serialcom.py`) | queue of commands, last values, connection | give an order, send one at random, connect, disconnect, end | two threads, one mutex, one serial line that neither locks | lost connections, random order, the filter of equal values |
| flash and store (`flash_write.cpp`, `store.cpp`) | pages | erase, write, load | Rhock virtual machine | power loss between erase and write |
| functions, Rhock commands, libmaple | | | | see "Not modelled" |

What makes each correct:

* servos: a servo at rest has its pin low; positions stay in the calibrated
  range; pulses have the commanded length, never overlap on a channel, and keep
  coming; a start and a stop that meet leave all servos driven or none.
* orders: no order is forgotten but one the bus lost; no packet is too long;
  every flush ends.
* bus: a reply is a packet that has come to its end and that a servo wrote; it is
  that of the last request; the parser finds the next packet whatever it was left in.
* receive buffer: a bounded FIFO without overrun; with overrun, bytes are lost
  but never repeated or reordered; the reader never removes from an empty
  buffer, nor overlooks the last byte.
* terminal: what runs is what stands on the line; the empty line repeats the
  last command.
* main loop: the bytes of a rhock stream are not taken for keys; an exit string
  ends the mode and nothing else does; the 50 Hz tick is served.
* USB serial: bytes come and go in order, whole and once; no endpoint is enabled
  with unread bytes behind it, none is left dead; a write ends.
* joypad client: an order replaces the one that waits for the same command or
  comes after it, whole; the last one reaches the robot unless a connection took
  it; the program can be ended.
* flash: only the pages asked for change, one at a time; a write that ends has
  written everything.

## 2. Modules

| module | models | abstract or detailed |
|---|---|---|
| `Servos` | PWM servos, timer 1, button, commands | detailed |
| `ServosStop` | `Servos` with a history of a button that meets a start | composition with a history variable |
| `DxlOrders` | the table of orders and `dxl_flush`, with the goal registers of the servos as environment | detailed |
| `DxlPackets` | packets of the bus as bytes, and the parser that is given them one by one | operators |
| `DxlBus` | requests and replies on the bus, byte by byte, with the servos as environment; extends `DxlPackets` | detailed |
| `BoundedFifo` | what a receive buffer promises | abstract |
| `RingBuffer` | the receive buffer, load by load; `Fifo == INSTANCE BoundedFifo WITH Capacity <- Slots - 1`, `queue` being the refinement mapping | detailed |
| `Terminal` | the command line | detailed |
| `MainLoop` | `internal_loop`, rhock mode, ports, flag; `T == INSTANCE Terminal` | composition |
| `UsbCdc` | the USB serial port, with the host as environment | detailed |
| `Mailbox` | what the queue of the joypad client promises | abstract |
| `TerminalControl` | the joypad client, thread by thread, with cable and robot as environment; `Boxes == INSTANCE Mailbox` with `box`, `noted`, `flight` as the refinement mapping | detailed |
| `PageStore` | what writing to flash promises when power may be lost | abstract |
| `FlashStore` | `flash_write`, register access by register access; `Store == INSTANCE PageStore` with `pages` and `wanted` as the refinement mapping | detailed |
| `MC...` | finite instances for TLC | |
| `...Proofs` | theorems and proofs | |

Names are those of the code wherever TLA+ allows it. A definition with a suffix
(`Clamp_NoMax`, `Terminated_Late`) is a variant with one plausible slip; no
specification uses it. Each property of a passing run has one that TLC finds
violating it, so that each is known to depend on the code it is about.

**Servos.** `Servos`, `Servos_count`, `Servos_current` are the globals of
`servos.cpp`; `counter`, `compare`, `pending` are the registers of the timer;
`main` is the loop the main thread is in. `Tick` advances the counter and
raises flags; `_servos_irq` is one interrupt: the dispatcher of libmaple samples
the flags once and calls the handler of channel 4 (`_servos_ovf`, next slot,
compare registers, pins up) before those of the others (`_servos_update`, pins
down). Commands that loop are one action per servo, and the disabling of one
servo is two (`ClearEnabled`, `DriveLow`), because an interrupt may come
between the flag and the pin. `servos_calibrate` is one action per field it writes
(`servos_calibrate`, `CalibrateMax`, `CalibrateInit`, `CalibratePos`): an interrupt
in between sees the new range with the old position, and may output it. Time is counted in a handful of ticks per slot,
positions in ticks.

**DxlOrders.** `limits`, `position`, `dirty` are the columns of `dxl_configs`.
`Collect` is one round of the loop of `dxl_flush`: it clears flags and builds a
packet; `EndSend`, the call of `dxl_send`, ends the packet, which is understood by the servos or not
when the bus is not initialized or the button cut in. `goal`, `astray`
and `cut` are environment and history. Degrees are integers.

**DxlPackets, DxlBus.** `incoming_packet` is the global of that name. The parser is an
operator (`DxlPackets`) with one case per group of states of the switch statement;
`dxl_tick` feeds it one byte. Bytes keep their values and the checksum is the real one,
because framing, stuffing and resynchronisation depend on them. `wire` is what
servos have begun to send and nobody has read; `dxl_send` throws away a prefix
of it, since the servo may still be talking after the two flushes. `awaited` is the
request `dxl_get_reply` waits for. `GiveUp` is the end of its wait by time alone: it
comes at any byte of an answer and with any answer outstanding, and leaves the parser
where it is. The parser goes on from there with what the next `dxl_send` leaves of the
wire, so that the beginning of one packet meets the rest of another. A length that is
then misread below 3 wraps, and more parameters come than `parameters` has room for
(`PushBeyond`): behind the array lie `process` and `dxl_state` (`dxl.h:107`, an array
whose size is a multiple of 4 at offset 3). The first byte too many becomes `process`;
the next one is stored over `dxl_state` and refused by the test behind it. That test is
an access out of bounds in C; the firmware is built with `-Os`, where the value
of `dxl_state` that was loaded before the store is tested, and so it is modelled. The definitions that state the specification begin
with `Bus` or `bus`, because `DxlProofs` extends this module and `DxlOrders` both.

**RingBuffer.** Each access of the reader to `head`, `tail` or `buf` is a step:
`Load` (rb_full_count loads each index twice, in an order C leaves open),
`Subtract`, `Compare`, `LoadItem`, `StoreHead`. `usart_irq` is the handler of
the port; `button_pressed` drains the buffer, as `dxl_write_serial` does when
the button handler sends its packets.

**Terminal.** One action per kind of byte. `Return` is the whole of
`terminal_process` and `terminal_execute`: cutting the line in place, looking
up the command, assignments, and putting the last line together again. `typed`,
`touched` and `ran` are history.

**MainLoop.** `at` is the place in `internal_loop`: the test of the mode, `drain`
(the loop that feeds the virtual machine), `terminal_tick`, the test for USB and
the test of the flag. The terminal is an instance of `Terminal` over the same
variables, and a `Tick` of the loop is one of its actions together with what the
command that runs does to the mode and the port. `Drain` compares a byte with
`rhock_exit[rhock_exit_pos]`; the position is not reset when rhock mode is entered,
as in the code, and a position beyond the string compares with whatever is there.
A port has received something or nothing, and the bytes are chosen when they are
read. History: `matched` counts how much of two exit strings in a row the session
has just read; `stale` says that the position still goes back to an earlier
session; `entered`, that the mode was entered in the running `terminal_tick`, which
goes on with the bytes that are there.

**UsbCdc.** The main thread is `pc` with one step per access to a volatile variable
or a register: `n_unread_bytes -= n` is `load_unread` and `store_unread`, setting an
endpoint is `load_rx_stat` and `store_rx_stat`, where `set_ep_stat` gives what the
hardware makes of toggles that were computed from an older value. `vcomDataTxCb`,
`vcomDataRxCb`, `usbReset`, `usbSuspend` and wake-up are one step each. The host
polls or does not (`listening`), sends packets, configures, suspends and resets. Of
the buffers, `due` and `owed` are histories of what is still to be read and to be
taken; `torn` says that a reset has met the main thread between seeing bytes and
having counted them, or while it enables an endpoint.

**TerminalControl.** `pad` and `at` are the places of the main thread and of the
dispatch thread. `queue`, `lastVal`, `connected`, `port` are those of the Python
objects; the mutex guards the dictionaries only, so that every access to the
connection is a step of its own and a button that disconnects may come between
`connect`, its flag, the test and the write. Ctrl-C ends the main thread wherever
it is (`Interrupt`), also with the mutex held. The robot may be unplugged, plugged
in again, and restarted, which makes it forget. `asked` and `lost` are histories:
the last order to each command, and the commands of which one went down with a
connection.

**FlashStore.** Every access of `flash_write` to the control register or to a half
word is a step, and power may be lost between any two (`Cut`), which leaves
anything in what was being erased or programmed. A half word that is not erased
keeps its value when it is programmed, and nothing is programmed or erased while
the register does not say so: a forgotten erase or unlock shows. `torn` is the
history of pages whose writing has not ended.

## 3. What the runs check

All bounds are constants in the `.cfg`; sizes are those of TLC with two
workers.

| run | properties | bounds | shows |
|---|---|---|---|
| `servos_power` | `TypeOK`, `DisabledIsLow`, `PositionInRange` | 2 channels of 1 servo, 3 pins, 3 ticks, interrupts as late as they like, registration at any time; 1 182 000 states | whatever comes between two writes of a command, a servo at rest has its pin low; a position is in its range but for the servo `servos_calibrate` is writing to, whose old position an interrupt may still output |
| `servos_pulse` | `PulseWithinSlot`, `PulseWidth`, `Refreshed` | 2 servos on 1 channel, 5 ticks, interrupts in time, positions inside the period | pulses of the commanded length, in their slot, for ever |
| `servos_stop` (violation) | `AllOrNone` | 2 servos | the button between the two servos `start` enables: when both are done, the first is at rest and the second driven |
| `dxl_orders` | `TypeOK`, `Delivered`, `Flushed` | 3 servos of which 2 followed, packets of 1 servo, 4 register steps, 2 orders, 1 change of limits; 732 000 states | no order is forgotten but by the bus, and flushes end |
| `dxl_bus` | `BusTypeOK`, `Genuine`, `Resynchronized` | 2 servos, 4 requests, 2 unanswered, `parameters` of 12 bytes, data that contain a header, waits given up at any byte, one packet in a row cut short (`MaxCuts`); 195 000 states | packets accepted at their end are genuine, also when pieces of two are joined, and the parser recovers from wherever it was left |
| `ring_fifo` | `TypeOK`, `IsFifo`, `EveryByteRead` | 4 slots, 9 bytes, no overrun | the buffer implements `BoundedFifo`, every byte is read |
| `ring_overrun` | `RemovesFromNonEmpty`, `InOrder` | 4 slots, 12 bytes, overrun, button between reads; 18 000 states | bytes are lost but neither repeated nor reordered |
| `terminal` | `TypeOK`, `RunsTyped`, `RunsAgainUntouched` | buffer of 5, 1 argument, a command `pp` and a parameter `p`; 264 000 states | what runs is what was typed; commands are repeated with their arguments |
| `main_loop` | `StreamIsWhole`, `TwiceEnds`, `EndsOnExit`, `Ticks` | line of 2, 1 argument, commands `r` (rhock) and `c` (rc), exit string of 2 bytes, any number of sessions; 101 000 states | the stream is never typed, exit strings end rhock mode whatever the last session left, the tick is served |
| `usb_cdc` | `TypeOK`, `InputInOrder`, `Kept`, `OutputInOrder`, `NotStuck`, `Configured`, `MagicHeeded`, `WriteEnds`, `Listens` | packets of 2 bytes, one of them empty and one the magic one, writes of 2 and 3 bytes, any number of resets and suspensions; 348 000 states | whatever the interrupt does between two accesses of the main thread, bytes keep their order and no endpoint dies |
| `joypad` | `TypeOK`, `Agreed`, `IsMailbox`, `Reaches`, `Quits`, `Noticed` | 1 axis of 2 positions, enable and disconnect buttons, 2 events, 1 cut; 34 700 states | the client implements `Mailbox`; only a connection loses an order, and only Ctrl-C within `send` keeps the program from ending |
| `flash_store` | `IsStore` | 2 pages of 2 words, half words of 2 values, writes of 5, 8 and 11 bytes, power lost once, any content at first; 429 000 states | `flash_write` implements `PageStore` |

Why the bounds are enough. *Servos:* channels do not interact but through the
table and the common slot counter, which two channels (or two servos of one)
show; three pins let a table be flushed and filled again with other pins; one
tick before, at and after a position are there with three to five ticks.
*DxlOrders:* a packet of one servo makes a flush of two dirty servos take two
rounds; two orders, with and without clamping, make equal and different
repetitions. *DxlBus:* two servos give a reply of the wrong one; a byte
string that needs stuffing, and one that does not, give packets of different
lengths; 12 parameters hold the rest of one
packet but not two whole ones, so that a wrapped length runs through `parameters`
and `process` into the next packet. A servo begins with up to three bytes on the wire
(`MaxWire`), so that a request takes the end of one packet together with the
beginning of the next and the two remains are joined; it may do so once
before the parser is back at a header (`MaxCuts`), which also joins the beginning of a
packet to its own end, or to the whole of the next one. *RingBuffer:* four slots wrap twice
within nine bytes, three times within twelve, at every position of the reader.
*Terminal:* four characters hold a name, an argument, a rest and a space, or an
assignment; stale characters on both sides of the end of a line. *MainLoop:* names
of one letter on a line of two, so that both commands run, and an exit string of
two bytes that the terminal would take for a command; sessions are not counted, so
that every position an earlier one may leave, also beyond the string, is met.
*UsbCdc:* with packets of two bytes a batch can be half read, and a write takes
one packet, or more; an empty packet and the request for the bootloader are
packets of their own; the `MANY` of a count stands for all that have wrapped below
zero. *TerminalControl:* `mute`, `start`, `stop` and an axis make four commands,
the two events give two orders to one command or to different ones, or an order and
a disconnection, and the enabling button gives two orders at once. *FlashStore:*
less than a page, a page, and a page and a rest that does not fill its word; a cut
at every step, then another write.

Fairness. `Servos!FairSpec`: the timer counts, its interrupt is served, a
command that was begun runs on, since nothing in it waits for anything; the
button and new commands are not fair. `DxlOrders!FairSpec`: strong fairness of
`BeginFlush`, since `internal_loop` comes back to `dxl_flush` 50 times a second
whatever it does in between, so that entering it is only ever disabled for a
while; weak fairness of what is begun. `RingBuffer!FairSpec`: the main thread
goes on reading. `MainLoop!FairSpec`: the
main thread runs, and finds a port empty again and again, since it is faster than
the port (strong fairness of `Dry`); a byte that the end of an escape sequence
awaits is not owed to it, which is why `Ticks` excepts that wait. `UsbCdc!FairSpec`:
the main thread runs on, comes back to its input and sees its time-outs pass; a
host that polls takes what it can again and again, one that does not owes nothing.
`TerminalControl!FairSpec`: both threads run, a mutex that is free again and again
is got by each, the random choice of a command gives each its turn, the robot
reads; events, cuts, plugging and Ctrl-C are not fair. `DxlBus!BusFairSpec`: the main
thread parses and waits no longer
than its time-out, asks again, and a servo that heard a request answers;
nothing is assumed about being heard, so that `Resynchronized` speaks of
behaviours that are at last left in peace.

Restrictions a reader should know. `servos_pulse` keeps positions away from the
ends of the period and interrupts in time: with a late interrupt the code does
output wrong pulses, and no comment promises otherwise. `dxl_bus` uses data
whose status does not end in 255 (`DxlDeaf.cfg` is that case), a line that loses
no bytes but those `dxl_send` flushes, and a main thread that is not held up for the time of several
bytes between two packets (`Stalls`): with `Stalls` the parser overwrites the
id of a reply before it is returned, and `Genuine` fails. `Genuine` excepts the
unfinished packet whose `process` a parameter has overwritten: `DxlOverrun.cfg` shows
that it is returned as a reply. `PositionInRange` excepts the servo that
`servos_calibrate` is in the middle of. `Delivered` excepts what the bus lost, because
it was not initialized or the button cut the packet (`astray`): those orders are gone.
`EndsOnExit` excepts a session that began with the position of an earlier one. `IsFifo` and
`EveryByteRead` need a buffer that is not overrun. `InputInOrder`, `Kept` and
`OutputInOrder` except a reset that met the main thread in the middle of an access
(`torn`); `NotStuck` and `Configured` do not. `usb_cdc` and `joypad` allow states
without a successor: a board may wait for ever for a host that does not configure
it again, and a client ends when it is interrupted, or has no more than a bounded
number of events. Everywhere else a deadlock would be reported.

Further configurations are kept beside the runs. Each checks what a comment or a
header promises, or what one would like to hold, and TLC shows how it fails; none
is a claim of the project, and they are documented here so that the restrictions
above can be reproduced.

| configuration | property | what TLC shows |
|---|---|---|
| `DxlReply.cfg` (`MCDxlBus`) | `ReplyOfLast` | `dxl_get_reply` returns any packet (`dxl.cpp:376`, against `dxl.h:140`): the late status of a write is taken for the data of a read; `SettledRepliesToLast` states when it is not |
| `DxlDeaf.cfg` (`MCDxlBus`) | `Resynchronized` | the header scan drops a third 255 without looking at it again (`dxl.cpp:228`), and no request resets it: a servo whose status ends in 255 is never heard again |
| `DxlOverrun.cfg` (`MCDxlBus`) | `RepliesEnd` | the index of a parameter is tested after it is stored, and one too late (`dxl.cpp:266`): when the length of a cut packet is misread below 3, a parameter overwrites `process`, and `dxl_get_reply` returns a packet that has not come to its end |
| `RingButton.cfg` (`RingBuffer`) | `RemovesFromNonEmpty` | the button empties the buffer between the test and the removal (`HardwareSerial.cpp:131`); the head passes the tail |
| `TerminalAgain.cfg` (`MCTerminal`) | `RunsAgain` | the `=` of an assignment is not restored (`terminal.cpp:203`): `p= 1` repeated is `p  1` |
| `JoypadEnable.cfg` (`MCTerminalControl`) | `Enabling` | "Enabling/disabling the robot" (`command.py`): orders to different commands leave in random order, and a `start` or `stop` equal to the last one is filtered, so that the robot may stay as it was |
| `UsbOverwrite.cfg` (`MCUsbCdc`) | `NoOverwrite` | the comment at `usb_cdcacm.c:525` ("this copy won't overwrite unread bytes") does not hold when a reset of the bus comes while the main thread is reading |

## 4. Findings

| run | where | what |
|---|---|---|
| `servos_stop` | `servos.cpp:342` | "Starts all servos" (`servos.h:118`) and "Stop all servos" (`servos.h:123`): the button disables all servos while `servos_enable_all` waits between two, and the loop enables the rest. Both functions have returned, one servo is at rest and one is driven, and the LED is lit |

The further configurations of section 3 show what else was met.

## 5. What is proved

For every value of the constants that satisfies the assumption of the module
(`ServosAssumption`, `DxlOrdersAssumption`, and so on):

| theorem | states |
|---|---|
| `ServosTypeOK`, `ServosDisabledIsLow`, `ServosPositionInRange` | the properties of `servos_power`, for any number of channels, servos, pins and positions; of the range, at every point but between the writes of `servos_calibrate` to that servo |
| `ServosPulseWithinSlot` | pulses never overlap on a channel, for any number of channels and servos and any period, when interrupts are in time and positions inside the period (`PulseAssumption`) |
| `ServosPulseWidth` | a pulse begins with the period and ends at the position commanded, for the same, any calibrations below the period and positions at both its ends (`WidthAssumption`) |
| `OrdersTypeOK`, `OrdersDelivered` | the safety properties of `dxl_orders`, for any number of servos, packet size, resolution and limits |
| `StuffingIsUndone`, `NoHeaderInside` | `dxl_unstuff` gives back what was stuffed, and a stuffed body holds no header, for any bytes |
| `ParserKeepsTypes` | whatever byte comes, the parser stays in one of its states and has every parameter it has counted, from any state it can be in |
| `WrittenIsRead` | between two packets, whatever came before, the parser accepts what `dxl_write_packet` writes, with its id and its parameters: one parameter or more, of any values, as many as pass the parser's test of the length when they are stuffed |
| `NoiseIsSkipped` | it also accepts it behind any bytes none of which is 255 |
| `ParserReturns` | left anywhere in a packet, and whatever comes, the parser is between two packets again within `DXL_MAX_PARAMS + 11` bytes |
| `GarbledIsRefused` | a packet garbled in one byte or two neighbouring ones, any way, makes no reply, for any id, instruction and parameters of `WrittenIsRead`: the checksum finds it. Its header and the low byte of its length must have come through, and the two bytes may not be the last of the content and the first of the checksum |
| `BusTypes` | `BusTypeOK`, for any servos, requests, data and bounds, with packets cut and `Stalls` |
| `WholeIsGenuine` | `Genuine` and `RepliesEnd`, as long as no request cuts a packet in two (`Uncut`), wherever in a packet a wait is given up, for any servos and requests, any data whose status passes the test of the length (`RepliesFit`), without `Stalls` |
| `SettledRepliesToLast` | `ReplyOfLast`, when every request finds no answer outstanding, an empty line and the parser between two packets (`Settled`), for the same |
| `RingTypeOK` | the indices stay in the buffer, for any size and button |
| `ReadsNonEmpty` | the reader removes from a buffer that holds a byte, with overrun, unless the button may come in the middle of a read |
| `ReadsInOrder` | bytes are read in order, none twice, overrun or not, for any size, unless the button may come in the middle of a read |
| `ImplementsFifo` | without overrun and button, `Spec => Fifo!Spec`, for any size |
| `UsbTypeOK`, `UsbInputInOrder`, `UsbKept`, `UsbOutputInOrder`, `UsbNotStuck`, `UsbConfigured`, `UsbMagicHeeded` | the safety properties of `usb_cdc`, for any size of packets, any packets and any writes |
| `ClientTypeOK`, `ClientAgreed` | the invariants of `joypad`, for any axes and positions and any number of events and cuts |
| `ImplementsMailbox` | `Spec => Boxes!Spec` for the same |
| `TerminalTypeOK`, `TerminalRunsTyped`, `TerminalRunsAgain` | the properties of `terminal`, for any size of buffer, characters, table of names and number of arguments |
| `LoopDrivesTerminal` | `Spec => T!Spec`: the main loop, seen through the variables of the terminal, is a `Terminal` |
| `LoopTypeOK`, `LoopRunsTyped`, `LoopRunsAgain` | types of the main loop, and the two properties of the terminal inside it, across rhock mode |
| `StreamStaysWhole`, `RhockEndsOnExit`, `TwoExitsEnd` | the safety properties of `main_loop`, for any line, bytes and exit string whose first byte is in no other place of it |
| `ImplementsStore`, `FlashTypeOK` | `Spec => Store!Spec`, and that nothing is read beyond the data or written beyond the flash, for any number and size of pages, any words, any number of cuts |

*Servos.* `DisabledIsLow` is not inductive: a pin could be high with nobody to
lower it. `IInv` adds that only registered servos are enabled (otherwise the
button would miss one), that no two have one pin (otherwise disabling one would
leave the pin to the other), that a high pin has an enabled servo or a main
thread about to lower it, and what the loops have established; `flush`, which
forgets the table, needs that all servos it has passed are disabled. `PositionInRange`
needs `CalibrateInv`: of the range a calibration is given, which is in order, the least
position is in the table, and the greatest one after the next write, so that the last
write puts the position inside. One lemma
per action, with the slot arithmetic of `SERVO_FOR_CHANNEL` in `SlotInTable`.

`PulseWithinSlot` rests on `PulseInv`: comparators ask for a time inside the
period; a slot begins when the counter is at 0; and while a driven pin is high, its
servo is that of the current slot, the timer has not begun the next one, and the
counter has not met the comparator or the interrupt that lowers the pin is
pending. No servo is calibrated (`NotCalibrating`). Interrupts in time make the last disjunct end before the next tick.

`PulseWidth` needs less of the constants and another invariant, `WidthInv`: every
calibration, and the position a servo has while it is calibrated (`CalibratedBelow`),
stays below the period; a slot begins when the counter is at 0; and while
a pin is high, a flag that is still raised belongs to a comparator the counter meets
at this very tick (`MetNow`). An edge is then an interrupt's, a rising one at counter
0, and a falling one at the value the comparator of the channel was loaded with. A
position at an end of the period, where two pulses of a channel may touch and
`PulseWithinSlot` is not claimed, keeps its width.

*DxlOrders.* `Delivered` needs that what is on the wire is what the table says
(`PacketFromTable`), which holds because the main thread does nothing else
while it sends. That a packet takes no more servos than fit (`PacketFits`) is a
counting argument: a servo is ranked by the dirty ids below its own, and the
ranks are different and below the size of the packet.

*DxlPackets.* `FlattenSeq` and the checksum are defined by recursion over sequences.
Induction is over a set of numbers (`AllNumbers`): its complement would have a least
element, by the theorem on well-founded relations. From it follow induction over
sequences (`AllSequences`), that a function defined by recursion exists
(`RecursiveExists`), and that `FlattenSeq` and `Checksums` are that function. Then
stuffing and unstuffing are known byte by byte (`StuffAppend`, `UnstuffAppend`), and
the invariant of the induction, `Undone`, also says how a sequence and its stuffed form
end, as a header may be begun by bytes that are there and ended by one that is added.
`WrittenIsRead` follows the parser through the content with `ReadSoFar`, the fields it
has filled after `n` bytes; the checksum it computes is that of the beginning it has
read. That it needs a parameter is the code's: it looks for the end of a packet only
after a parameter was stored, and every status carries its error byte. `Parsing`, the
invariant of `ParserKeepsTypes`, adds to the types that the checksum is 0 between
packets and that no parameter is read that was not stored. `ParserReturns` has a
measure, `Left`: how many bytes the parser takes at most until it is back at the header,
if nothing makes it go back before. Every byte makes it smaller, also when the length was
below 3 and has wrapped, because the index of a parameter is bounded by
`DXL_MAX_PARAMS` whatever the length. `NoiseIsSkipped` needs that no byte left over is
255, since a 255 before the header is what `DxlDeaf.cfg` is about.
`GarbledIsRefused` is about the polynomial of `crc16.cpp`. The division is followed
backward, bit by bit: the last bit of a word tells whether the polynomial was added, so
that of two words which agree in their last bits, those before agree in one bit less
(`StepBack`, `StepSame`). Going back from equal checksums over equal bytes, the words
stay equal (`ByteOne`); over two bytes sixteen bits are lost, but the beginnings of the
packets are the same, and from the same word only the same bytes lead there (`ByteBack`).
The first byte of a checksum on the wire is the low one, the last that the polynomial
gives: it is no neighbour of the content, and some errors in both that byte and the last
of the content do go unnoticed. A wrong low byte of the length makes the parser read
another number of bytes, which is not a question of two bytes any more.

*DxlBus.* `BusTypes` needs `BusIInv`: the parser is in one of its states (`Parsing`), and
who is asked is on the bus. `WholeIsGenuine` rests on `Carried`: the bytes on the wire are
whole statuses one behind the other (`Stream`), and the parser is either between two
packets (`Between`) or has read the beginning of one, whose end is what the wire begins
with (`Reading`). A wait that is given up leaves that so. That in the middle of a packet nothing is accepted (`NoReplyBefore`)
and at its end that packet is (`WrittenIsRead`), gives `Genuine` and `RepliesEnd`: a length
is not misread, so that no parameter reaches `process`. `Uncut` says of a request
that it loses nothing of the wire, or finds the parser between two packets and loses
everything. Without it the checksum is all that tells pieces from a packet, and the
pieces of two packets may agree with it for suitable data, so that there is nothing to
prove for all data; `dxl_bus` checks that those of its data do not. `Settled` is
stronger: then the only answer on the line is that of the last request, and it stays
so until it is returned or time is out (`LastCarried`).

*RingBuffer.* `ReadsNonEmpty` rests on `EmptyIsSeen`: while the buffer is empty
the indices loaded so far are those of the empty buffer, because only the
reader empties it, so that a count of an empty buffer is 0 however the loads
interleave. `ImplementsFifo` adds that the head the reader has loaded is still
that of the buffer, and shows that an insertion appends to `queue` and the last
store of the reader takes its head. `ReadsInOrder` rests on `OInv`: the bytes from head
to tail are numbered upward and all above those taken (`Ordered`); the byte the
reader has loaded is above those taken, and what stands behind it is above it
(`StoredIsNewer`, `LeftIsNewer`), also when an insertion into the full buffer has
moved the head on in the meantime.

*UsbCdc.* Neither the order of bytes nor the state of an endpoint is inductive by
itself. `FlagFirst` says that a packet is handed over by raising `transmitting`
before the endpoint is enabled, and that the status loaded for it stays true while
the flag is up: `NotStuck` follows, through every reset. `OwedStands` (what stands at
the endpoint is what was written) gives `OutputInOrder`; `DueInv`, which relates the
count, the offset and the history `due` at each place of `read`, and keeps the
endpoint closed there, gives `InputInOrder` and `Kept`, both unless a reset has torn
an access; `ConfiguredBefore` (what a suspension hides) gives `Configured`. From
`DueInv` it also follows what a callback finds at the endpoint when it peeks: the
whole packet, unless the offset of the previous one still stands, which gives
`MagicHeeded`.

*Terminal.* `IInv` is `TypeOK` with `LineKept` (no 0 stands below the position),
`TypedKept` (the history `typed` is what stands in the buffer) and `LastKept`: when
what the last command cut into pieces is put back, the buffer holds a line that means
what ran. A line is cut in place where its spaces end words, and put back at the
places where a 0 stands; that the one undoes the other, and that the pieces mean what
the line meant, is the main lemma. The words of a line are not computed by recursion in
`Terminal` but described as places where words begin and end, so that what holds of a
line of any length is proved with the first place at which it could fail (`Least`, from
the theorem on well-founded relations).

*TerminalControl.* `IInv` is `TypeOK` with `MutexHeld` (who holds the mutex is where
it says), `OrderWaits` (the order being written is still in the queue), `LastIsKept`
(an order that no longer waits is noted as the last) and `NotedIsTold` (what is
noted has been written, but for what is being written, or was lost). `Agreed`
follows, and with `OrderWaits` and `MutexHeld` every step maps to one of `Mailbox` or
to a stutter: storing an order maps to `Give` because the dispatch thread does not
hold the mutex, and the deletion of one already taken changes no box.

*MainLoop.* `LoopDrivesTerminal`: a `Tick` of the loop, whatever it does to mode and
port, is one action of the terminal, and all else leaves the terminal's variables
alone. The theorems of `Terminal` are instantiated (`TP`) and hold for `T`, since the
definitions of two instances with the same constants and variables are equal one by
one (`SameStrings` to `SameTypeOK`); so the terminal runs what was typed also when
rhock mode came between two lines. `StreamIsWhole` needs `LoopOK` and `OffInMode` (in rhock mode the terminal
is disabled); the other two are properties of steps that follow from `Counts`, the
relation between the position and `matched`: a fresh position is `matched`, and after
one exit string, whatever was left, the position has either ended the mode or
counts the second one.

*FlashStore.* The invariant says what the page being written holds so far
(`Programming`: words below `i` as asked, the rest blank), that pages done hold what
was asked (`Done`), and which bits the register has at each place (`Registers`), without
which an erase or a program would do nothing. That page `n` is asked for exactly
when the loop goes on is arithmetic on sizes and page sizes.

Only model-checked: liveness (`Refreshed`, `Flushed`, `EveryByteRead`,
`Resynchronized`, `WriteEnds`, `Listens`, `Reaches`, `Quits`, `Noticed`, `Ticks`), which
the provers do not do under fairness; and `Genuine` where requests cut packets. Of what
`Resynchronized` needs, `ParserReturns` and `NoiseIsSkipped` are proved; that they are
met in every fair behaviour is TLC's. Every other property of a passing run is a theorem.

## 6. Not modelled

Most of the repository is vendored: the compiler's headers under `BinutilsArm`,
FreeRTOS, usb_lib, libmaple and its examples. The models cover the firmware's own
core and the part of libmaple it leans on, which is a small share of all lines.

* `function.cpp`: piecewise linear interpolation on doubles; sequential, and
  the reals are out of TLC's reach. The degree and smoothing arithmetic of
  `servos_command` likewise: a command gives any position.
* `src/LibRhock`: the virtual machine is a git submodule the repository does
  not hold; its commands are a thin layer over it, and what a page of the store
  holds is its business.
* `dxl_commands.cpp` and the argument parsing of `servos_commands.cpp`: text
  around operations that are modelled. `flash_read` and the command `store` only
  read. `disable_terminal`, `enable_terminal` and `flushCommands` have no callers.
* Protocol 1 of Dynamixel, `dxl_forward`, torque, LED and configuration
  registers; the output array of `dxl_read`.
* A line that loses bytes within a packet otherwise than by the flushes of `dxl_send`:
  noise, and the button handler, whose packets empty the receive buffer while
  `dxl_get_reply` waits. What the parser makes of a packet with a piece missing is met
  with what the flushes cut.
* Of USB: the control endpoint, descriptors and line coding, which the generic
  driver handles within one interrupt, and a resume the board asks for. Of the
  client: the buttons that say hello and good-bye, which are orders like `mute`; reading the device, the socket alternative, the program that dumps
  events.
* libmaple, FreeRTOS, usb_lib and the other vendored code, except where the
  firmware leans on it (timer dispatch, ring buffer, USB serial);
  `LibRhoban/lib.cpp`, which no makefile builds.

## 7. Plan

Done, in this order: servos, orders, receive buffer, bus, terminal; main loop with
the terminal inside it; joypad client against its mailbox; USB serial; flash against
its store; and the proofs of section 5.

Left: torque and LED registers beside the goal positions in `DxlOrders`; protocol 1
and `dxl_forward` in `DxlBus`; the button inside `dxl_get_reply`; the loop of the user's `tick` against
the 50 Hz timer of `servos_attach_interrupt`.
Of proofs: what the checksum tells of pieces of two packets, where more than two bytes
are wrong, so that `Genuine` may be stated with cut packets for the data that allow it.
