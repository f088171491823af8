------------------------------ MODULE MainLoop ------------------------------
(***************************************************************************)
(* The main loop of the firmware (main.cpp), around the terminal.  A pass  *)
(* of internal_loop gives what a port has received to the Rhock virtual    *)
(* machine or to the terminal, switches to USB when something comes from   *)
(* there, and runs the user's tick and dxl_flush when the 50 Hz interrupt  *)
(* has set a flag.  The command rhock enters the mode in which the virtual *)
(* machine gets every byte; the bytes of rhock_exit leave it, and are      *)
(* looked for by a position in that string.                                *)
(*                                                                         *)
(* A port has received something or nothing; what it is is open until it   *)
(* is read, and so is whether more has come by then.                       *)
(***************************************************************************)
EXTENDS Integers, SequencesExt

CONSTANTS
  TERMINAL_BUFFER_SIZE, TERMINAL_MAX_ARGUMENTS, Chars,   (* of Terminal     *)
  Rhock, Rc,     (* the commands                                            *)
  rhock_exit,    (* the bytes that leave rhock mode: "!rhock\r"             *)
  Byte           (* what comes: characters and the bytes below              *)

Commands == {Rhock, Rc}
Parameters == {}
CR == "CR"
DEL == "DEL"
ESC == "ESC"
NUL == "NUL"

VARIABLES
  terminal_buffer, terminal_pos, terminal_last_pos, terminal_last_ok, skipping,
  typed, touched, ran,                       (* of Terminal                 *)
  rhock_mode, rhock_exit_pos, terminal_disabled,
  isUSB,
  flag,        (* set by the 50 Hz interrupt                                *)
  at,          (* where the main loop is                                    *)
  available,   (* the ports that have received something                    *)
  matched,     (* history: with how many bytes of two exit strings, the     *)
               (* longest there are, ends what this session of rhock mode   *)
               (* has read                                                  *)
  stale,       (* history: the position is still counted from the one an    *)
               (* earlier session has left                                  *)
  entered      (* history: rhock mode was entered in this terminal_tick     *)

T == INSTANCE Terminal

terminal == <<terminal_buffer, terminal_pos, terminal_last_pos, terminal_last_ok, skipping,
              typed, touched, ran>>
mode == <<rhock_mode, rhock_exit_pos, terminal_disabled, matched, stale>>
vars == <<terminal, mode, isUSB, flag, at, available, entered>>

Port == {"RC", "USB"}
Io == IF isUSB THEN "USB" ELSE "RC"
rhock_exit_len == Len(rhock_exit)

ASSUME MainLoopAssumption ==
  /\ T!TerminalAssumption
  /\ Byte \subseteq T!Typable \cup {CR, DEL, ESC, NUL}
  /\ {CR, DEL, ESC} \cap T!Typable = {}
  /\ rhock_exit \in Seq(Byte) \ {<<>>}
  /\ \A i \in 1 .. rhock_exit_len :
       rhock_exit[i] # NUL /\ (i > 1 => rhock_exit[i] # rhock_exit[1])

At(label) == at = label
Go(label) == at' = label

Init ==
  /\ T!Init
  /\ rhock_mode = FALSE /\ rhock_exit_pos = 0 /\ terminal_disabled = FALSE
  /\ isUSB = FALSE /\ flag = FALSE
  /\ at = "rhock"
  /\ available = {}
  /\ matched = 0 /\ stale = FALSE /\ entered = FALSE

-----------------------------------------------------------------------------
(* The interrupts.                                                         *)

Receive(port) ==
  /\ port \notin available
  /\ available' = available \cup {port}
  /\ UNCHANGED <<terminal, mode, isUSB, flag, at, entered>>

setFlag ==
  /\ ~flag /\ flag' = TRUE
  /\ UNCHANGED <<terminal, mode, isUSB, at, available, entered>>

-----------------------------------------------------------------------------
(* Rhock mode.                                                             *)

TestMode ==
  /\ At("rhock")
  /\ Go(IF rhock_mode THEN "drain" ELSE "terminal")
  /\ UNCHANGED <<terminal, mode, isUSB, flag, available, entered>>

Reads == Io \in available /\ available' = available \ {Io}

(* The string ends with a 0; what is beyond is any byte.                   *)
Compared(byte) ==
  IF rhock_exit_pos < rhock_exit_len THEN {rhock_exit[rhock_exit_pos + 1] = byte}
  ELSE IF rhock_exit_pos = rhock_exit_len THEN {byte = NUL}
  ELSE BOOLEAN

(* A position in the string, and one that stands for all beyond its end.   *)
Beyond == rhock_exit_len + 1

(* Mutant: another byte does not start the comparison again.               *)
Position_Stays(equal) ==
  IF ~equal \/ rhock_exit_pos = Beyond THEN rhock_exit_pos ELSE rhock_exit_pos + 1

Position(equal) ==
  IF ~equal THEN 0
  ELSE IF rhock_exit_pos = Beyond THEN Beyond ELSE rhock_exit_pos + 1

(* Mutant: the string is one byte longer than it is.                       *)
Complete_Late(pos) == pos > rhock_exit_len

Complete(pos) == pos >= rhock_exit_len

(* The first byte of the string is in no other place of it.               *)
Matched(byte) ==
  LET next == IF matched < rhock_exit_len THEN matched + 1 ELSE matched - rhock_exit_len + 1
  IN  IF matched < 2 * rhock_exit_len /\ byte = rhock_exit[next] THEN matched + 1
      ELSE IF byte = rhock_exit[1] THEN 1 ELSE 0

(* A byte of the stream, which goes to the virtual machine.  The loop goes *)
(* on reading when the mode has ended.                                     *)
Drain(byte) ==
  /\ At("drain") /\ Reads
  /\ \E equal \in Compared(byte) :
       /\ rhock_exit_pos' = Position(equal)
       /\ IF equal /\ Complete(rhock_exit_pos')
          THEN /\ rhock_mode' = FALSE /\ terminal_disabled' = FALSE
               /\ T!terminal_reset
          ELSE UNCHANGED <<rhock_mode, terminal_disabled, terminal>>
  /\ stale' = (stale /\ rhock_exit_pos' # 0)
  /\ matched' = Matched(byte)
  /\ UNCHANGED <<isUSB, flag, at, entered>>

-----------------------------------------------------------------------------
(* The terminal.                                                           *)

TestDisabled ==
  /\ At("terminal")
  /\ Go(IF terminal_disabled THEN "usb" ELSE "tick")
  /\ UNCHANGED <<terminal, mode, isUSB, flag, available, entered>>

(* Mutant: the command leaves the terminal on.                             *)
rhock_NotDisabled == rhock_mode' = TRUE /\ terminal_disabled' = terminal_disabled

rhock == rhock_mode' = TRUE /\ terminal_disabled' = TRUE

(* The return key, and the commands it runs.                               *)
Run ==
  /\ T!Return
  /\ IF ran'.name = Rhock
     THEN rhock /\ entered' = TRUE /\ matched' = 0 /\ stale' = (rhock_exit_pos # 0)
     ELSE UNCHANGED <<rhock_mode, terminal_disabled, entered, matched, stale>>
  /\ isUSB' = (isUSB /\ ran'.name # Rc)

(* A byte of the terminal; the back key does nothing at the start of a     *)
(* line, and a 0 never does, but as the rest of an escape sequence.        *)
Tick(byte) ==
  /\ At("tick") /\ Reads
  /\ \/ byte = CR /\ Run
     \/ /\ \/ T!Skip
           \/ byte = DEL /\ T!Back
           \/ byte = ESC /\ T!Escape
           \/ byte \in T!Typable /\ T!Key(byte)
           \/ /\ skipping = 0 /\ (byte = NUL \/ (byte = DEL /\ terminal_pos = 0))
              /\ UNCHANGED terminal
        /\ UNCHANGED <<rhock_mode, terminal_disabled, isUSB, entered, matched, stale>>
  /\ UNCHANGED <<rhock_exit_pos, flag, at>>

(* Nothing is left to read: drain or terminal_tick ends, unless the rest   *)
(* of an escape sequence is awaited.                                       *)
Dry ==
  /\ at \in {"drain", "tick"} /\ Io \notin available /\ skipping = 0
  /\ Go(IF at = "drain" THEN "terminal" ELSE "usb")
  /\ entered' = FALSE
  /\ UNCHANGED <<terminal, mode, isUSB, flag, available>>

-----------------------------------------------------------------------------
(* The rest of the loop.                                                   *)

(* terminal_to_usb keeps the line, and the mode.                           *)
TestUSB ==
  /\ At("usb") /\ Go("flag")
  /\ isUSB' = (isUSB \/ "USB" \in available)
  /\ UNCHANGED <<terminal, mode, flag, available, entered>>

(* Mutant: the flag is cleared by a pass of the terminal only.             *)
TestFlag_Terminal ==
  /\ At("flag") /\ Go("rhock")
  /\ flag' = (flag /\ rhock_mode)
  /\ UNCHANGED <<terminal, mode, isUSB, available, entered>>

(* tick and dxl_flush, when the flag is set.                               *)
TestFlag ==
  /\ At("flag") /\ Go("rhock")
  /\ flag' = FALSE
  /\ UNCHANGED <<terminal, mode, isUSB, available, entered>>

internal_loop ==
  \/ TestMode \/ TestDisabled \/ Dry \/ TestUSB \/ TestFlag
  \/ \E byte \in Byte : Drain(byte) \/ Tick(byte)

Next ==
  \/ internal_loop
  \/ setFlag
  \/ \E port \in Port : Receive(port)

Spec == Init /\ [][Next]_vars

(* The loop runs, and is faster than a port.                               *)
FairSpec == Spec /\ WF_vars(internal_loop) /\ SF_vars(Dry)

-----------------------------------------------------------------------------
TypeOK ==
  /\ T!TypeOK
  /\ rhock_mode \in BOOLEAN /\ rhock_exit_pos \in 0 .. Beyond
  /\ terminal_disabled \in BOOLEAN /\ isUSB \in BOOLEAN /\ flag \in BOOLEAN
  /\ at \in {"rhock", "drain", "terminal", "tick", "usb", "flag"}
  /\ available \subseteq Port
  /\ matched \in 0 .. 2 * rhock_exit_len /\ stale \in BOOLEAN /\ entered \in BOOLEAN

(* Two exit strings end rhock mode, whatever the position an earlier       *)
(* session has left.                                                       *)
TwiceEnds == [][matched' = 2 * rhock_exit_len => ~rhock_mode']_matched

(* Nothing but an exit string, of this session, ends rhock mode, when no   *)
(* byte has yet been unlike the one that the position it began with asks   *)
(* for.                                                                    *)
EndsOnExit ==
  [][rhock_mode /\ ~rhock_mode' =>
       stale \/ matched' \in {rhock_exit_len, 2 * rhock_exit_len}]_rhock_mode

(* Once the tick that ran the command is over, no byte of the stream is    *)
(* taken for a key.                                                        *)
StreamIsWhole == at = "tick" /\ rhock_mode => entered

(* Every tick of 50 Hz comes to the user's tick and to dxl_flush, unless   *)
(* the rest of an escape sequence is awaited.                              *)
Ticks == flag ~> (~flag \/ skipping > 0)
=============================================================================
