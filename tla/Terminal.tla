------------------------------ MODULE Terminal ------------------------------
(***************************************************************************)
(* The command line of the robot (terminal.cpp).  The bytes of a serial    *)
(* port are edited into one buffer; the return key cuts that buffer into   *)
(* a name and arguments, in place, and runs the command of that name.  A   *)
(* return on an empty line runs the last command again: it is put together *)
(* from what the cutting, and the keys typed since, left in the buffer.    *)
(*                                                                         *)
(* A byte is a member of a small set of characters; a string is a          *)
(* sequence.  A 0 byte is ignored.  What commands do is left out, and so   *)
(* are the echo, the silent mode, the `params' listing and the bar.        *)
(***************************************************************************)
EXTENDS Integers, FiniteSets, SequencesExt

CONSTANTS
  TERMINAL_BUFFER_SIZE,    (* 64                                            *)
  TERMINAL_MAX_ARGUMENTS,  (* 8                                             *)
  Chars,                   (* the characters that are typed, but for space  *)
  Commands, Parameters     (* the names that are registered                 *)

Space == " "
Assign == "="
NUL == "NUL"
Typable == Chars \cup {Space}
Name == Commands \cup Parameters

ASSUME TerminalAssumption ==
  /\ TERMINAL_BUFFER_SIZE \in Nat \ {0}
  /\ TERMINAL_MAX_ARGUMENTS \in Nat \ {0}
  /\ Space \notin Chars /\ NUL \notin Typable
  /\ Name \subseteq Seq(Chars \ {Assign}) /\ <<>> \notin Name   (* C identifiers *)
  /\ Commands \cap Parameters = {}

VARIABLES
  terminal_buffer,
  terminal_pos,
  terminal_last_pos,  (* how much of the buffer the last line took          *)
  terminal_last_ok,   (* the last line ran a command                        *)
  skipping,           (* the bytes of an escape sequence still to come      *)
  typed,              (* history: the line the user has typed and not       *)
                      (* erased, or TooLong                                 *)
  touched,            (* history: a character was typed since the last line *)
  ran                 (* history: what the last line ran                    *)

history == <<typed, touched, ran>>
vars == <<terminal_buffer, terminal_pos, terminal_last_pos, terminal_last_ok,
          skipping, history>>

Index == 0 .. TERMINAL_BUFFER_SIZE - 1
TooLong == <<NUL>>
Unknown == [name |-> <<>>, args |-> <<>>, assigned |-> FALSE]

-----------------------------------------------------------------------------
(* The string that begins at an index of the buffer.                       *)
StringAt(buffer, i) ==
  LET end == CHOOSE n \in i .. TERMINAL_BUFFER_SIZE - 1 :
               buffer[n] = NUL /\ \A m \in i .. n - 1 : buffer[m] # NUL
  IN  [k \in 1 .. end - i |-> buffer[i + k - 1]]

(* The words of a string, as strtok_r finds them, by the places where they *)
(* start, in their order, and the places after their ends.                 *)
Begins(s) == {i \in DOMAIN s : s[i] # Space /\ (i = 1 \/ s[i-1] = Space)}

Starts(s) ==
  LET begins == Begins(s)
  IN  [k \in 1 .. Cardinality(begins) |->
         CHOOSE i \in begins : Cardinality({j \in begins : j < i}) = k - 1]

EndOf(s, start) ==
  CHOOSE j \in start .. Len(s) + 1 :
    /\ \A i \in start .. j - 1 : s[i] # Space
    /\ j <= Len(s) => s[j] = Space

(* How many arguments are cut.                                             *)
Argc(s) ==
  LET words == Cardinality(Begins(s))
  IN  IF words - 1 > TERMINAL_MAX_ARGUMENTS THEN TERMINAL_MAX_ARGUMENTS
      ELSE IF words = 0 THEN 0 ELSE words - 1

(* Where terminal_process writes a 0: after each word it has looked at and *)
(* before each argument, but not after the last argument there is room     *)
(* for, which keeps the rest of the line.                                  *)
Cuts(s) ==
  LET starts == Starts(s)
      argc == Argc(s)
      ended == {k \in DOMAIN starts : k <= argc + 1 /\ k # TERMINAL_MAX_ARGUMENTS + 1}
  IN  {EndOf(s, starts[k]) : k \in ended} \cup {starts[k] - 1 : k \in 2 .. argc + 1}

(* terminal_execute: the command of that name, or an assignment to the     *)
(* parameter whose name comes before the first =, which is overwritten.    *)
terminal_execute(buffer, args) ==
  LET name == StringAt(buffer, 0)
      eq == SelectInSeq(name, LAMBDA c : c = Assign)
      before == SubSeq(name, 1, eq - 1)
  IN  IF name \in Name
      THEN [buffer |-> buffer, ran |-> [name |-> name, args |-> args, assigned |-> FALSE]]
      ELSE [buffer |-> IF eq = 0 THEN buffer ELSE [buffer EXCEPT ![eq-1] = NUL],
            ran |-> IF eq = 0 \/ before \notin Parameters THEN Unknown
                    ELSE [name |-> before,
                          args |-> <<SubSeq(name, eq + 1, Len(name))>>,
                          assigned |-> TRUE]]

(* terminal_process, on a buffer that holds a line.                        *)
terminal_process(buffer, pos) ==
  LET line == StringAt(buffer, 0)
      starts == Starts(line)
      cuts == Cuts(line)
      cut == [i \in Index |-> IF i + 1 \in cuts /\ i < Len(line) THEN NUL ELSE buffer[i]]
      args == [k \in 1 .. Argc(line) |-> StringAt(cut, starts[k+1] - 1)]
      result == terminal_execute(cut, args)
  IN  /\ terminal_buffer' = result.buffer
      /\ terminal_last_ok' = (result.ran # Unknown)
      /\ terminal_last_pos' = pos
      /\ terminal_pos' = 0
      /\ ran' = result.ran

-----------------------------------------------------------------------------
Init ==
  /\ terminal_buffer = [i \in Index |-> NUL]
  /\ terminal_pos = 0 /\ terminal_last_pos = 0
  /\ terminal_last_ok = FALSE
  /\ skipping = 0
  /\ typed = <<>>
  /\ touched = FALSE
  /\ ran = Unknown

(* The last command is put together again: what was cut becomes a space.   *)
Restored_Cut(buffer) == buffer

Restored(buffer) ==
  [i \in Index |-> IF i < terminal_last_pos /\ buffer[i] = NUL THEN Space ELSE buffer[i]]

Terminated_Late(buffer, pos) == buffer

Terminated(buffer, pos) == [buffer EXCEPT ![pos] = NUL]

(* terminal_tick, for one byte that was received.                          *)
Return ==
  /\ skipping = 0
  /\ IF terminal_pos = 0 /\ terminal_last_ok
     THEN terminal_process(Terminated(Restored(terminal_buffer), terminal_last_pos),
                           terminal_last_pos)
     ELSE terminal_process(Terminated(terminal_buffer, terminal_pos), terminal_pos)
  /\ typed' = <<>>
  /\ touched' = FALSE
  /\ UNCHANGED skipping

Back ==
  /\ skipping = 0
  /\ terminal_pos > 0
  /\ terminal_pos' = terminal_pos - 1
  /\ typed' = IF typed = TooLong THEN TooLong ELSE Front(typed)
  /\ UNCHANGED <<terminal_buffer, terminal_last_pos, terminal_last_ok, skipping,
                 touched, ran>>

(* Two more bytes are waited for, and thrown away.                         *)
Escape ==
  /\ skipping = 0
  /\ skipping' = 2
  /\ UNCHANGED <<terminal_buffer, terminal_pos, terminal_last_pos, terminal_last_ok,
                 history>>

Skip ==
  /\ skipping > 0
  /\ skipping' = skipping - 1
  /\ UNCHANGED <<terminal_buffer, terminal_pos, terminal_last_pos, terminal_last_ok,
                 history>>

Forward_Past(pos) == IF pos < TERMINAL_BUFFER_SIZE THEN pos + 1 ELSE pos

Forward(pos) == IF pos < TERMINAL_BUFFER_SIZE - 1 THEN pos + 1 ELSE pos

(* Any other character.  A full line keeps its length: what comes next is  *)
(* written after it, and the return key overwrites it.                     *)
Key(c) ==
  /\ skipping = 0
  /\ terminal_buffer' = [terminal_buffer EXCEPT ![terminal_pos] = c]
  /\ terminal_pos' = Forward(terminal_pos)
  /\ typed' = IF typed = TooLong \/ Len(typed) = TERMINAL_BUFFER_SIZE - 1 THEN TooLong
              ELSE Append(typed, c)
  /\ touched' = TRUE
  /\ UNCHANGED <<terminal_last_pos, terminal_last_ok, skipping, ran>>

(* terminal_reset, called by the main loop when rhock mode ends.           *)
terminal_reset ==
  /\ skipping = 0
  /\ terminal_buffer' = [terminal_buffer EXCEPT ![0] = NUL]
  /\ terminal_pos' = 0 /\ terminal_last_pos' = 0
  /\ terminal_last_ok' = FALSE
  /\ typed' = <<>>
  /\ touched' = FALSE
  /\ ran' = Unknown
  /\ UNCHANGED skipping

Next ==
  \/ Return \/ Back \/ Escape \/ Skip
  \/ \E c \in Typable : Key(c)
  \/ terminal_reset

Spec == Init /\ [][Next]_vars

-----------------------------------------------------------------------------
(* Every variable keeps its type; in particular no character is written    *)
(* beyond the buffer, however long the line is.                            *)
TypeOK ==
  /\ terminal_buffer \in [Index -> Typable \cup {NUL}]
  /\ terminal_pos \in Index
  /\ terminal_last_pos \in Index
  /\ terminal_last_ok \in BOOLEAN
  /\ skipping \in 0 .. 2
  /\ typed \in Seq(Typable) \cup {TooLong}
  /\ touched \in BOOLEAN
  /\ ran \in [name : Name \cup {<<>>}, args : Seq(Seq(Typable)), assigned : BOOLEAN]

(* What a line asks for: its first word names a command, the others are    *)
(* its arguments, of which the last one there is room for takes the rest   *)
(* of the line; or its first word assigns to a parameter.                  *)
Meant(line) ==
  LET starts == Starts(line)
      word == SubSeq(line, 1, EndOf(line, 1) - 1)
      Ends(k) == IF k = TERMINAL_MAX_ARGUMENTS THEN Len(line)
                 ELSE EndOf(line, starts[k+1]) - 1
  IN  IF word \in Name
      THEN [name |-> word,
            args |-> [k \in 1 .. Argc(line) |-> SubSeq(line, starts[k+1], Ends(k))],
            assigned |-> FALSE]
      ELSE IF \E parameter \in Parameters : IsPrefix(Append(parameter, Assign), word)
      THEN LET parameter == CHOOSE p \in Parameters : IsPrefix(Append(p, Assign), word)
           IN  [name |-> parameter,
                args |-> <<SubSeq(word, Len(parameter) + 2, Len(word))>>,
                assigned |-> TRUE]
      ELSE Unknown

(* The return key runs what stands on the line, whatever was typed before  *)
(* and erased, and whatever earlier lines left in the buffer; the line     *)
(* begins with its first word and fits into the buffer.                    *)
RunsTyped ==
  [][Return /\ typed # <<>> /\ typed # TooLong /\ typed[1] # Space
       => ran' = Meant(typed)]_vars

(* A return, when no key was pressed, runs the last command again, with    *)
(* the same arguments (the comment of terminal_tick).                      *)
RunsAgain ==
  [][Return /\ typed = <<>> /\ terminal_last_ok /\ ~touched
       => ran'.name = ran.name /\ ran'.args = ran.args]_vars

(* That much is true: a command is put together again from its pieces,     *)
(* with the same arguments, when no character was typed in between.  An    *)
(* assignment is not: its = does not come back.                            *)
RunsAgainUntouched ==
  [][Return /\ typed = <<>> /\ terminal_last_ok /\ ~touched /\ ~ran.assigned
       => ran' = ran]_vars
=============================================================================
