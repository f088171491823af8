--------------------------- MODULE MainLoopProofs ---------------------------
(* What ends rhock mode, and what the terminal gets to read, for every     *)
(* exit string, every command line and every port.                         *)
EXTENDS MainLoop, SequenceTheorems, TLAPS

(* The terminal is off in rhock mode, and only then.                       *)
OffInMode == terminal_disabled = rhock_mode

LoopOK ==
  /\ rhock_mode \in BOOLEAN /\ stale \in BOOLEAN /\ entered \in BOOLEAN
  /\ rhock_exit_pos \in 0 .. Beyond
  /\ matched \in 0 .. 2 * rhock_exit_len

(* The position that is counted and the bytes that have come.  The first   *)
(* byte of an exit string is unlike all others: it starts the comparison   *)
(* again, be it by the mismatch that puts an old position to 0.            *)
Counts ==
  rhock_mode =>
    /\ matched = 0 => stale \/ rhock_exit_pos = 0
    /\ matched \in 1 .. rhock_exit_len - 1 => rhock_exit_pos \in {0, matched}
    /\ matched >= rhock_exit_len => rhock_exit_pos = matched - rhock_exit_len
    /\ matched < 2 * rhock_exit_len
    /\ stale => matched = 0 /\ rhock_exit_pos # 0

IInv == LoopOK /\ OffInMode /\ StreamIsWhole /\ Counts

-----------------------------------------------------------------------------
(* The exit string has a length, and starts with a byte of its own.        *)
LEMMA Length ==
  /\ rhock_exit_len \in Nat \ {0}
  /\ \A i \in 1 .. rhock_exit_len :
       rhock_exit[i] # NUL /\ (i > 1 => rhock_exit[i] # rhock_exit[1])
<1>1. rhock_exit \in Seq(Byte) /\ rhock_exit # <<>>
  BY MainLoopAssumption
<1>2. Len(rhock_exit) \in Nat /\ Len(rhock_exit) # 0
  BY <1>1, LenProperties, EmptySeq
<1> QED
  BY <1>2, MainLoopAssumption DEF rhock_exit_len

(* A byte of the stream: it ends the mode when an exit string ends with    *)
(* it, or when it is compared from an old position, and never lets two     *)
(* exit strings pass.                                                      *)
LEMMA DrainStep ==
  ASSUME IInv, NEW byte \in Byte, Drain(byte)
  PROVE  /\ LoopOK' /\ OffInMode' /\ Counts'
         /\ rhock_mode /\ ~rhock_mode' =>
              stale \/ matched' \in {rhock_exit_len, 2 * rhock_exit_len}
         /\ rhock_mode /\ matched' = 2 * rhock_exit_len => ~rhock_mode'
<1> DEFINE n == rhock_exit_len
<1>1. /\ n \in Nat \ {0}
      /\ \A i \in 1 .. n : rhock_exit[i] # NUL /\ (i > 1 => rhock_exit[i] # rhock_exit[1])
  BY Length
<1>2. PICK equal \in Compared(byte) :
        /\ rhock_exit_pos' = Position(equal)
        /\ IF equal /\ Complete(rhock_exit_pos')
           THEN rhock_mode' = FALSE /\ terminal_disabled' = FALSE
           ELSE rhock_mode' = rhock_mode /\ terminal_disabled' = terminal_disabled
  BY DEF Drain
<1>3. /\ matched' = Matched(byte) /\ entered' = entered
      /\ stale' <=> stale /\ rhock_exit_pos' # 0
      /\ stale' \in BOOLEAN
  <2>1. /\ matched' = Matched(byte) /\ entered' = entered
        /\ stale' = (stale /\ rhock_exit_pos' # 0)
    BY DEF Drain
  <2>2. stale' \in BOOLEAN
    BY <2>1, Zenon
  <2>3. stale' <=> stale /\ rhock_exit_pos' # 0
    BY <2>1, Zenon
  <2> QED
    BY <2>1, <2>2, <2>3, Zenon
<1>4. /\ rhock_exit_pos \in 0 .. n + 1 /\ matched \in 0 .. 2 * n
      /\ rhock_mode \in BOOLEAN /\ stale \in BOOLEAN /\ entered \in BOOLEAN
      /\ terminal_disabled = rhock_mode
  BY DEF IInv, LoopOK, OffInMode, Beyond
<1>5. equal \in BOOLEAN
  BY <1>2 DEF Compared
<1>6. /\ rhock_exit_pos < n => (equal <=> byte = rhock_exit[rhock_exit_pos + 1])
      /\ rhock_exit_pos = n => (equal <=> byte = NUL)
  <2>1. ASSUME rhock_exit_pos < n
        PROVE  equal <=> byte = rhock_exit[rhock_exit_pos + 1]
    <3>1. equal = (rhock_exit[rhock_exit_pos + 1] = byte)
      BY <1>2, <2>1 DEF Compared
    <3> QED
      BY <3>1, Zenon
  <2>2. ASSUME rhock_exit_pos = n
        PROVE  equal <=> byte = NUL
    <3>1. ~(rhock_exit_pos < n)
      BY <1>1, <2>2
    <3>2. equal = (byte = NUL)
      BY <1>2, <2>2, <3>1 DEF Compared
    <3> QED
      BY <3>2, Zenon
  <2> QED
    BY <2>1, <2>2
<1>7. rhock_exit_pos' = IF ~equal THEN 0 ELSE IF rhock_exit_pos = n + 1 THEN n + 1
                        ELSE rhock_exit_pos + 1
  BY <1>2 DEF Position, Beyond
<1>8. rhock_exit_pos' \in 0 .. n + 1
  BY <1>1, <1>4, <1>7
<1>9. /\ matched < n => matched' = IF byte = rhock_exit[matched + 1] THEN matched + 1
                                   ELSE IF byte = rhock_exit[1] THEN 1 ELSE 0
      /\ matched >= n /\ matched < 2 * n =>
           matched' = IF byte = rhock_exit[matched - n + 1] THEN matched + 1
                      ELSE IF byte = rhock_exit[1] THEN 1 ELSE 0
      /\ matched' \in 0 .. 2 * n
  BY <1>1, <1>3, <1>4 DEF Matched
<1>10. /\ equal /\ rhock_exit_pos' >= n => rhock_mode' = FALSE
       /\ ~(equal /\ rhock_exit_pos' >= n) => rhock_mode' = rhock_mode
       /\ terminal_disabled' = rhock_mode'
  BY <1>2, <1>4 DEF Complete
<1>11. rhock_mode' \in BOOLEAN /\ stale' \in BOOLEAN /\ entered' \in BOOLEAN
  BY <1>3, <1>4, <1>5, <1>10
<1>12. LoopOK' /\ OffInMode'
  BY <1>8, <1>9, <1>10, <1>11 DEF LoopOK, OffInMode, Beyond
<1> DEFINE Goal == /\ rhock_mode' =>
                        /\ matched' = 0 => stale' \/ rhock_exit_pos' = 0
                        /\ matched' \in 1 .. n - 1 => rhock_exit_pos' \in {0, matched'}
                        /\ matched' >= n => rhock_exit_pos' = matched' - n
                        /\ matched' < 2 * n
                        /\ stale' => matched' = 0 /\ rhock_exit_pos' # 0
                   /\ ~rhock_mode' => stale \/ matched' \in {n, 2 * n}
<1>13. ASSUME rhock_mode PROVE Goal
  <2>1. /\ matched = 0 => stale \/ rhock_exit_pos = 0
        /\ matched \in 1 .. n - 1 => rhock_exit_pos \in {0, matched}
        /\ matched >= n => rhock_exit_pos = matched - n
        /\ matched < 2 * n
        /\ stale => matched = 0 /\ rhock_exit_pos # 0
    BY <1>13 DEF IInv, Counts
  <2>2. rhock_mode' <=> ~(equal /\ rhock_exit_pos' >= n)
    BY <1>5, <1>10, <1>13
  <2> HIDE DEF n
  <2>3. CASE matched = 0 /\ ~stale
    <3>1. rhock_exit_pos = 0 /\ ~stale'
      BY <1>3, <2>1, <2>3
    <3>2. equal <=> byte = rhock_exit[1]
      BY <1>1, <1>6, <3>1
    <3>3. CASE byte = rhock_exit[1]
      <4>1. matched' = 1 /\ rhock_exit_pos' = 1
        BY <1>1, <1>7, <1>9, <2>3, <3>1, <3>2, <3>3
      <4> QED
        BY <1>1, <2>2, <3>1, <3>2, <3>3, <4>1
    <3>4. CASE byte # rhock_exit[1]
      <4>1. matched' = 0 /\ rhock_exit_pos' = 0
        BY <1>1, <1>7, <1>9, <2>3, <3>1, <3>2, <3>4
      <4> QED
        BY <1>1, <2>2, <3>1, <3>2, <3>4, <4>1
    <3> QED
      BY <3>3, <3>4
  <2>4. CASE matched = 0 /\ stale
    <3>1. CASE byte = rhock_exit[1]
      <4>1. matched' = 1
        BY <1>1, <1>9, <2>4, <3>1
      <4>2. equal => rhock_exit_pos = n + 1
        BY <1>1, <1>4, <1>6, <2>1, <2>4, <3>1
      <4> QED
        BY <1>1, <1>3, <1>7, <2>2, <2>4, <4>1, <4>2
    <3>2. CASE byte # rhock_exit[1]
      <4>1. matched' = 0
        BY <1>1, <1>9, <2>4, <3>2
      <4> QED
        BY <1>1, <1>3, <1>8, <2>2, <2>4, <4>1
    <3> QED
      BY <3>1, <3>2
  <2>5. CASE matched \in 1 .. n - 1
    <3>1. ~stale /\ ~stale' /\ matched < n /\ rhock_exit_pos \in {0, matched}
      BY <1>1, <1>3, <1>4, <2>1, <2>5
    <3>2. rhock_exit[matched + 1] # rhock_exit[1]
      BY <1>1, <2>5
    <3>3. CASE byte = rhock_exit[matched + 1]
      BY <1>1, <1>4, <1>6, <1>7, <1>9, <2>2, <2>5, <3>1, <3>2, <3>3
    <3>4. CASE byte # rhock_exit[matched + 1] /\ byte = rhock_exit[1]
      BY <1>1, <1>4, <1>6, <1>7, <1>9, <2>2, <2>5, <3>1, <3>2, <3>4
    <3>5. CASE byte # rhock_exit[matched + 1] /\ byte # rhock_exit[1]
      BY <1>1, <1>4, <1>6, <1>7, <1>9, <2>2, <2>5, <3>1, <3>2, <3>5
    <3> QED
      BY <3>3, <3>4, <3>5
  <2>6. CASE matched >= n
    <3>1. /\ ~stale /\ ~stale' /\ rhock_exit_pos = matched - n
          /\ rhock_exit_pos < n /\ rhock_exit_pos + 1 = matched - n + 1
      BY <1>1, <1>3, <1>4, <2>1, <2>6
    <3>2. equal <=> byte = rhock_exit[matched - n + 1]
      BY <1>6, <3>1
    <3>3. CASE byte = rhock_exit[matched - n + 1]
      BY <1>1, <1>4, <1>7, <1>9, <2>1, <2>2, <2>6, <3>1, <3>2, <3>3
    <3>4. CASE byte # rhock_exit[matched - n + 1] /\ byte = rhock_exit[1]
      <4>1. n > 1
        BY <1>1, <1>4, <2>1, <2>6, <3>4
      <4> QED
        BY <1>1, <1>4, <1>7, <1>9, <2>1, <2>2, <2>6, <3>1, <3>2, <3>4, <4>1
    <3>5. CASE byte # rhock_exit[matched - n + 1] /\ byte # rhock_exit[1]
      BY <1>1, <1>4, <1>7, <1>9, <2>1, <2>2, <2>6, <3>1, <3>2, <3>5
    <3> QED
      BY <3>3, <3>4, <3>5
  <2> QED
    BY <1>1, <1>4, <2>3, <2>4, <2>5, <2>6
<1>14. ASSUME ~rhock_mode PROVE ~rhock_mode'
  BY <1>5, <1>10, <1>14
<1>15. Counts'
  BY <1>13, <1>14 DEF Counts
<1>16. rhock_mode /\ ~rhock_mode' => stale \/ matched' \in {n, 2 * n}
  BY <1>13
<1>17. rhock_mode /\ matched' = 2 * n => ~rhock_mode'
  BY <1>1, <1>13
<1> QED
  BY <1>12, <1>15, <1>16, <1>17

(* A byte of the terminal enters the mode, or leaves it as it is.          *)
LEMMA TickStep ==
  ASSUME IInv, NEW byte \in Byte, Tick(byte)
  PROVE  IInv' /\ UNCHANGED at /\ (rhock_mode => rhock_mode')
<1>1. /\ rhock_exit_pos' = rhock_exit_pos /\ at' = at /\ at = "tick"
      /\ \/ /\ rhock_mode' = TRUE /\ terminal_disabled' = TRUE
            /\ entered' = TRUE /\ matched' = 0 /\ stale' = (rhock_exit_pos # 0)
         \/ UNCHANGED <<rhock_mode, terminal_disabled, entered, matched, stale>>
  BY DEF Tick, Run, rhock, At
<1>2. CASE UNCHANGED <<rhock_mode, terminal_disabled, entered, matched, stale>>
  BY <1>1, <1>2 DEF IInv, LoopOK, OffInMode, StreamIsWhole, Counts
<1>3. CASE /\ rhock_mode' = TRUE /\ terminal_disabled' = TRUE
           /\ entered' = TRUE /\ matched' = 0 /\ stale' = (rhock_exit_pos # 0)
  <2>1. stale' \in BOOLEAN /\ (stale' <=> rhock_exit_pos # 0)
    BY <1>3, Zenon
  <2>2. rhock_exit_len \in Nat \ {0}
    BY Length
  <2> QED
    BY <1>1, <1>3, <2>1, <2>2 DEF IInv, LoopOK, OffInMode, StreamIsWhole, Counts
<1> QED
  BY <1>1, <1>2, <1>3

LEMMA Initially == Init => IInv
<1>1. rhock_exit_len \in Nat \ {0}
  BY Length
<1>2. ASSUME Init
      PROVE  /\ rhock_mode = FALSE /\ rhock_exit_pos = 0 /\ terminal_disabled = FALSE
             /\ matched = 0 /\ stale = FALSE /\ entered = FALSE
  BY <1>2 DEF Init
<1>3. ASSUME Init PROVE LoopOK
  BY <1>1, <1>2, <1>3 DEF LoopOK, Beyond
<1> QED
  BY <1>2, <1>3 DEF IInv, OffInMode, StreamIsWhole, Counts

(* What a step keeps, and what the two action properties ask of it.        *)
LEMMA Step ==
  ASSUME IInv, [Next]_vars
  PROVE  /\ IInv'
         /\ rhock_mode /\ ~rhock_mode' =>
              stale \/ matched' \in {rhock_exit_len, 2 * rhock_exit_len}
         /\ rhock_mode /\ matched' = 2 * rhock_exit_len => ~rhock_mode'
<1> USE DEF IInv
<1> DEFINE Kept == UNCHANGED <<rhock_mode, terminal_disabled, rhock_exit_pos, matched, stale>>
           Quiet == Kept /\ entered' \in BOOLEAN /\ StreamIsWhole'
<1>1. ASSUME Quiet PROVE IInv'
  BY <1>1 DEF LoopOK, OffInMode, Counts
<1>2. ASSUME Quiet PROVE ~(rhock_mode /\ matched' = 2 * rhock_exit_len)
  <2>1. rhock_exit_len \in Nat \ {0}
    BY Length
  <2> QED
    BY <1>2, <2>1 DEF Counts, LoopOK
<1>3. ASSUME NEW byte \in Byte, Drain(byte) PROVE StreamIsWhole'
  BY <1>3 DEF Drain, At, StreamIsWhole
<1>4. CASE TestMode
  BY <1>1, <1>2, <1>4 DEF TestMode, At, Go, mode, StreamIsWhole, LoopOK
<1>5. CASE TestDisabled
  BY <1>1, <1>2, <1>5 DEF TestDisabled, At, Go, mode, StreamIsWhole, LoopOK, OffInMode
<1>6. CASE Dry
  BY <1>1, <1>2, <1>6 DEF Dry, At, Go, mode, StreamIsWhole, LoopOK
<1>7. CASE TestUSB
  BY <1>1, <1>2, <1>7 DEF TestUSB, At, Go, mode, StreamIsWhole, LoopOK
<1>8. CASE TestFlag
  BY <1>1, <1>2, <1>8 DEF TestFlag, At, Go, mode, StreamIsWhole, LoopOK
<1>9. CASE setFlag
  BY <1>1, <1>2, <1>9 DEF setFlag, mode, StreamIsWhole, LoopOK
<1>10. ASSUME NEW port \in Port, Receive(port)
       PROVE  Quiet
  BY <1>10 DEF Receive, mode, StreamIsWhole, LoopOK
<1>11. CASE UNCHANGED vars
  BY <1>1, <1>2, <1>11 DEF vars, mode, StreamIsWhole, LoopOK
<1>12. ASSUME NEW byte \in Byte, Drain(byte)
       PROVE  /\ IInv'
              /\ rhock_mode /\ ~rhock_mode' =>
                   stale \/ matched' \in {rhock_exit_len, 2 * rhock_exit_len}
              /\ rhock_mode /\ matched' = 2 * rhock_exit_len => ~rhock_mode'
  BY <1>3, <1>12, DrainStep
<1>13. ASSUME NEW byte \in Byte, Tick(byte)
       PROVE  /\ IInv' /\ (rhock_mode => rhock_mode')
              /\ ~(rhock_mode /\ matched' = 2 * rhock_exit_len)
  <2>1. IInv' /\ (rhock_mode => rhock_mode')
    BY <1>13, TickStep
  <2>2. rhock_exit_len \in Nat \ {0}
    BY Length
  <2>3. rhock_mode => matched' # 2 * rhock_exit_len
    BY <2>1, <2>2 DEF Counts, LoopOK
  <2> QED
    BY <2>1, <2>3
<1> QED
  BY <1>1, <1>2, <1>4, <1>5, <1>6, <1>7, <1>8, <1>9, <1>10, <1>11, <1>12, <1>13
     DEF Next, internal_loop

LEMMA Invariant == Spec => []IInv
<1>1. Init => IInv
  BY Initially
<1>2. IInv /\ [Next]_vars => IInv'
  BY Step
<1> QED
  BY <1>1, <1>2, PTL DEF Spec

(* StreamIsWhole: once the tick that ran the command rhock is over, no     *)
(* byte that is meant for the virtual machine is read by the terminal.     *)
THEOREM StreamStaysWhole == Spec => []StreamIsWhole
<1>1. IInv => StreamIsWhole
  BY DEF IInv
<1> QED
  BY <1>1, Invariant, PTL

(* EndsOnExit: rhock mode ends with an exit string of its own session, or  *)
(* with what is left of an earlier one.                                    *)
THEOREM RhockEndsOnExit == Spec => EndsOnExit
<1>1. IInv /\ [Next]_vars =>
        [rhock_mode /\ ~rhock_mode' =>
           stale \/ matched' \in {rhock_exit_len, 2 * rhock_exit_len}]_rhock_mode
  BY Step
<1> QED
  BY <1>1, Invariant, PTL DEF Spec, EndsOnExit

(* TwiceEnds: who sends the exit string twice leaves rhock mode, whatever  *)
(* position the comparison was left at.                                    *)
THEOREM TwoExitsEnd == Spec => TwiceEnds
<1>1. IInv /\ [Next]_vars => [matched' = 2 * rhock_exit_len => ~rhock_mode']_matched
  <2> SUFFICES ASSUME IInv, [Next]_vars, matched' = 2 * rhock_exit_len, rhock_mode'
               PROVE  FALSE
    OBVIOUS
  <2>1. rhock_exit_len \in Nat \ {0} /\ IInv'
    BY Length, Step
  <2> QED
    BY <2>1 DEF IInv, Counts
<1> QED
  BY <1>1, Invariant, PTL DEF Spec, TwiceEnds
-----------------------------------------------------------------------------
(* The terminal, with what is proved of it.                                *)
TP == INSTANCE TerminalProofs

(* A return is one of the terminal's steps, and so is the reset with which *)
(* rhock mode ends: the terminal waits for no escape sequence then.        *)
LEMMA TerminalStep ==
  ASSUME [Next]_vars
  PROVE  [T!Next]_(T!vars)
<1>1. UNCHANGED terminal => UNCHANGED T!vars
  BY DEF terminal, T!vars, T!history
<1>2. ASSUME NEW byte \in Byte, Drain(byte) PROVE T!terminal_reset \/ UNCHANGED terminal
  BY <1>2 DEF Drain
<1>3. ASSUME NEW byte \in Byte, Tick(byte)
      PROVE  \/ T!Return \/ T!Skip \/ T!Back \/ T!Escape
             \/ \E c \in T!Typable : T!Key(c)
             \/ UNCHANGED terminal
  BY <1>3 DEF Tick, Run
<1>4. TestMode \/ TestDisabled \/ Dry \/ TestUSB \/ TestFlag \/ setFlag \/ UNCHANGED vars
        => UNCHANGED terminal
  BY DEF TestMode, TestDisabled, Dry, TestUSB, TestFlag, setFlag, vars
<1>5. \A port \in Port : Receive(port) => UNCHANGED terminal
  BY DEF Receive
<1> QED
  BY <1>1, <1>2, <1>3, <1>4, <1>5 DEF Next, internal_loop, T!Next

(* The main loop drives the terminal by its own operations only.           *)
THEOREM LoopDrivesTerminal == Spec => T!Spec
<1>1. Init => T!Init
  BY DEF Init
<1>2. [Next]_vars => [T!Next]_(T!vars)
  BY TerminalStep
<1> QED
  BY <1>1, <1>2, PTL DEF Spec, T!Spec

(* TerminalProofs speaks of a copy of Terminal of its own (TP), with the   *)
(* constants and the variables of T: the lemmas from here on say that the  *)
(* two are the same.  Its constants are as Terminal assumes.               *)
LEMMA SameAssumption == TP!TerminalAssumption
BY MainLoopAssumption
   DEF T!TerminalAssumption, TP!TerminalAssumption, T!Typable, TP!Typable, T!Name, TP!Name,
       T!NUL, TP!NUL, T!Space, TP!Space, T!Assign, TP!Assign

(* The terminal starts in the same state.                                  *)
LEMMA SameInit == T!Init => TP!Init
BY DEF T!Init, TP!Init, T!Index, TP!Index, T!NUL, TP!NUL, T!Unknown, TP!Unknown

(* The operators of the two copies of the terminal are the same.           *)
LEMMA SameCardinality == \A S : T!Cardinality(S) = TP!Cardinality(S)
BY DEF T!Cardinality, TP!Cardinality

(* The strings of a buffer, its words and the constants are the same.      *)
LEMMA SameStrings ==
  /\ \A b, i : T!StringAt(b, i) = TP!StringAt(b, i)
  /\ \A s : T!Begins(s) = TP!Begins(s)
  /\ \A s, i : T!EndOf(s, i) = TP!EndOf(s, i)
  /\ T!Index = TP!Index /\ T!Unknown = TP!Unknown /\ T!NUL = TP!NUL /\ T!Space = TP!Space
  /\ T!Typable = TP!Typable /\ T!Name = TP!Name
BY DEF T!StringAt, TP!StringAt, T!NUL, TP!NUL, T!Begins, TP!Begins, T!EndOf, TP!EndOf,
       T!Space, TP!Space, T!Index, TP!Index, T!Unknown, TP!Unknown, T!Name, TP!Name,
       T!Typable, TP!Typable

(* The words, in their order, are the same.                                *)
LEMMA SameStarts == \A s : T!Starts(s) = TP!Starts(s) /\ T!Argc(s) = TP!Argc(s)
<1>1. ASSUME NEW s PROVE T!Argc(s) = TP!Argc(s)
  BY SameCardinality, SameStrings DEF T!Argc, TP!Argc
<1>2. ASSUME NEW s PROVE T!Starts(s) = TP!Starts(s)
  BY DEF T!Starts, TP!Starts, T!Begins, TP!Begins, T!Cardinality, TP!Cardinality,
         T!Space, TP!Space
<1> QED
  BY <1>1, <1>2

(* A line is cut at the same places.                                       *)
LEMMA SameCuts == \A s : T!Cuts(s) = TP!Cuts(s)
BY SameStrings, SameStarts DEF T!Cuts, TP!Cuts

(* A name runs the same command.                                           *)
LEMMA SameExecute == \A b, a : T!terminal_execute(b, a) = TP!terminal_execute(b, a)
<1> SUFFICES ASSUME NEW b, NEW a PROVE T!terminal_execute(b, a) = TP!terminal_execute(b, a)
  OBVIOUS
<1> DEFINE name == TP!StringAt(b, 0)
<1>1. T!SelectInSeq(name, LAMBDA c : c = T!Assign)
        = TP!SelectInSeq(name, LAMBDA c : c = TP!Assign)
  BY DEF T!SelectInSeq, TP!SelectInSeq, T!Min, TP!Min, T!Assign, TP!Assign
<1>2. T!terminal_execute(b, a) = TP!terminal_execute(b, a)
  BY <1>1, SameStrings DEF T!terminal_execute, TP!terminal_execute
<1> QED
  BY <1>2

(* The return key does the same.                                           *)
LEMMA SameReturn == T!Return <=> TP!Return
<1>1. \A b, pos : T!terminal_process(b, pos) <=> TP!terminal_process(b, pos)
  BY SameStrings, SameStarts, SameCuts, SameExecute DEF T!terminal_process, TP!terminal_process
<1>2. /\ \A b : T!Restored(b) = TP!Restored(b)
      /\ \A b, pos : T!Terminated(b, pos) = TP!Terminated(b, pos)
  BY SameStrings DEF T!Restored, TP!Restored, T!Terminated, TP!Terminated
<1> QED
  BY <1>1, <1>2 DEF T!Return, TP!Return

(* So does every other key, and the reset.                                 *)
LEMMA SameKeys ==
  /\ T!Back => TP!Back
  /\ T!Escape => TP!Escape
  /\ T!Skip => TP!Skip
  /\ \A c : T!Key(c) => TP!Key(c)
  /\ T!terminal_reset => TP!terminal_reset
<1>1. T!Back => TP!Back
  BY DEF T!Back, TP!Back, T!TooLong, TP!TooLong, T!NUL, TP!NUL, T!Front, TP!Front
<1>2. T!Escape => TP!Escape
  BY DEF T!Escape, TP!Escape, T!history, TP!history
<1>3. T!Skip => TP!Skip
  BY DEF T!Skip, TP!Skip, T!history, TP!history
<1>4. \A c : T!Key(c) => TP!Key(c)
  BY DEF T!Key, TP!Key, T!Forward, TP!Forward, T!TooLong, TP!TooLong, T!NUL, TP!NUL
<1>5. T!terminal_reset => TP!terminal_reset
  BY DEF T!terminal_reset, TP!terminal_reset, T!NUL, TP!NUL, T!Unknown, TP!Unknown
<1> QED
  BY <1>1, <1>2, <1>3, <1>4, <1>5

(* So does a step.                                                         *)
LEMMA SameNext == [T!Next]_(T!vars) => [TP!Next]_(TP!vars)
<1>1. UNCHANGED T!vars => UNCHANGED TP!vars
  BY DEF T!vars, TP!vars, T!history, TP!history
<1>2. T!Next => TP!Next
  BY SameReturn, SameKeys, SameStrings DEF T!Next, TP!Next
<1> QED
  BY <1>1, <1>2

(* A line means the same.                                                  *)
LEMMA SameMeant == \A s : T!Meant(s) = TP!Meant(s)
<1> SUFFICES ASSUME NEW s PROVE T!Meant(s) = TP!Meant(s)
  OBVIOUS
<1>1. \A x, y : T!IsPrefix(x, y) <=> TP!IsPrefix(x, y)
  BY DEF T!IsPrefix, TP!IsPrefix
<1> QED
  BY SameStrings, SameStarts, <1>1
     DEF T!Meant, TP!Meant, T!Assign, TP!Assign, T!IsPrefix, TP!IsPrefix

(* The types are the same.                                                 *)
LEMMA SameTypeOK == TP!TypeOK => T!TypeOK
BY SameStrings DEF T!TypeOK, TP!TypeOK, T!TooLong, TP!TooLong

(* What is proved of the terminal holds of the one in the main loop.       *)
LEMMA TerminalSpec == Spec => TP!Spec
<1>1. Init => TP!Init
  BY SameInit DEF Init
<1>2. [Next]_vars => [TP!Next]_(TP!vars)
  BY TerminalStep, SameNext
<1> QED
  BY <1>1, <1>2, PTL DEF Spec, TP!Spec

(* RunsTyped says the same of both.                                        *)
LEMMA TypedStep == TP!RunsTyped => T!RunsTyped
<1>1. [TP!Return /\ typed # <<>> /\ typed # TP!TooLong /\ typed[1] # TP!Space
        => ran' = TP!Meant(typed)]_(TP!vars)
      => [T!Return /\ typed # <<>> /\ typed # T!TooLong /\ typed[1] # T!Space
        => ran' = T!Meant(typed)]_(T!vars)
  <2>1. UNCHANGED TP!vars => UNCHANGED T!vars
    BY DEF T!vars, TP!vars, T!history, TP!history
  <2>2. T!TooLong = TP!TooLong
    BY DEF T!TooLong, TP!TooLong, T!NUL, TP!NUL
  <2> QED
    BY <2>1, <2>2, SameReturn, SameStrings, SameMeant
<1> QED
  BY <1>1, PTL DEF T!RunsTyped, TP!RunsTyped

(* So does RunsAgainUntouched.                                             *)
LEMMA AgainStep == TP!RunsAgainUntouched => T!RunsAgainUntouched
<1>1. [TP!Return /\ typed = <<>> /\ terminal_last_ok /\ ~touched /\ ~ran.assigned
         => ran' = ran]_(TP!vars)
      => [T!Return /\ typed = <<>> /\ terminal_last_ok /\ ~touched /\ ~ran.assigned
         => ran' = ran]_(T!vars)
  <2>1. UNCHANGED TP!vars => UNCHANGED T!vars
    BY DEF T!vars, TP!vars, T!history, TP!history
  <2> QED
    BY <2>1, SameReturn
<1> QED
  BY <1>1, PTL DEF T!RunsAgainUntouched, TP!RunsAgainUntouched

(* RunsTyped, in the main loop: the return key runs the line that was      *)
(* typed, when rhock mode, another port or a reset come between its keys.  *)
THEOREM LoopRunsTyped == Spec => T!RunsTyped
<1>1. TP!Spec => TP!RunsTyped
  BY SameAssumption, TP!TerminalRunsTyped
<1> QED
  BY <1>1, TerminalSpec, TypedStep, PTL

(* RunsAgainUntouched, in the main loop: a return on an empty line runs    *)
(* the last command again; the reset at the end of rhock mode forgets it.  *)
THEOREM LoopRunsAgain == Spec => T!RunsAgainUntouched
<1>1. TP!Spec => TP!RunsAgainUntouched
  BY SameAssumption, TP!TerminalRunsAgain
<1> QED
  BY <1>1, TerminalSpec, AgainStep, PTL

(* Where the loop is, and what it waits for.                               *)
PlaceOK ==
  /\ isUSB \in BOOLEAN /\ flag \in BOOLEAN /\ available \subseteq Port
  /\ at \in {"rhock", "drain", "terminal", "tick", "usb", "flag"}

(* A step keeps these.                                                     *)
LEMMA PlaceStep == PlaceOK /\ [Next]_vars => PlaceOK'
<1> SUFFICES ASSUME PlaceOK, [Next]_vars PROVE PlaceOK'
  OBVIOUS
<1> USE DEF PlaceOK, Port
<1>1. CASE TestMode \/ TestDisabled \/ Dry \/ TestFlag \/ setFlag \/ UNCHANGED vars
  BY <1>1 DEF TestMode, TestDisabled, Dry, TestFlag, setFlag, vars, Go
<1>2. CASE TestUSB
  BY <1>2, Zenon DEF TestUSB, Go
<1>3. ASSUME NEW byte \in Byte, Drain(byte) PROVE PlaceOK'
  BY <1>3 DEF Drain, Reads
<1>4. ASSUME NEW byte \in Byte, Tick(byte) PROVE PlaceOK'
  <2>1. available' \subseteq Port /\ UNCHANGED <<at, flag>>
    BY <1>4 DEF Tick, Reads
  <2>2. isUSB' \in BOOLEAN
    BY <1>4, Zenon DEF Tick, Run
  <2> QED
    BY <2>1, <2>2
<1>5. ASSUME NEW port \in Port, Receive(port) PROVE PlaceOK'
  BY <1>5 DEF Receive
<1> QED
  BY <1>1, <1>2, <1>3, <1>4, <1>5 DEF Next, internal_loop

(* TypeOK of the main loop, with that of its terminal: whatever comes from *)
(* the ports, no character is written beyond the line, and the position in *)
(* the exit string is one that Compared tells apart.                       *)
THEOREM LoopTypeOK == Spec => []TypeOK
<1>1. Init => PlaceOK
  BY DEF Init, PlaceOK
<1>2. Spec => []PlaceOK
  BY <1>1, PlaceStep, PTL DEF Spec
<1>3. TP!Spec => []TP!TypeOK
  BY SameAssumption, TP!TerminalTypeOK
<1>4. IInv /\ PlaceOK /\ T!TypeOK => TypeOK
  BY DEF IInv, LoopOK, OffInMode, PlaceOK, TypeOK
<1> QED
  BY <1>2, <1>3, <1>4, TerminalSpec, SameTypeOK, Invariant, PTL
====
