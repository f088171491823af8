----------------------------- MODULE FlashStore -----------------------------
(***************************************************************************)
(* Writing to the flash of the board (flash_write.cpp), where the programs *)
(* of the Rhock virtual machine are kept (store.cpp): page by page, each   *)
(* erased and then programmed word by word, in two halves, by commands to  *)
(* the controller of the flash.  Power may be lost at any time; what was   *)
(* being erased or programmed then holds anything.                         *)
(*                                                                         *)
(* A half word is ERASED or one of a few other values.  An address is the  *)
(* number of a page, and n counts pages where the code counts bytes.       *)
(***************************************************************************)
EXTENDS Integers

CONSTANTS
  PAGES,    (* 10                                                           *)
  WORDS,    (* in a page: 256                                               *)
  Half,     (* the half words                                               *)
  ERASED,   (* the one with all bits set                                    *)
  Sizes,    (* the sizes that are written, in bytes                         *)
  Cuts,     (* how often power is lost, at most                             *)
  Torn      (* the content of a page whose writing did not end              *)

PAGE_SIZE == 4 * WORDS
Page == 0 .. PAGES - 1
Index == 0 .. WORDS - 1
Word == [low : Half, high : Half]
Blank == [low |-> ERASED, high |-> ERASED]

ASSUME FlashStoreAssumption ==
  /\ PAGES \in Nat \ {0} /\ WORDS \in Nat \ {0} /\ Cuts \in Nat
  /\ ERASED \in Half
  /\ Sizes \subseteq 1 .. PAGES * PAGE_SIZE
  /\ Torn \notin [Index -> Word]

VARIABLES
  flash,               (* the words of each page                            *)
  CR,                  (* what is set in the register of that name          *)
  pc,                  (* where flash_write is                              *)
  addr, data, size,    (* its arguments; addr as a page                     *)
  n, i, rwmVal,        (* its locals, and that of flash_write_word          *)
  torn,                (* history: the pages whose writing has not ended    *)
  cuts                 (* how often power was lost                          *)

arguments == <<addr, data, size>>
vars == <<flash, CR, pc, arguments, n, i, rwmVal, torn, cuts>>

At(label) == pc = label
Go(label) == pc' = label

None == [k \in {} |-> Blank]

Init ==
  /\ flash \in [Page -> [Index -> Word]]
  /\ CR = {"LOCK"}
  /\ pc = "idle"
  /\ addr = 0 /\ data = None /\ size = 0
  /\ n = 0 /\ i = 0 /\ rwmVal = {}
  /\ torn = {} /\ cuts = 0

-----------------------------------------------------------------------------
(* The flash.  A half word that is not erased keeps its value.             *)
page == addr + n

Programmed(half, value) ==
  IF CR = {"PG"} /\ half = ERASED THEN value ELSE half

Erases == {"PER", "STRT"} \subseteq CR /\ "LOCK" \notin CR

(* The words that are read for a size, the last one whole.                 *)
Read(bytes) == 0 .. (bytes + 3) \div 4 - 1

flash_write(first, bytes, words) ==
  /\ At("idle")
  /\ addr' = first /\ size' = bytes /\ data' = words
  /\ n' = 0
  /\ CR' = CR \ {"LOCK"}
  /\ Go("page")
  /\ UNCHANGED <<flash, i, rwmVal, torn, cuts>>

Stop == addr' = 0 /\ size' = 0 /\ data' = None /\ n' = 0 /\ i' = 0 /\ rwmVal' = {}

(* The next page, or flash_lock.                                           *)
NextPage ==
  /\ At("page")
  /\ IF n * PAGE_SIZE < size
     THEN /\ CR' = CR \cup {"PER"}
          /\ Go("start")
          /\ UNCHANGED <<arguments, n, i, rwmVal>>
     ELSE CR' = {"LOCK"} /\ Go("idle") /\ Stop
  /\ UNCHANGED <<flash, torn, cuts>>

StartErase ==
  /\ At("start") /\ Go("erase")
  /\ CR' = CR \cup {"STRT"}
  /\ torn' = torn \cup {page}
  /\ UNCHANGED <<flash, arguments, n, i, rwmVal, cuts>>

(* The controller clears STRT when it has erased the page.                 *)
flash_erase_page ==
  /\ At("erase") /\ Go("words")
  /\ flash' = IF Erases THEN [flash EXCEPT ![page] = [k \in Index |-> Blank]] ELSE flash
  /\ CR' = CR \ {"PER", "STRT"}
  /\ i' = 0
  /\ UNCHANGED <<arguments, n, rwmVal, torn, cuts>>

(* Mutant: what does not fill a word is left out.                          *)
pageWords_Whole ==
  LET words == (size - n * PAGE_SIZE) \div 4
  IN  IF words > WORDS THEN WORDS ELSE words

pageWords ==
  LET pageBytes == size - n * PAGE_SIZE
      words == pageBytes \div 4 + (IF pageBytes % 4 = 0 THEN 0 ELSE 1)
  IN  IF words > WORDS THEN WORDS ELSE words

(* The beginning of flash_write_word, or the end of the page.              *)
NextWord ==
  /\ At("words")
  /\ IF i < pageWords
     THEN /\ rwmVal' = CR /\ CR' = {"PG"}
          /\ Go("high")
          /\ UNCHANGED <<n, i, torn>>
     ELSE /\ n' = n + 1
          /\ torn' = torn \ {page}
          /\ i' = 0 /\ rwmVal' = {}
          /\ Go("page")
          /\ UNCHANGED CR
  /\ UNCHANGED <<flash, arguments, cuts>>

word == data[n * WORDS + i]

ProgramHigh ==
  /\ At("high") /\ Go("low")
  /\ flash' = [flash EXCEPT ![page][i].high = Programmed(@, word.high)]
  /\ UNCHANGED <<CR, arguments, n, i, rwmVal, torn, cuts>>

ProgramLow ==
  /\ At("low") /\ Go("restore")
  /\ flash' = [flash EXCEPT ![page][i].low = Programmed(@, word.low)]
  /\ UNCHANGED <<CR, arguments, n, i, rwmVal, torn, cuts>>

(* What flash_write_word returns is ignored.                               *)
Restore ==
  /\ At("restore") /\ Go("words")
  /\ CR' = rwmVal \ {"PG"}
  /\ i' = i + 1
  /\ UNCHANGED <<flash, arguments, n, rwmVal, torn, cuts>>

-----------------------------------------------------------------------------
(* Power is lost.                                                          *)
Cut ==
  /\ cuts < Cuts /\ cuts' = cuts + 1
  /\ \/ pc \notin {"erase", "high", "low"} /\ flash' = flash
     \/ At("erase") /\ \E rest \in [Index -> Word] : flash' = [flash EXCEPT ![page] = rest]
     \/ At("high") /\ \E half \in Half : flash' = [flash EXCEPT ![page][i].high = half]
     \/ At("low") /\ \E half \in Half : flash' = [flash EXCEPT ![page][i].low = half]
  /\ CR' = {"LOCK"} /\ Go("idle") /\ Stop
  /\ UNCHANGED torn

Next ==
  \/ \E first \in Page, bytes \in Sizes :
       /\ bytes <= (PAGES - first) * PAGE_SIZE
       /\ \E words \in [Read(bytes) -> Word] : flash_write(first, bytes, words)
  \/ NextPage \/ StartErase \/ flash_erase_page
  \/ NextWord \/ ProgramHigh \/ ProgramLow \/ Restore
  \/ Cut

Spec == Init /\ [][Next]_vars

-----------------------------------------------------------------------------
(* Every variable keeps its type; in particular nothing is read beyond the *)
(* data, nor written beyond the flash.                                     *)
TypeOK ==
  /\ flash \in [Page -> [Index -> Word]]
  /\ CR \subseteq {"LOCK", "PG", "PER", "STRT"} /\ rwmVal \subseteq {"LOCK", "PG", "PER", "STRT"}
  /\ pc \in {"idle", "page", "start", "erase", "words", "high", "low", "restore"}
  /\ addr \in Page /\ size \in Nat /\ n \in Nat /\ i \in 0 .. WORDS
  /\ data \in [Read(size) -> Word]
  /\ pc \notin {"idle", "page"} => page \in Page
  /\ pc \in {"high", "low"} => i \in Index /\ n * WORDS + i \in Read(size)
  /\ torn \subseteq Page /\ cuts \in 0 .. Cuts

(* The pages, and what they are to hold.                                   *)
pages == [p \in Page |-> IF p \in torn THEN Torn ELSE flash[p]]

Asked == {p \in Page : addr <= p /\ (p - addr) * PAGE_SIZE < size}

Wanted(p) ==
  [k \in Index |-> IF (p - addr) * WORDS + k \in Read(size)
                   THEN data[(p - addr) * WORDS + k] ELSE Blank]

wanted == [p \in Asked |-> Wanted(p)]

(* Whatever the flash held, and whenever power is lost: only the pages of  *)
(* the call change, one at a time, from what they held to torn to what was *)
(* to be written, and a call that ends has written all of them.            *)
Store == INSTANCE PageStore WITH Content <- [Index -> Word]
IsStore == Store!Spec
=============================================================================
