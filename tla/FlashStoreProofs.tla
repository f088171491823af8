-------------------------- MODULE FlashStoreProofs --------------------------
(* That FlashStore implements PageStore, for any number of pages, words in *)
(* a page, sizes, half words and losses of power.                          *)
EXTENDS FlashStore, TLAPS

InWord == {"high", "low", "restore"}
InWords == {"words"} \cup InWord
Labels == {"idle", "page", "start", "erase"} \cup InWords

Types ==
  /\ flash \in [Page -> [Index -> Word]]
  /\ pc \in Labels
  /\ addr \in Page /\ size \in Nat /\ n \in Nat /\ i \in Nat
  /\ data \in [Read(size) -> Word]
  /\ torn \subseteq Page /\ cuts \in 0 .. Cuts

(* What the register of the controller holds.                              *)
Registers ==
  /\ pc = "idle" => CR = {"LOCK"}
  /\ pc \in {"page", "words"} => CR = {}
  /\ pc = "start" => CR = {"PER"}
  /\ pc = "erase" => CR = {"PER", "STRT"}
  /\ pc \in InWord => CR = {"PG"}
  /\ rwmVal = {}

(* The call, and how far it has come.                                      *)
Call ==
  /\ pc = "idle" => size = 0 /\ data = None
  /\ size <= (PAGES - addr) * PAGE_SIZE
  /\ pc # "idle" => size > 0
  /\ pc \notin {"idle", "page"} => n * PAGE_SIZE < size
  /\ pc \in InWord => i < pageWords
  /\ i <= WORDS

(* The pages that are done, and the one that is not.                       *)
Done == \A p \in Asked : p < page => p \notin torn /\ flash[p] = Wanted(p)
Open == pc \in InWords \cup {"erase"} => page \in torn

(* The words of the page: those that are programmed, the one that is being *)
(* programmed, and those that are erased.                                  *)
Programming ==
  pc \in InWords =>
    \A k \in Index :
      /\ k < i => flash[page][k] = Wanted(page)[k]
      /\ k > i => flash[page][k] = Blank
      /\ k = i =>
           /\ pc \in {"words", "high"} => flash[page][k] = Blank
           /\ pc = "low" => flash[page][k] = [low |-> ERASED, high |-> word.high]
           /\ pc = "restore" => flash[page][k] = word

IInv == Types /\ Registers /\ Call /\ Done /\ Open /\ Programming

-----------------------------------------------------------------------------
(* Bytes, words and pages.                                                 *)
LEMMA Constants ==
  /\ PAGES \in Nat \ {0} /\ WORDS \in Nat \ {0} /\ PAGE_SIZE = 4 * WORDS
  /\ PAGE_SIZE \in Nat \ {0} /\ Blank \in Word /\ ERASED \in Half
BY FlashStoreAssumption DEF PAGE_SIZE, Blank, Word

LEMMA Times ==
  ASSUME NEW k \in Nat
  PROVE  /\ k * WORDS \in Nat
         /\ k * PAGE_SIZE = 4 * (k * WORDS)
         /\ (k + 1) * WORDS = k * WORDS + WORDS
BY Constants DEF PAGE_SIZE

LEMMA Monotone ==
  ASSUME NEW a \in Nat, NEW b \in Nat, a < b
  PROVE  a * WORDS + WORDS <= b * WORDS
<1>1. PICK d \in Nat : b = a + 1 + d
  <2>1. b - a - 1 \in Nat /\ b = a + 1 + (b - a - 1)
    OBVIOUS
  <2> QED
    BY <2>1
<1>2. b * WORDS = a * WORDS + WORDS + d * WORDS
  BY <1>1, Constants
<1>3. d * WORDS \in Nat /\ a * WORDS \in Nat
  BY Times
<1> QED
  BY <1>2, <1>3, Constants

(* A page that holds bytes of the call is a page of the flash.             *)
LEMMA InFlash ==
  ASSUME NEW first \in Page, NEW bytes \in Nat, bytes <= (PAGES - first) * PAGE_SIZE,
         NEW k \in Nat, k * PAGE_SIZE < bytes
  PROVE  first + k \in Page
<1>1. PAGES - first \in Nat
  BY Constants DEF Page
<1>2. CASE PAGES - first <= k
  <2>1. (PAGES - first) * WORDS <= k * WORDS
    <3>1. CASE PAGES - first = k
      BY <3>1, Times
    <3>2. CASE PAGES - first < k
      <4>1. (PAGES - first) * WORDS + WORDS <= k * WORDS
        BY <1>1, <3>2, Monotone
      <4>2. (PAGES - first) * WORDS \in Nat /\ k * WORDS \in Nat
        BY <1>1, Times
      <4> QED
        BY <4>1, <4>2, Constants
    <3> QED
      BY <1>1, <1>2, <3>1, <3>2
  <2>2. /\ (PAGES - first) * PAGE_SIZE = 4 * ((PAGES - first) * WORDS)
        /\ k * PAGE_SIZE = 4 * (k * WORDS)
        /\ (PAGES - first) * WORDS \in Nat /\ k * WORDS \in Nat
    BY <1>1, Times
  <2> QED
    BY <2>1, <2>2
<1>3. CASE k < PAGES - first
  BY <1>1, <1>3, Constants DEF Page
<1> QED
  BY <1>1, <1>2, <1>3

(* The number of words that are programmed of a page.                      *)
LEMMA PageWords ==
  ASSUME size \in Nat, n \in Nat, n * PAGE_SIZE < size
  PROVE  /\ pageWords \in 1 .. WORDS
         /\ \A k \in Index : n * WORDS + k \in Read(size) <=> k < pageWords
<1> DEFINE s == n * WORDS
           x == size - 4 * s
           w == x \div 4 + (IF x % 4 = 0 THEN 0 ELSE 1)
<1>1. s \in Nat /\ n * PAGE_SIZE = 4 * s /\ WORDS \in Nat \ {0}
  BY Times, Constants
<1>2. pageWords = IF w > WORDS THEN WORDS ELSE w
  BY <1>1 DEF pageWords
<1>3. x \in Nat \ {0} /\ size = x + 4 * s
  BY <1>1
<1> HIDE DEF s, x
<1>4. w \in Nat \ {0} /\ \A k \in Nat : k < w <=> 4 * k < x
  BY <1>3
<1>5. \A k \in Nat : s + k \in Read(size) <=> 4 * k < x
  <2> TAKE k \in Nat
  <2>1. s + k \in Read(size) <=> s + k <= (size + 3) \div 4 - 1
    BY <1>1, <1>3 DEF Read
  <2>2. (size + 3) \div 4 = (x + 3) \div 4 + s
    BY <1>1, <1>3
  <2>3. k < (x + 3) \div 4 <=> 4 * k < x
    BY <1>3
  <2>4. (x + 3) \div 4 \in Int
    BY <1>3
  <2> HIDE DEF Read
  <2> QED
    BY <1>1, <2>1, <2>2, <2>3, <2>4
<1> HIDE DEF w
<1>6. pageWords \in 1 .. WORDS
  BY <1>1, <1>2, <1>4
<1>7. ASSUME NEW k \in Index
      PROVE  s + k \in Read(size) <=> k < pageWords
  <2>1. k \in Nat /\ k < WORDS
    BY <1>1 DEF Index
  <2> QED
    BY <1>1, <1>2, <1>4, <1>5, <2>1
<1> QED
  BY <1>6, <1>7 DEF s

(* The page that is being written is one of the call.                      *)
LEMMA Current ==
  ASSUME IInv, pc \notin {"idle", "page"}
  PROVE  /\ page \in Page /\ page \in Asked /\ page - addr = n
         /\ pageWords \in 1 .. WORDS
         /\ Wanted(page) \in [Index -> Word]
         /\ \A k \in Index : Wanted(page)[k] = IF k < pageWords THEN data[n * WORDS + k] ELSE Blank
         /\ i < pageWords => i \in Index /\ word \in Word /\ Wanted(page)[i] = word
<1>1. /\ addr \in Page /\ size \in Nat /\ n \in Nat /\ i \in Nat
      /\ size <= (PAGES - addr) * PAGE_SIZE /\ n * PAGE_SIZE < size
      /\ data \in [Read(size) -> Word]
  BY DEF IInv, Types, Call
<1>2. page \in Page
  BY <1>1, InFlash DEF page
<1>3. addr \in Int /\ page - addr = n /\ addr <= page
  BY <1>1, Constants DEF page, Page
<1>4. page \in Asked
  BY <1>1, <1>2, <1>3 DEF Asked
<1>5. /\ pageWords \in 1 .. WORDS
      /\ \A k \in Index : n * WORDS + k \in Read(size) <=> k < pageWords
  BY <1>1, PageWords
<1>6. \A k \in Index : Wanted(page)[k] = IF k < pageWords THEN data[n * WORDS + k] ELSE Blank
  BY <1>3, <1>5 DEF Wanted
<1>7. \A k \in Index : k < pageWords => data[n * WORDS + k] \in Word
  BY <1>1, <1>5
<1>8. Wanted(page) \in [Index -> Word]
  <2>1. Wanted(page) = [k \in Index |-> Wanted(page)[k]]
    BY DEF Wanted
  <2>2. \A k \in Index : Wanted(page)[k] \in Word
    BY <1>6, <1>7, Constants
  <2> QED
    BY <2>1, <2>2
<1>9. ASSUME i < pageWords PROVE i \in Index /\ word \in Word /\ Wanted(page)[i] = word
  <2>1. i \in Index
    BY <1>1, <1>5, <1>9, Constants DEF Index
  <2> QED
    BY <1>6, <1>7, <1>9, <2>1 DEF word
<1> QED
  BY <1>2, <1>3, <1>4, <1>5, <1>6, <1>8, <1>9

(* Pages that are done stay done while nothing but the page that is being  *)
(* written changes.                                                        *)
LEMMA KeepsDone ==
  ASSUME IInv, pc \notin {"idle", "page"}, UNCHANGED <<arguments, n>>,
         torn' \subseteq torn \cup {page},
         \A p \in Page : p # page => flash'[p] = flash[p]
  PROVE  Done'
<1>1. Asked' = Asked /\ page' = page /\ \A p : Wanted(p)' = Wanted(p)
  BY DEF Asked, page, Wanted, arguments
<1>2. ASSUME NEW p \in Asked, p < page
      PROVE  p \notin torn' /\ flash'[p] = Wanted(p)
  <2>1. p \in Page /\ p # page
    <3>1. p \in Page /\ page \in Page
      BY Current DEF Asked
    <3> QED
      BY <1>2, <3>1, Constants DEF Page
  <2>2. p \notin torn /\ flash[p] = Wanted(p)
    BY <1>2 DEF IInv, Done
  <2> QED
    BY <2>1, <2>2
<1> QED
  BY <1>1, <1>2 DEF Done

-----------------------------------------------------------------------------
(* The initial states, and each step.                                      *)
LEMMA Initially == Init => IInv
<1> SUFFICES ASSUME Init PROVE IInv
  OBVIOUS
<1>1. /\ PAGES \in Nat \ {0} /\ PAGE_SIZE \in Nat \ {0} /\ WORDS \in Nat \ {0}
      /\ Cuts \in Nat /\ 0 \in Page
  BY Constants, FlashStoreAssumption DEF Page
<1>2. Read(0) = {}
  BY DEF Read
<1>3. data \in [Read(size) -> Word]
  BY <1>2 DEF Init, None
<1>4. Types
  BY <1>1, <1>3 DEF Init, Types, Labels
<1>5. Asked = {}
  <2> SUFFICES ASSUME NEW p \in Page, addr <= p, (p - addr) * PAGE_SIZE < size PROVE FALSE
    BY DEF Asked
  <2>1. addr = 0 /\ size = 0 /\ p \in Nat /\ p - addr = p
    BY DEF Init, Page
  <2>2. p * PAGE_SIZE \in Nat
    BY <1>1, <2>1
  <2> QED
    BY <2>1, <2>2
<1>6. Call
  <2>1. (PAGES - addr) * PAGE_SIZE \in Nat
    BY <1>1 DEF Init
  <2> QED
    BY <1>1, <2>1 DEF Init, Call, InWord
<1> QED
  BY <1>4, <1>5, <1>6 DEF IInv, Init, Registers, Done, Open, Programming, InWord, InWords

LEMMA WriteStep ==
  ASSUME IInv, NEW first \in Page, NEW bytes \in Sizes,
         bytes <= (PAGES - first) * PAGE_SIZE,
         NEW words \in [Read(bytes) -> Word], flash_write(first, bytes, words)
  PROVE  IInv'
<1>1. bytes \in Nat \ {0} /\ PAGE_SIZE \in Nat \ {0}
  BY FlashStoreAssumption, Constants
<1>2. Types'
  BY <1>1 DEF IInv, Types, flash_write, Labels, Go
<1>3. Registers'
  BY DEF IInv, Registers, flash_write, Go, At, InWord
<1>4. Call'
  BY <1>1 DEF IInv, Call, flash_write, Go, InWord
<1>5. Done'
  <2> SUFFICES ASSUME NEW p \in Asked', p < page' PROVE FALSE
    BY DEF Done
  <2>1. addr' = first /\ page' = first /\ p \in Page /\ addr' <= p
    BY Constants DEF flash_write, Asked, page, Page
  <2> QED
    BY <2>1 DEF Page
<1> QED
  BY <1>2, <1>3, <1>4, <1>5 DEF IInv, Open, Programming, flash_write, Go, InWords, InWord

(* What Stop leaves behind.                                                *)
LEMMA Stopped ==
  ASSUME IInv, Stop, pc' = "idle", CR' = {"LOCK"}, torn' \subseteq Page, cuts' \in 0 .. Cuts,
         flash' \in [Page -> [Index -> Word]]
  PROVE  IInv' /\ Asked' = {}
<1>1. /\ PAGES \in Nat \ {0} /\ PAGE_SIZE \in Nat \ {0} /\ WORDS \in Nat \ {0} /\ 0 \in Page
  BY Constants DEF Page
<1>2. addr' = 0 /\ size' = 0 /\ data' = None /\ n' = 0 /\ i' = 0 /\ rwmVal' = {}
  BY DEF Stop
<1>3. data' \in [Read(size') -> Word]
  BY <1>2 DEF Read, None
<1>4. Types'
  BY <1>1, <1>2, <1>3 DEF Types, Labels
<1>5. Asked' = {}
  <2> SUFFICES ASSUME NEW p \in Page, addr' <= p, (p - addr') * PAGE_SIZE < size' PROVE FALSE
    BY DEF Asked
  <2>1. p \in Nat /\ p - addr' = p
    BY <1>2 DEF Page
  <2>2. p * PAGE_SIZE \in Nat
    BY <1>1, <2>1
  <2> QED
    BY <1>2, <2>1, <2>2
<1>6. Call'
  <2>1. (PAGES - addr') * PAGE_SIZE \in Nat
    BY <1>1, <1>2
  <2> QED
    BY <1>1, <1>2, <2>1 DEF Call, InWord
<1>7. Registers' /\ Done' /\ Open' /\ Programming'
  BY <1>2, <1>5 DEF Registers, Done, Open, Programming, InWord, InWords
<1> QED
  BY <1>4, <1>5, <1>6, <1>7 DEF IInv

LEMMA NextPageStep ==
  ASSUME IInv, NextPage
  PROVE  /\ IInv'
         /\ n * PAGE_SIZE >= size => \A p \in Asked : p \notin torn /\ flash[p] = Wanted(p)
<1>0. /\ addr \in Nat /\ addr \in Page /\ n \in Nat /\ size \in Nat /\ PAGE_SIZE \in Nat \ {0}
      /\ pc = "page" /\ UNCHANGED <<flash, torn, cuts>>
  BY Constants DEF IInv, Types, Page, NextPage, At
<1>1. CASE n * PAGE_SIZE < size
  <2>1. pc' = "start" /\ CR' = {"PER"} /\ UNCHANGED <<arguments, n, i, rwmVal>>
    BY <1>1 DEF NextPage, Go, At, IInv, Registers
  <2>2. Asked' = Asked /\ page' = page /\ \A p : Wanted(p)' = Wanted(p)
    BY <2>1 DEF Asked, page, Wanted, arguments
  <2>3. Types'
    BY <1>0, <2>1 DEF IInv, Types, Labels, arguments
  <2>4. Registers' /\ Call'
    BY <1>0, <1>1, <2>1 DEF IInv, Registers, Call, InWord, arguments
  <2>5. Done' /\ Open' /\ Programming'
    BY <1>0, <2>1, <2>2 DEF IInv, Done, Open, Programming, InWord, InWords
  <2> QED
    BY <1>0, <1>1, <2>3, <2>4, <2>5 DEF IInv
<1>2. CASE ~(n * PAGE_SIZE < size)
  <2>1. pc' = "idle" /\ CR' = {"LOCK"} /\ Stop
    BY <1>2 DEF NextPage, Go
  <2>2. IInv'
    BY <1>0, <2>1, Stopped DEF IInv, Types
  <2>3. ASSUME NEW p \in Asked PROVE p < page
    <3>1. p \in Page /\ addr <= p /\ (p - addr) * PAGE_SIZE < size /\ p \in Nat
      BY <2>3 DEF Asked, Page
    <3>2. PICK d \in Nat : d = p - addr
      BY <1>0, <3>1
    <3>3. CASE n <= d
      <4>1. n * WORDS <= d * WORDS
        <5>1. CASE n = d
          BY <5>1, <1>0, Times
        <5>2. CASE n < d
          <6>1. n * WORDS + WORDS <= d * WORDS
            BY <1>0, <3>2, <5>2, Monotone
          <6>2. n * WORDS \in Nat /\ d * WORDS \in Nat
            BY <1>0, <3>2, Times
          <6> QED
            BY <6>1, <6>2, Constants
        <5> QED
          BY <1>0, <3>2, <3>3, <5>1, <5>2
      <4>2. /\ n * PAGE_SIZE = 4 * (n * WORDS) /\ d * PAGE_SIZE = 4 * (d * WORDS)
            /\ n * WORDS \in Nat /\ d * WORDS \in Nat
        BY <1>0, <3>2, Times
      <4>3. d * PAGE_SIZE < size
        BY <3>1, <3>2
      <4> QED
        BY <1>0, <1>2, <4>1, <4>2, <4>3
    <3>4. CASE d < n
      BY <1>0, <3>1, <3>2, <3>4 DEF page
    <3> QED
      BY <1>0, <3>2, <3>3, <3>4
  <2>4. \A p \in Asked : p \notin torn /\ flash[p] = Wanted(p)
    BY <2>3 DEF IInv, Done
  <2> QED
    BY <2>2, <2>4
<1> QED
  BY <1>1, <1>2, <1>0

LEMMA StartEraseStep ==
  ASSUME IInv, StartErase
  PROVE  IInv' /\ page \in Asked
<1>1. /\ pc = "start" /\ pc' = "erase" /\ CR' = CR \cup {"STRT"} /\ torn' = torn \cup {page}
      /\ UNCHANGED <<flash, arguments, n, i, rwmVal, cuts>>
  BY DEF StartErase, At, Go
<1>2. page \in Page /\ page \in Asked
  BY <1>1, Current
<1>3. Types'
  BY <1>1, <1>2 DEF IInv, Types, Labels, arguments
<1>4. Registers'
  BY <1>1 DEF IInv, Registers, InWord
<1>5. Call'
  BY <1>1 DEF IInv, Call, arguments, InWord
<1>6. Done'
  BY <1>1, KeepsDone
<1>7. Open' /\ Programming'
  BY <1>1 DEF Open, Programming, InWord, InWords, page, arguments
<1> QED
  BY <1>2, <1>3, <1>4, <1>5, <1>6, <1>7 DEF IInv

LEMMA EraseStep ==
  ASSUME IInv, flash_erase_page
  PROVE  /\ IInv' /\ UNCHANGED <<arguments, n, torn, cuts>> /\ page \in torn /\ pc' # "idle"
         /\ \A p \in Page : p # page => flash'[p] = flash[p]
<1>1. /\ pc = "erase" /\ pc' = "words" /\ CR' = CR \ {"PER", "STRT"} /\ i' = 0
      /\ UNCHANGED <<arguments, n, rwmVal, torn, cuts>>
  BY DEF flash_erase_page, At, Go
<1>2. page \in Page /\ pageWords \in 1 .. WORDS /\ page' = page
  BY <1>1, Current DEF page, arguments
<1>3. flash' = [flash EXCEPT ![page] = [k \in Index |-> Blank]]
  BY <1>1 DEF flash_erase_page, Erases, IInv, Registers
<1>4. flash \in [Page -> [Index -> Word]] /\ [k \in Index |-> Blank] \in [Index -> Word]
  BY Constants DEF IInv, Types
<1>5. /\ flash' \in [Page -> [Index -> Word]]
      /\ flash'[page] = [k \in Index |-> Blank]
      /\ \A p \in Page : p # page => flash'[p] = flash[p]
  BY <1>2, <1>3, <1>4
<1>6. Types'
  BY <1>1, <1>5 DEF IInv, Types, Labels, InWords, arguments
<1>7. Registers'
  BY <1>1 DEF IInv, Registers, InWord
<1>8. Call'
  BY <1>1, Constants DEF IInv, Call, arguments, InWord
<1>9. Done'
  BY <1>1, <1>5, KeepsDone
<1>10. page \in torn /\ Open'
  BY <1>1, <1>2 DEF IInv, Open
<1>11. Programming'
  BY <1>1, <1>2, <1>5 DEF Programming, Index, InWord
<1> QED
  BY <1>1, <1>5, <1>6, <1>7, <1>8, <1>9, <1>10, <1>11 DEF IInv

LEMMA NextWordStep ==
  ASSUME IInv, NextWord
  PROVE  /\ IInv' /\ pc' # "idle" /\ UNCHANGED <<flash, arguments, cuts>>
         /\ \/ UNCHANGED torn
            \/ /\ page \in torn /\ torn' = torn \ {page}
               /\ page \in Asked /\ flash[page] = Wanted(page)
<1>1. pc = "words" /\ UNCHANGED <<flash, arguments, cuts>>
  BY DEF NextWord, At
<1>2. /\ page \in Page /\ page \in Asked /\ page - addr = n
      /\ pageWords \in 1 .. WORDS
      /\ Wanted(page) \in [Index -> Word]
      /\ \A k \in Index : Wanted(page)[k] = IF k < pageWords THEN data[n * WORDS + k] ELSE Blank
      /\ i < pageWords => i \in Index /\ word \in Word /\ Wanted(page)[i] = word
  BY <1>1, Current
<1>3. page \in torn /\ i \in Nat /\ n \in Nat /\ addr \in Page
  BY <1>1 DEF IInv, Open, InWords, Types
<1>4. CASE i < pageWords
  <2>1. /\ pc' = "high" /\ rwmVal' = CR /\ CR' = {"PG"}
        /\ UNCHANGED <<n, i, torn>>
    BY <1>4 DEF NextWord, Go
  <2>2. page' = page /\ pageWords' = pageWords /\ word' = word /\ Asked' = Asked
        /\ \A p : Wanted(p)' = Wanted(p)
    BY <1>1, <2>1 DEF page, pageWords, word, Asked, Wanted, arguments
  <2>3. Types'
    BY <1>1, <2>1 DEF IInv, Types, Labels, InWords, InWord, arguments
  <2>4. Registers'
    BY <1>1, <2>1 DEF IInv, Registers, InWord
  <2>5. Call'
    BY <1>1, <1>4, <2>1, <2>2 DEF IInv, Call, arguments, InWord
  <2>6. Done' /\ Open'
    BY <1>1, <1>3, <2>1, <2>2 DEF IInv, Done, Open
  <2>7. Programming'
    BY <1>1, <2>1, <2>2 DEF IInv, Programming, InWords, InWord
  <2> QED
    BY <1>1, <2>1, <2>3, <2>4, <2>5, <2>6, <2>7 DEF IInv
<1>5. CASE ~(i < pageWords)
  <2>1. /\ pc' = "page" /\ n' = n + 1 /\ torn' = torn \ {page} /\ i' = 0 /\ rwmVal' = {}
        /\ CR' = CR
    BY <1>5 DEF NextWord, Go
  <2>2. flash[page] = Wanted(page)
    <3>1. ASSUME NEW k \in Index PROVE flash[page][k] = Wanted(page)[k]
      <4>1. k \in Nat
        BY DEF Index
      <4>2. CASE k < i
        BY <1>1, <4>2 DEF IInv, Programming, InWords
      <4>3. CASE k >= i
        <5>1. flash[page][k] = Blank
          BY <1>1, <1>3, <4>1, <4>3 DEF IInv, Programming, InWords
        <5>2. ~(k < pageWords)
          BY <1>2, <1>3, <1>5, <4>1, <4>3
        <5> QED
          BY <1>2, <5>1, <5>2
      <4> QED
        BY <1>3, <4>1, <4>2, <4>3
    <3>2. flash[page] \in [Index -> Word]
      BY <1>2 DEF IInv, Types
    <3> QED
      BY <1>2, <3>1, <3>2
  <2>3. /\ page' = page + 1 /\ Asked' = Asked /\ \A p : Wanted(p)' = Wanted(p)
        /\ page \in Nat
    BY <1>1, <1>2, <1>3, <2>1 DEF page, Asked, Wanted, arguments, Page
  <2>4. Types'
    BY <1>1, <2>1 DEF IInv, Types, Labels, arguments
  <2>5. Registers'
    BY <1>1, <2>1 DEF IInv, Registers, InWord
  <2>6. Call'
    BY <1>1, <2>1, Constants DEF IInv, Call, arguments, InWord
  <2>7. Done'
    <3> SUFFICES ASSUME NEW p \in Asked, p < page + 1
                 PROVE  p \notin torn' /\ flash[p] = Wanted(p)
      BY <1>1, <2>3 DEF Done
    <3>1. p \in Nat
      BY DEF Asked, Page
    <3>2. CASE p = page
      BY <2>1, <2>2, <3>2
    <3>3. CASE p < page
      BY <2>1, <3>3 DEF IInv, Done
    <3> QED
      BY <2>3, <3>1, <3>2, <3>3
  <2>8. Open' /\ Programming'
    BY <2>1 DEF Open, Programming, InWords, InWord
  <2> QED
    BY <1>1, <1>2, <1>3, <2>1, <2>2, <2>4, <2>5, <2>6, <2>7, <2>8 DEF IInv
<1> QED
  BY <1>4, <1>5

(* A step within a word: one word of the page changes, if any.             *)
LEMMA InAWord ==
  ASSUME IInv, pc \in InWord, pc' \in InWords, UNCHANGED <<arguments, n, torn, cuts>>,
         i' \in {i, i + 1}, rwmVal' = {}, Registers',
         pc' = "words" <=> i' = i + 1,
         NEW value \in Word, flash' = [flash EXCEPT ![page][i] = value],
         pc' = "low" => value = [low |-> ERASED, high |-> word.high],
         pc' \in {"restore", "words"} => value = word,
         pc' # "high"
  PROVE  IInv' /\ page \in torn /\ \A p \in Page : p # page => flash'[p] = flash[p]
<1>1. /\ page \in Page /\ pageWords \in 1 .. WORDS /\ i < pageWords
      /\ i \in Index /\ i \in Nat /\ Wanted(page)[i] = word
  <2>1. i < pageWords
    BY DEF IInv, Call
  <2> QED
    BY <2>1, Current DEF Index, InWord
<1>2. /\ page' = page /\ pageWords' = pageWords /\ (i' = i => word' = word)
      /\ Asked' = Asked /\ \A p : Wanted(p)' = Wanted(p)
  BY DEF page, pageWords, word, Asked, Wanted, arguments
<1>3. flash \in [Page -> [Index -> Word]]
  BY DEF IInv, Types
<1>4. /\ flash' \in [Page -> [Index -> Word]]
      /\ \A p \in Page : p # page => flash'[p] = flash[p]
      /\ flash'[page][i] = value
      /\ \A k \in Index : k # i => flash'[page][k] = flash[page][k]
  BY <1>1, <1>3
<1>5. page \in torn
  BY DEF IInv, Open, InWords
<1>6. Types'
  <2>1. i' \in Nat /\ pc' \in Labels
    BY <1>1 DEF Labels
  <2>2. addr' = addr /\ data' = data /\ size' = size /\ n' = n /\ torn' = torn /\ cuts' = cuts
    BY DEF arguments
  <2>3. addr \in Page /\ size \in Nat /\ n \in Nat /\ data \in [Read(size) -> Word]
    BY DEF IInv, Types
  <2>4. torn \subseteq Page /\ cuts \in 0 .. Cuts
    BY DEF IInv, Types
  <2>5. data' \in [Read(size') -> Word]
    BY <2>2, <2>3
  <2>6. flash' \in [Page -> [Index -> Word]]
    BY <1>4
  <2>7. addr' \in Page /\ size' \in Nat /\ n' \in Nat /\ torn' \subseteq Page /\ cuts' \in 0 .. Cuts
    BY <2>2, <2>3, <2>4
  <2> QED
    BY <2>1, <2>5, <2>6, <2>7 DEF Types
<1>7. Call'
  <2>1. /\ size <= (PAGES - addr) * PAGE_SIZE /\ size > 0 /\ n * PAGE_SIZE < size
    BY DEF IInv, Call, InWord
  <2>2. addr' = addr /\ size' = size /\ n' = n
    BY DEF arguments
  <2>3. i' <= WORDS /\ (pc' \in InWord => i' < pageWords')
    <3>1. pc' \in InWord => i' = i
      BY DEF InWord
    <3> QED
      BY <1>1, <1>2, <3>1, Constants
  <2>4. pc' \notin {"idle", "page"}
    BY DEF InWords, InWord
  <2> QED
    BY <2>1, <2>2, <2>3, <2>4 DEF Call
<1>8. Done'
  BY <1>4, KeepsDone DEF InWord
<1>9. Open'
  BY <1>2, <1>5 DEF Open
<1>10. Programming'
  <2> SUFFICES ASSUME NEW k \in Index
               PROVE  /\ k < i' => flash'[page][k] = Wanted(page)[k]
                      /\ k > i' => flash'[page][k] = Blank
                      /\ k = i' =>
                           /\ pc' \in {"words", "high"} => flash'[page][k] = Blank
                           /\ pc' = "low" => flash'[page][k] = [low |-> ERASED, high |-> word'.high]
                           /\ pc' = "restore" => flash'[page][k] = word'
    BY <1>2 DEF Programming
  <2>1. k \in Nat
    BY DEF Index
  <2>2. /\ k < i => flash[page][k] = Wanted(page)[k]
        /\ k > i => flash[page][k] = Blank
    BY DEF IInv, Programming, InWords
  <2>3. CASE k # i
    BY <1>1, <1>4, <2>1, <2>2, <2>3
  <2>4. CASE k = i
    <3>1. flash'[page][k] = value
      BY <1>4, <2>4
    <3>2. CASE i' = i
      <4>1. word' = word /\ pc' \in {"low", "restore"}
        BY <1>1, <1>2, <3>2 DEF InWords, InWord
      <4> QED
        BY <1>1, <2>1, <2>4, <3>1, <3>2, <4>1
    <3>3. CASE i' = i + 1
      BY <1>1, <2>1, <2>4, <3>1, <3>3
    <3> QED
      BY <3>2, <3>3
  <2> QED
    BY <2>3, <2>4
<1> QED
  BY <1>4, <1>5, <1>6, <1>7, <1>8, <1>9, <1>10 DEF IInv

LEMMA ProgramStep ==
  ASSUME IInv, ProgramHigh \/ ProgramLow \/ Restore
  PROVE  /\ IInv' /\ UNCHANGED <<arguments, n, torn, cuts>> /\ page \in torn /\ pc' # "idle"
         /\ \A p \in Page : p # page => flash'[p] = flash[p]
<1>1. pc \in InWord /\ UNCHANGED <<arguments, n, torn, cuts>>
  BY DEF ProgramHigh, ProgramLow, Restore, At, InWord
<1>2. /\ page \in Page /\ i \in Index /\ i \in Nat /\ word \in Word
      /\ CR = {"PG"} /\ rwmVal = {}
  <2>1. i < pageWords
    BY <1>1 DEF IInv, Call
  <2> QED
    BY <1>1, <2>1, Current DEF InWord, Index, IInv, Registers
<1>3. /\ flash \in [Page -> [Index -> Word]]
      /\ flash[page] \in [Index -> Word] /\ flash[page][i] \in Word
  BY <1>2 DEF IInv, Types
<1>4. CASE ProgramHigh
  <2>1. /\ pc = "high" /\ pc' = "low" /\ i' = i /\ rwmVal' = rwmVal /\ CR' = CR
        /\ flash' = [flash EXCEPT ![page][i].high = Programmed(@, word.high)]
    BY <1>4 DEF ProgramHigh, At, Go
  <2> DEFINE value == [low |-> ERASED, high |-> word.high]
  <2>2. flash[page][i] = Blank
    BY <1>2, <2>1 DEF IInv, Programming, InWords, InWord
  <2>3. flash' = [flash EXCEPT ![page][i] = [flash[page][i] EXCEPT !.high = word.high]]
    BY <1>2, <1>3, <2>1, <2>2 DEF Programmed, Blank
  <2>4. value \in Word /\ [flash[page][i] EXCEPT !.high = word.high] = value
    BY <1>2, <2>2, Constants DEF Blank, Word
  <2>5. flash' = [flash EXCEPT ![page][i] = value]
    BY <2>3, <2>4
  <2>6. Registers'
    BY <1>2, <2>1 DEF Registers, InWord
  <2> HIDE DEF value
  <2>7. IInv' /\ page \in torn /\ \A p \in Page : p # page => flash'[p] = flash[p]
    <3>1. pc' \in InWords /\ i' \in {i, i + 1} /\ rwmVal' = {} /\ (pc' = "words" <=> i' = i + 1)
      BY <1>2, <2>1 DEF InWords, InWord
    <3> QED
      BY <1>1, <2>1, <2>4, <2>5, <2>6, <3>1, InAWord DEF value
  <2> QED
    BY <1>1, <2>1, <2>7
<1>5. CASE ProgramLow
  <2>1. /\ pc = "low" /\ pc' = "restore" /\ i' = i /\ rwmVal' = rwmVal /\ CR' = CR
        /\ flash' = [flash EXCEPT ![page][i].low = Programmed(@, word.low)]
    BY <1>5 DEF ProgramLow, At, Go
  <2>2. flash[page][i] = [low |-> ERASED, high |-> word.high]
    BY <1>2, <2>1 DEF IInv, Programming, InWords, InWord
  <2>3. flash' = [flash EXCEPT ![page][i] = [flash[page][i] EXCEPT !.low = word.low]]
    BY <1>2, <1>3, <2>1, <2>2 DEF Programmed
  <2>4. [flash[page][i] EXCEPT !.low = word.low] = word
    BY <1>2, <2>2 DEF Word
  <2>5. flash' = [flash EXCEPT ![page][i] = word]
    BY <2>3, <2>4
  <2>6. Registers'
    BY <1>2, <2>1 DEF Registers, InWord
  <2>7. IInv' /\ page \in torn /\ \A p \in Page : p # page => flash'[p] = flash[p]
    <3>1. pc' \in InWords /\ i' \in {i, i + 1} /\ rwmVal' = {} /\ (pc' = "words" <=> i' = i + 1)
      BY <1>2, <2>1 DEF InWords, InWord
    <3> QED
      BY <1>1, <1>2, <2>1, <2>5, <2>6, <3>1, InAWord
  <2> QED
    BY <1>1, <2>1, <2>7
<1>6. CASE Restore
  <2>1. /\ pc = "restore" /\ pc' = "words" /\ i' = i + 1 /\ rwmVal' = rwmVal
        /\ CR' = rwmVal \ {"PG"} /\ flash' = flash
    BY <1>6 DEF Restore, At, Go
  <2>2. flash[page][i] = word
    BY <1>2, <2>1 DEF IInv, Programming, InWords, InWord
  <2>3. flash' = [flash EXCEPT ![page][i] = word]
    BY <1>2, <1>3, <2>1, <2>2
  <2>4. Registers'
    BY <1>2, <2>1 DEF Registers, InWord
  <2>5. IInv' /\ page \in torn /\ \A p \in Page : p # page => flash'[p] = flash[p]
    BY <1>1, <1>2, <2>1, <2>3, <2>4, InAWord DEF InWords, InWord
  <2> QED
    BY <1>1, <2>1, <2>5
<1> QED
  BY <1>4, <1>5, <1>6

LEMMA CutStep ==
  ASSUME IInv, Cut
  PROVE  /\ IInv' /\ Asked' = {} /\ cuts' = cuts + 1 /\ UNCHANGED torn
         /\ \A p \in Page : flash'[p] = flash[p] \/ p \in torn
<1>1. cuts' = cuts + 1 /\ torn' = torn /\ pc' = "idle" /\ CR' = {"LOCK"} /\ Stop
  BY DEF Cut, Go
<1>2. torn' \subseteq Page /\ cuts' \in 0 .. Cuts
  BY <1>1, FlashStoreAssumption DEF Cut, IInv, Types
<1>3. flash \in [Page -> [Index -> Word]]
  BY DEF IInv, Types
<1>4. /\ flash' \in [Page -> [Index -> Word]]
      /\ \A p \in Page : flash'[p] = flash[p] \/ p \in torn
  <2>1. CASE flash' = flash
    BY <1>3, <2>1
  <2>2. ASSUME At("erase"), NEW rest \in [Index -> Word], flash' = [flash EXCEPT ![page] = rest]
        PROVE  /\ flash' \in [Page -> [Index -> Word]]
               /\ \A p \in Page : flash'[p] = flash[p] \/ p \in torn
    <3>1. page \in Page /\ page \in torn
      BY <2>2, Current DEF At, IInv, Open
    <3> QED
      BY <1>3, <2>2, <3>1
  <2>3. ASSUME pc \in {"high", "low"}, NEW half \in Half,
               \/ flash' = [flash EXCEPT ![page][i].high = half]
               \/ flash' = [flash EXCEPT ![page][i].low = half]
        PROVE  /\ flash' \in [Page -> [Index -> Word]]
               /\ \A p \in Page : flash'[p] = flash[p] \/ p \in torn
    <3>1. i < pageWords
      BY <2>3 DEF IInv, Call, InWord
    <3>2. page \in Page /\ page \in torn /\ i \in Index
      BY <2>3, <3>1, Current DEF IInv, Open, InWords, InWord
    <3>3. flash[page] \in [Index -> Word] /\ flash[page][i] \in Word
      BY <1>3, <3>2
    <3>4. /\ [flash[page][i] EXCEPT !.high = half] \in Word
          /\ [flash[page][i] EXCEPT !.low = half] \in Word
      BY <2>3, <3>3 DEF Word
    <3> QED
      BY <1>3, <2>3, <3>2, <3>3, <3>4
  <2> QED
    BY <2>1, <2>2, <2>3 DEF Cut, At
<1> QED
  BY <1>1, <1>2, <1>4, Stopped

-----------------------------------------------------------------------------
(* The pages as they are promised.                                         *)
LEMMA Mapped ==
  ASSUME IInv
  PROVE  /\ pages \in [Page -> [Index -> Word] \cup {Torn}]
         /\ \A p \in Page : pages[p] = IF p \in torn THEN Torn ELSE flash[p]
         /\ \A p \in Asked : wanted[p] = Wanted(p)
         /\ DOMAIN wanted = Asked /\ Asked \subseteq Page
BY DEF IInv, Types, pages, wanted, Asked

(* A step that changes no page but one that is torn, and no call.          *)
LEMMA Stutter ==
  ASSUME UNCHANGED <<arguments, torn, cuts>>,
         \A p \in Page : flash'[p] = flash[p] \/ p \in torn
  PROVE  UNCHANGED Store!vars
<1>1. pages' = pages
  BY DEF pages
<1>2. Asked' = Asked /\ \A p : Wanted(p)' = Wanted(p)
  BY DEF Asked, Wanted, arguments
<1>3. wanted' = wanted
  BY <1>2 DEF wanted
<1> QED
  BY <1>1, <1>3 DEF Store!vars

LEMMA NoCall ==
  ASSUME Asked = {}
  PROVE  wanted = Store!Nothing
BY DEF wanted, Store!Nothing

LEMMA NoCallNext ==
  ASSUME Asked' = {}
  PROVE  wanted' = Store!Nothing
BY DEF wanted, Store!Nothing

(* A call begins.                                                          *)
LEMMA WriteMapped ==
  ASSUME IInv, NEW first \in Page, NEW bytes \in Sizes,
         bytes <= (PAGES - first) * PAGE_SIZE,
         NEW words \in [Read(bytes) -> Word], flash_write(first, bytes, words)
  PROVE  Store!Write
<1>1. /\ pc = "idle" /\ pc' = "page" /\ UNCHANGED <<flash, torn, cuts>>
      /\ addr' = first /\ size' = bytes /\ data' = words
  BY DEF flash_write, At, Go
<1>2. /\ bytes \in Nat \ {0} /\ PAGE_SIZE \in Nat \ {0} /\ PAGES \in Nat
      /\ addr \in Nat /\ size = 0 /\ first \in Nat
  BY <1>1, FlashStoreAssumption, Constants DEF IInv, Types, Call, Page
<1>3. Asked = {}
  <2> SUFFICES ASSUME NEW p \in Page, addr <= p, (p - addr) * PAGE_SIZE < size PROVE FALSE
    BY DEF Asked
  <2>1. PICK d \in Nat : d = p - addr
    BY <1>2 DEF Page
  <2>2. d * PAGE_SIZE \in Nat
    BY <1>2
  <2> QED
    BY <1>2, <2>1, <2>2
<1>4. first \in Asked' /\ Asked' \subseteq Page
  <2>1. (first - first) * PAGE_SIZE = 0
    BY <1>2
  <2> QED
    BY <1>1, <1>2, <2>1 DEF Asked
<1>5. ASSUME NEW p \in Asked' PROVE Wanted(p)' \in [Index -> Word]
  <2>1. ASSUME NEW k PROVE (k \in Read(size))' => data'[k] \in Word
    BY <1>1
  <2> QED
    BY <2>1, Constants DEF Wanted
<1>6. wanted' \in [Asked' -> [Index -> Word]]
  BY <1>5 DEF wanted
<1>7. wanted = Store!Nothing
  BY <1>3, NoCall
<1>8. pages' = pages
  BY <1>1 DEF pages
<1>9. Asked' \in (SUBSET Page) \ {{}}
  <2>1. Asked' # {} /\ Asked' \in SUBSET Page
    BY <1>4, Zenon
  <2> QED
    BY <2>1, Zenon
<1>10. \E some \in (SUBSET Page) \ {{}} : wanted' \in [some -> [Index -> Word]]
  BY <1>6, <1>9, Zenon
<1>11. UNCHANGED <<pages, cuts>>
  BY <1>1, <1>8
<1> QED
  BY <1>7, <1>10, <1>11, Zenon DEF Store!Write

(* Every step keeps the invariant, and is a step of the promise or none.   *)
LEMMA Step ==
  ASSUME IInv, [Next]_vars
  PROVE  IInv' /\ [Store!Next]_Store!vars
<1>1. ASSUME NEW first \in Page, NEW bytes \in Sizes,
             bytes <= (PAGES - first) * PAGE_SIZE,
             NEW words \in [Read(bytes) -> Word], flash_write(first, bytes, words)
      PROVE  IInv' /\ Store!Next
  BY <1>1, WriteStep, WriteMapped DEF Store!Next
<1>2. CASE NextPage
  <2>1. IInv' /\ UNCHANGED <<flash, torn, cuts>>
    BY <1>2, NextPageStep DEF NextPage
  <2>2. CASE n * PAGE_SIZE < size
    <3>1. UNCHANGED arguments
      BY <1>2, <2>2 DEF NextPage
    <3> QED
      BY <2>1, <3>1, Stutter
  <2>3. CASE ~(n * PAGE_SIZE < size)
    <3>1. \A p \in Asked : p \notin torn /\ flash[p] = Wanted(p)
      <4>1. n \in Nat /\ size \in Nat /\ n * PAGE_SIZE \in Nat
        BY Constants DEF IInv, Types
      <4> QED
        BY <1>2, <2>3, <4>1, NextPageStep
    <3>2. \A p \in DOMAIN wanted : pages[p] = wanted[p]
      BY <3>1, Mapped
    <3>3. Asked' = {}
      <4>1. pc' = "idle" /\ CR' = {"LOCK"} /\ Stop
        BY <1>2, <2>3 DEF NextPage, Go
      <4> QED
        BY <2>1, <4>1, Stopped DEF IInv, Types
    <3>4. wanted' = Store!Nothing /\ pages' = pages
      BY <2>1, <3>3, NoCallNext DEF pages
    <3> QED
      BY <2>1, <3>2, <3>4 DEF Store!End, Store!Next
  <2> QED
    BY <2>2, <2>3
<1>3. CASE StartErase
  <2>1. /\ IInv' /\ page \in Asked /\ torn' = torn \cup {page}
        /\ UNCHANGED <<flash, arguments, cuts>>
    BY <1>3, StartEraseStep DEF StartErase
  <2>2. pages' = [pages EXCEPT ![page] = Torn]
    BY <2>1 DEF pages
  <2>3. wanted' = wanted
    BY <2>1 DEF wanted, Asked, Wanted, arguments
  <2>4. page \in DOMAIN wanted /\ page \in Page
    BY <2>1, Mapped
  <2> QED
    BY <2>1, <2>2, <2>3, <2>4 DEF Store!Erase, Store!Next
<1>4. CASE flash_erase_page
  BY <1>4, EraseStep, Stutter
<1>5. CASE NextWord
  <2>1. IInv' /\ UNCHANGED <<flash, arguments, cuts>>
    BY <1>5, NextWordStep
  <2>2. CASE UNCHANGED torn
    BY <2>1, <2>2, Stutter
  <2>3. CASE /\ page \in torn /\ torn' = torn \ {page}
             /\ page \in Asked /\ flash[page] = Wanted(page)
    <3>1. pages' = [pages EXCEPT ![page] = wanted[page]]
      <4>1. wanted[page] = flash[page]
        BY <2>3, Mapped
      <4> QED
        BY <2>1, <2>3, <4>1 DEF pages
    <3>2. wanted' = wanted
      BY <2>1 DEF wanted, Asked, Wanted, arguments
    <3>3. page \in DOMAIN wanted /\ page \in Page
      BY <2>3, Mapped
    <3> QED
      BY <2>1, <3>1, <3>2, <3>3 DEF Store!Fill, Store!Next
  <2> QED
    BY <1>5, <2>2, <2>3, NextWordStep
<1>6. CASE ProgramHigh \/ ProgramLow \/ Restore
  BY <1>6, ProgramStep, Stutter
<1>7. CASE Cut
  <2>1. /\ IInv' /\ Asked' = {} /\ cuts' = cuts + 1 /\ UNCHANGED torn
        /\ \A p \in Page : flash'[p] = flash[p] \/ p \in torn
    BY <1>7, CutStep
  <2>2. pages' = pages /\ wanted' = Store!Nothing
    BY <2>1, NoCallNext DEF pages
  <2> QED
    BY <2>1, <2>2 DEF Store!Cut, Store!Next
<1>8. CASE UNCHANGED vars
  <2>1. UNCHANGED <<flash, CR, pc, arguments, n, i, rwmVal, torn, cuts>>
    BY <1>8 DEF vars
  <2>2. IInv'
    BY <2>1 DEF IInv, Types, Registers, Call, Done, Open, Programming, arguments, page, word,
                pageWords, Asked, Wanted
  <2> QED
    BY <2>1, <2>2, Stutter
<1> QED
  BY <1>1, <1>2, <1>3, <1>4, <1>5, <1>6, <1>7, <1>8 DEF Next

LEMMA Invariant == Spec => []IInv
<1>1. Init => IInv
  BY Initially
<1>2. IInv /\ [Next]_vars => IInv'
  BY Step
<1> QED
  BY <1>1, <1>2, PTL DEF Spec

(* TypeOK: flash_write reads nothing beyond the data it was given, and     *)
(* erases and programs nothing beyond the flash.                           *)
THEOREM FlashTypeOK == Spec => []TypeOK
<1>1. IInv => TypeOK
  <2> SUFFICES ASSUME IInv PROVE TypeOK
    OBVIOUS
  <2>1. pc \notin {"idle", "page"} => page \in Page
    BY Current
  <2>2. ASSUME pc \in {"high", "low"}
        PROVE  i \in Index /\ n * WORDS + i \in Read(size)
    <3>1. i < pageWords /\ n * PAGE_SIZE < size /\ size \in Nat /\ n \in Nat
      BY <2>2 DEF IInv, Call, Types, InWord
    <3>2. i \in Index
      BY <2>2, <3>1, Current
    <3> QED
      BY <3>1, <3>2, PageWords
  <2>3. CR \subseteq {"LOCK", "PG", "PER", "STRT"} /\ rwmVal \subseteq {"LOCK", "PG", "PER", "STRT"}
    BY DEF IInv, Types, Registers, Labels, InWords, InWord
  <2>4. i \in 0 .. WORDS
    BY Constants DEF IInv, Types, Call
  <2> QED
    BY <2>1, <2>2, <2>3, <2>4 DEF IInv, Types, TypeOK, Labels, InWords, InWord
<1> QED
  BY <1>1, Invariant, PTL

(* IsStore: whatever the flash held and whenever power is lost, only the   *)
(* pages of the call change, from what they held to torn to what was to be *)
(* written, and a call that ends has written them all.                     *)
THEOREM ImplementsStore == Spec => IsStore
<1>1. Init => Store!Init
  <2> SUFFICES ASSUME Init PROVE Store!Init
    OBVIOUS
  <2>1. IInv
    BY Initially
  <2>2. pages \in [Page -> [Index -> Word]]
    BY DEF Init, pages
  <2>3. Asked = {}
    <3> SUFFICES ASSUME NEW p \in Page, addr <= p, (p - addr) * PAGE_SIZE < size PROVE FALSE
      BY DEF Asked
    <3>1. addr = 0 /\ size = 0 /\ p \in Nat /\ p - addr = p
      BY DEF Init, Page
    <3>2. p * PAGE_SIZE \in Nat
      BY Constants, <3>1
    <3> QED
      BY <3>1, <3>2
  <2>4. wanted = Store!Nothing
    BY <2>3, NoCall
  <2> QED
    BY <2>2, <2>4 DEF Init, Store!Init
<1>2. IInv /\ [Next]_vars => [Store!Next]_Store!vars
  BY Step
<1> QED
  BY <1>1, <1>2, Invariant, PTL DEF Spec, IsStore, Store!Spec
=============================================================================
