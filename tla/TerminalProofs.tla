---------------------------- MODULE TerminalProofs ----------------------------
(* Safety of Terminal for a buffer of any size, any characters, names and  *)
(* number of arguments.  What is proved of the words of a line of any      *)
(* length rests on the smallest of some natural numbers (Least): the       *)
(* first place, or the first number, where something holds.                *)
EXTENDS Terminal, FunctionTheorems, FiniteSetTheorems, SequenceTheorems,
        WellFoundedInduction, TLAPS

-----------------------------------------------------------------------------
(* The smallest of some natural numbers, which is what the searches of a   *)
(* string find.                                                            *)
Below == {pair \in Nat \X Nat : pair[1] < pair[2]}

LEMMA Least ==
  ASSUME NEW T \in SUBSET Nat, T # {}
  PROVE  \E x \in T : \A y \in T : x <= y
<1>1. IsWellFoundedOn(Below, Nat)
  BY NatLessThanWellFounded DEF OpToRel, Below
<1>2. \E x \in T : \A y \in T : <<y, x>> \notin Below
  BY <1>1, WFMin
<1>3. \A x, y \in T : <<y, x>> \notin Below => x <= y
  BY DEF Below
<1> QED
  BY <1>2, <1>3

(* The place after the word that starts at a place of a string.            *)
LEMMA EndOfWord ==
  ASSUME NEW s \in Seq(Typable), NEW start \in 1 .. Len(s) + 1
  PROVE  /\ EndOf(s, start) \in start .. Len(s) + 1
         /\ \A i \in start .. EndOf(s, start) - 1 : s[i] # Space
         /\ EndOf(s, start) <= Len(s) => s[EndOf(s, start)] = Space
<1> DEFINE T == {j \in start .. Len(s) + 1 : j <= Len(s) => s[j] = Space}
<1>1. Len(s) \in Nat /\ T \in SUBSET Nat
  OBVIOUS
<1>2. Len(s) + 1 \in T
  BY <1>1
<1>3. PICK j \in T : \A i \in T : j <= i
  BY <1>1, <1>2, Least
<1>4. \A i \in start .. j - 1 : s[i] # Space
  BY <1>1, <1>3
<1> QED
  BY <1>3, <1>4 DEF EndOf

(* The string that begins at a place of the buffer ends before the first   *)
(* 0 from there on.                                                        *)
LEMMA StringUpTo ==
  ASSUME NEW buffer, NEW i \in Nat, NEW n \in i .. TERMINAL_BUFFER_SIZE - 1,
         buffer[n] = NUL, \A m \in i .. n - 1 : buffer[m] # NUL
  PROVE  StringAt(buffer, i) = [k \in 1 .. n - i |-> buffer[i + k - 1]]
<1> DEFINE First(m) == buffer[m] = NUL /\ \A l \in i .. m - 1 : buffer[l] # NUL
           end == CHOOSE m \in i .. TERMINAL_BUFFER_SIZE - 1 : First(m)
<1>1. end \in i .. TERMINAL_BUFFER_SIZE - 1 /\ First(end)
  <2>1. \E m \in i .. TERMINAL_BUFFER_SIZE - 1 : First(m)
    OBVIOUS
  <2> HIDE DEF First
  <2> QED
    BY <2>1
<1>2. StringAt(buffer, i) = [k \in 1 .. end - i |-> buffer[i + k - 1]]
  BY DEF StringAt
<1> HIDE DEF end
<1>3. end = n
  BY <1>1, TerminalAssumption
<1> QED
  BY <1>2, <1>3

-----------------------------------------------------------------------------
(* The words of a string are numbered in their order.                      *)
Earlier(s, i) == {j \in Begins(s) : j < i}

LEMMA BeginsFinite ==
  ASSUME NEW s \in Seq(Typable)
  PROVE  /\ Begins(s) \in SUBSET (1 .. Len(s)) /\ IsFiniteSet(Begins(s))
         /\ Cardinality(Begins(s)) \in Nat
         /\ \A i : IsFiniteSet(Earlier(s, i)) /\ Cardinality(Earlier(s, i)) \in Nat
<1>1. Begins(s) \in SUBSET (1 .. Len(s)) /\ Len(s) \in Nat
  BY DEF Begins
<1>2. IsFiniteSet(1 .. Len(s))
  BY <1>1, FS_Interval
<1>3. IsFiniteSet(Begins(s))
  BY <1>1, <1>2, FS_Subset
<1>4. \A i : Earlier(s, i) \in SUBSET Begins(s)
  BY DEF Earlier
<1>5. \A i : IsFiniteSet(Earlier(s, i))
  BY <1>3, <1>4, FS_Subset
<1> QED
  BY <1>1, <1>3, <1>5, FS_CardinalityType

(* A later word has more words before it.                                  *)
LEMMA EarlierGrows ==
  ASSUME NEW s \in Seq(Typable), NEW i \in Begins(s), NEW j \in Begins(s), i < j
  PROVE  Cardinality(Earlier(s, i)) + 1 <= Cardinality(Earlier(s, j))
<1>1. i \in Nat /\ j \in Nat
  BY BeginsFinite
<1>2. i \notin Earlier(s, i) /\ Earlier(s, i) \cup {i} \in SUBSET Earlier(s, j)
  BY <1>1, BeginsFinite DEF Earlier
<1>3. Cardinality(Earlier(s, i) \cup {i}) = Cardinality(Earlier(s, i)) + 1
  BY <1>2, BeginsFinite, FS_AddElement
<1>4. Cardinality(Earlier(s, i) \cup {i}) <= Cardinality(Earlier(s, j))
  BY <1>2, BeginsFinite, FS_Subset
<1> QED
  BY <1>3, <1>4

(* A word has fewer words before it than there are words.                  *)
LEMMA EarlierFewer ==
  ASSUME NEW s \in Seq(Typable), NEW i \in Begins(s)
  PROVE  Cardinality(Earlier(s, i)) + 1 <= Cardinality(Begins(s))
<1>1. i \in Nat /\ i \notin Earlier(s, i)
  BY BeginsFinite DEF Earlier
<1>2. Earlier(s, i) \cup {i} \in SUBSET Begins(s)
  BY DEF Earlier
<1>3. Cardinality(Earlier(s, i) \cup {i}) = Cardinality(Earlier(s, i)) + 1
  BY <1>1, BeginsFinite, FS_AddElement
<1>4. Cardinality(Earlier(s, i) \cup {i}) <= Cardinality(Begins(s))
  BY <1>2, BeginsFinite, FS_Subset
<1> QED
  BY <1>3, <1>4

(* No two words have one number, and there are as many as there are words. *)
LEMMA EveryNumber ==
  ASSUME NEW s \in Seq(Typable), NEW k \in 1 .. Cardinality(Begins(s))
  PROVE  \E i \in Begins(s) : Cardinality(Earlier(s, i)) = k - 1
<1> DEFINE n == Cardinality(Begins(s))
           f == [i \in Begins(s) |-> Cardinality(Earlier(s, i)) + 1]
<1>1. n \in Nat /\ IsFiniteSet(1 .. n) /\ Cardinality(1 .. n) = n
  BY BeginsFinite, FS_Interval
<1>2. f \in [Begins(s) -> 1 .. n]
  BY BeginsFinite, EarlierFewer
<1>3. ASSUME NEW i \in Begins(s), NEW j \in Begins(s), f[i] = f[j] PROVE i = j
  <2>1. i \in Nat /\ j \in Nat
    BY BeginsFinite
  <2>2. Cardinality(Earlier(s, i)) = Cardinality(Earlier(s, j))
    BY <1>3, BeginsFinite
  <2> QED
    BY <2>1, <2>2, BeginsFinite, EarlierGrows
<1>4. f \in Injection(Begins(s), 1 .. n)
  BY <1>2, <1>3, Fun_IsInj
<1>5. f \in Surjection(Begins(s), 1 .. n)
  BY <1>1, <1>4, FS_Injection
<1>6. \A t \in 1 .. n : \E i \in Begins(s) : f[i] = t
  <2> HIDE DEF f, n
  <2> QED
    BY <1>5, Zenon DEF Surjection
<1>7. PICK i \in Begins(s) : f[i] = k
  BY <1>6
<1> QED
  BY <1>7, BeginsFinite

(* Starts numbers the places where words begin, all of them, in order.     *)
LEMMA StartsInOrder ==
  ASSUME NEW s \in Seq(Typable)
  PROVE  /\ DOMAIN Starts(s) = 1 .. Cardinality(Begins(s))
         /\ \A k \in DOMAIN Starts(s) : Starts(s)[k] \in Begins(s)
         /\ \A k, l \in DOMAIN Starts(s) : k < l => Starts(s)[k] < Starts(s)[l]
         /\ \A i \in Begins(s) : \E k \in DOMAIN Starts(s) : Starts(s)[k] = i
<1> DEFINE n == Cardinality(Begins(s))
           Nth(k) == CHOOSE i \in Begins(s) : Cardinality(Earlier(s, i)) = k - 1
<1>1. n \in Nat
  BY BeginsFinite
<1>2. Starts(s) = [k \in 1 .. n |-> Nth(k)]
  BY DEF Starts, Earlier
<1>3. \A k \in 1 .. n : Nth(k) \in Begins(s) /\ Cardinality(Earlier(s, Nth(k))) = k - 1
  BY EveryNumber
<1> HIDE DEF Nth
<1>4. ASSUME NEW k \in 1 .. n, NEW l \in 1 .. n, k < l PROVE Nth(k) < Nth(l)
  <2>1. Nth(k) \in Nat /\ Nth(l) \in Nat
    BY <1>3, BeginsFinite
  <2>2. Nth(k) # Nth(l)
    BY <1>1, <1>3, <1>4
  <2>3. ~(Nth(l) < Nth(k))
    BY <1>1, <1>3, <1>4, EarlierGrows
  <2> QED
    BY <2>1, <2>2, <2>3
<1>5. ASSUME NEW i \in Begins(s) PROVE \E k \in 1 .. n : Nth(k) = i
  <2> DEFINE k == Cardinality(Earlier(s, i)) + 1
  <2>1. k \in 1 .. n /\ i \in Nat
    BY <1>1, BeginsFinite, EarlierFewer
  <2>2. Nth(k) \in Begins(s) /\ Nth(k) \in Nat
        /\ Cardinality(Earlier(s, Nth(k))) = Cardinality(Earlier(s, i))
    BY <1>3, <2>1, BeginsFinite
  <2>3. Nth(k) = i
    BY <2>1, <2>2, BeginsFinite, EarlierGrows
  <2> QED
    BY <2>1, <2>3
<1> QED
  BY <1>2, <1>3, <1>4, <1>5

-----------------------------------------------------------------------------
(* A word ends before the next one begins.                                 *)
LEMMA WordThenWord ==
  ASSUME NEW s \in Seq(Typable), NEW k \in DOMAIN Starts(s), NEW l \in DOMAIN Starts(s),
         k < l
  PROVE  EndOf(s, Starts(s)[k]) \in Starts(s)[k] + 1 .. Starts(s)[l] - 1
<1> DEFINE i == Starts(s)[k]
           j == Starts(s)[l]
<1>1. /\ i \in 1 .. Len(s) /\ j \in 1 .. Len(s) /\ i < j
      /\ s[i] # Space /\ s[j] # Space /\ s[j-1] = Space
  <2>1. i \in Begins(s) /\ j \in Begins(s) /\ i < j
    BY StartsInOrder
  <2> HIDE DEF i, j
  <2> QED
    BY <2>1, BeginsFinite DEF Begins
<1> HIDE DEF i, j
<1>2. /\ EndOf(s, i) \in i .. Len(s) + 1
      /\ \A m \in i .. EndOf(s, i) - 1 : s[m] # Space
      /\ EndOf(s, i) <= Len(s) => s[EndOf(s, i)] = Space
  BY <1>1, EndOfWord
<1>3. EndOf(s, i) \in i + 1 .. j - 1
  <2>1. EndOf(s, i) # i
    BY <1>1, <1>2
  <2>2. ~(EndOf(s, i) > j - 1)
    BY <1>1, <1>2
  <2> QED
    BY <1>1, <1>2, <2>1, <2>2
<1> QED
  BY <1>3 DEF i, j

(* There are as many arguments as words after the first, up to the limit.  *)
LEMMA ArgcOfWords ==
  ASSUME NEW s \in Seq(Typable)
  PROVE  /\ Argc(s) \in 0 .. TERMINAL_MAX_ARGUMENTS
         /\ Cardinality(Begins(s)) \in Nat
         /\ DOMAIN Starts(s) = 1 .. Cardinality(Begins(s))
         /\ Begins(s) # {} => /\ Argc(s) + 1 \in DOMAIN Starts(s)
                              /\ 1 \in DOMAIN Starts(s)
         /\ Begins(s) = {} => Argc(s) = 0 /\ DOMAIN Starts(s) = {}
<1>1. Cardinality(Begins(s)) \in Nat /\ (Cardinality(Begins(s)) = 0 <=> Begins(s) = {})
  BY BeginsFinite, FS_EmptySet
<1> QED
  BY <1>1, StartsInOrder, TerminalAssumption DEF Argc

(* Only spaces of the line, and the place after it, are cut.               *)
LEMMA CutsAreSpaces ==
  ASSUME NEW s \in Seq(Typable), NEW c \in Cuts(s)
  PROVE  c \in 1 .. Len(s) + 1 /\ (c <= Len(s) => s[c] = Space)
<1> DEFINE starts == Starts(s)
           ended == {k \in DOMAIN starts : k <= Argc(s) + 1 /\ k # TERMINAL_MAX_ARGUMENTS + 1}
<1>1. CASE \E k \in ended : c = EndOf(s, starts[k])
  BY <1>1, StartsInOrder, BeginsFinite, EndOfWord
<1>2. CASE \E k \in 2 .. Argc(s) + 1 : c = starts[k] - 1
  <2>1. PICK k \in 2 .. Argc(s) + 1 : c = starts[k] - 1
    BY <1>2
  <2>2. Begins(s) # {}
    BY <2>1, ArgcOfWords
  <2>3. k \in DOMAIN starts /\ 1 \in DOMAIN starts /\ 1 < k
    BY <2>1, <2>2, ArgcOfWords
  <2>4. starts[k] \in Begins(s) /\ starts[1] \in Begins(s) /\ starts[1] < starts[k]
    BY <2>3, StartsInOrder
  <2>5. starts[k] \in 2 .. Len(s) /\ s[starts[k]-1] = Space
    BY <2>4, BeginsFinite DEF Begins
  <2> QED
    BY <2>1, <2>5
<1> QED
  BY <1>1, <1>2 DEF Cuts

(* Nothing is cut within a word that has been looked at, nor after the     *)
(* start of the last argument there is room for.                           *)
LEMMA WordIsWhole ==
  ASSUME NEW s \in Seq(Typable), NEW k \in 1 .. Argc(s) + 1, Begins(s) # {},
         NEW c \in Cuts(s), c >= Starts(s)[k]
  PROVE  k # TERMINAL_MAX_ARGUMENTS + 1 /\ c >= EndOf(s, Starts(s)[k])
<1> DEFINE starts == Starts(s)
           ended == {l \in DOMAIN starts : l <= Argc(s) + 1 /\ l # TERMINAL_MAX_ARGUMENTS + 1}
<1>1. /\ Argc(s) \in 0 .. TERMINAL_MAX_ARGUMENTS
      /\ DOMAIN starts \in SUBSET Nat
      /\ \A l \in 1 .. Argc(s) + 1 : l \in DOMAIN starts
  BY ArgcOfWords
<1>2. k \in DOMAIN starts /\ \A l \in DOMAIN starts : starts[l] \in 1 .. Len(s)
  BY <1>1, StartsInOrder, BeginsFinite
<1>3. EndOf(s, starts[k]) \in Nat /\ Len(s) \in Nat /\ TERMINAL_MAX_ARGUMENTS \in Nat
  BY <1>2, EndOfWord, TerminalAssumption
<1>4. \A l \in DOMAIN starts : l < k => EndOf(s, starts[l]) \in starts[l] + 1 .. starts[k] - 1
  BY <1>2, WordThenWord
<1>5. \A l \in DOMAIN starts : k < l => EndOf(s, starts[k]) \in starts[k] + 1 .. starts[l] - 1
  BY <1>2, WordThenWord
<1>6. \A l \in DOMAIN starts : EndOf(s, starts[l]) \in starts[l] .. Len(s) + 1
  BY <1>2, EndOfWord
<1>7. ASSUME NEW l \in ended, c = EndOf(s, starts[l])
      PROVE  k # TERMINAL_MAX_ARGUMENTS + 1 /\ c >= EndOf(s, starts[k])
  <2>1. l >= k
    BY <1>1, <1>2, <1>4, <1>7
  <2>2. l = k => k # TERMINAL_MAX_ARGUMENTS + 1
    BY <1>7
  <2>3. l > k => k # TERMINAL_MAX_ARGUMENTS + 1
    BY <1>1, <1>3
  <2>4. l > k => c >= EndOf(s, starts[k])
    BY <1>1, <1>2, <1>3, <1>5, <1>6, <1>7
  <2> QED
    BY <1>1, <1>3, <1>7, <2>1, <2>2, <2>3, <2>4
<1>8. ASSUME NEW l \in 2 .. Argc(s) + 1, c = starts[l] - 1
      PROVE  k # TERMINAL_MAX_ARGUMENTS + 1 /\ c >= EndOf(s, starts[k])
  <2>1. l \in DOMAIN starts
    BY <1>1
  <2>2. \A m \in DOMAIN starts : m < k => starts[m] < starts[k]
    BY <1>2, StartsInOrder
  <2>3. l > k
    BY <1>1, <1>2, <1>8, <2>1, <2>2
  <2> QED
    BY <1>1, <1>2, <1>3, <1>5, <1>8, <2>1, <2>3
<1> QED
  BY <1>7, <1>8 DEF Cuts

-----------------------------------------------------------------------------
(* What terminal_process does with a buffer that holds a line: it cuts it, *)
(* into a first word and arguments.                                        *)
Holds(buffer, line) ==
  /\ buffer \in [Index -> Typable \cup {NUL}]
  /\ line \in Seq(Typable) /\ Len(line) \in Index
  /\ \A k \in 1 .. Len(line) : buffer[k-1] = line[k]
  /\ buffer[Len(line)] = NUL

Cut(buffer, line) ==
  [i \in Index |-> IF i + 1 \in Cuts(line) /\ i < Len(line) THEN NUL ELSE buffer[i]]

Args(buffer, line) ==
  [k \in 1 .. Argc(line) |-> StringAt(Cut(buffer, line), Starts(line)[k+1] - 1)]

(* A line that is terminated is read back whole.                           *)
LEMMA LineIsString ==
  ASSUME NEW buffer, NEW line, Holds(buffer, line)
  PROVE  StringAt(buffer, 0) = line
<1>1. /\ Len(line) \in 0 .. TERMINAL_BUFFER_SIZE - 1
      /\ line \in Seq(Typable) /\ NUL \notin Typable
      /\ \A m \in 0 .. Len(line) - 1 : buffer[m] = line[m+1] /\ line[m+1] \in Typable
      /\ buffer[Len(line)] = NUL
  BY TerminalAssumption DEF Holds, Index
<1>2. StringAt(buffer, 0) = [k \in 1 .. Len(line) - 0 |-> buffer[0 + k - 1]]
  BY <1>1, StringUpTo
<1>3. line = [k \in 1 .. Len(line) |-> line[k]]
  BY <1>1
<1> QED
  BY <1>1, <1>2, <1>3

(* What cutting leaves of the line, and of the buffer's type.              *)
LEMMA CutBuffer ==
  ASSUME NEW buffer, NEW line, Holds(buffer, line)
  PROVE  /\ Cut(buffer, line) \in [Index -> Typable \cup {NUL}]
         /\ Cut(buffer, line)[Len(line)] = NUL
         /\ \A i \in 0 .. Len(line) - 1 :
              Cut(buffer, line)[i] = IF i + 1 \in Cuts(line) THEN NUL ELSE line[i+1]
<1>1. /\ buffer \in [Index -> Typable \cup {NUL}] /\ buffer[Len(line)] = NUL
      /\ Len(line) \in Index /\ Index = 0 .. TERMINAL_BUFFER_SIZE - 1
      /\ TERMINAL_BUFFER_SIZE \in Nat
  BY TerminalAssumption DEF Holds, Index
<1>2. \A i \in 0 .. Len(line) - 1 : i \in Index /\ buffer[i] = line[i+1]
  <2> SUFFICES ASSUME NEW i \in 0 .. Len(line) - 1 PROVE i \in Index /\ buffer[i] = line[i+1]
    OBVIOUS
  <2>1. i \in Index /\ i + 1 \in 1 .. Len(line) /\ i + 1 - 1 = i
    BY <1>1
  <2>2. buffer[i + 1 - 1] = line[i+1]
    BY <2>1 DEF Holds
  <2> QED
    BY <2>1, <2>2
<1>3. \A i \in Index :
        Cut(buffer, line)[i]
          = IF i + 1 \in Cuts(line) /\ i < Len(line) THEN NUL ELSE buffer[i]
  BY DEF Cut
<1>4. Cut(buffer, line)[Len(line)] = NUL
  BY <1>1, <1>3
<1>5. Cut(buffer, line) \in [Index -> Typable \cup {NUL}]
  BY <1>1 DEF Cut
<1>6. \A i \in 0 .. Len(line) - 1 : i < Len(line)
  BY <1>1
<1> QED
  BY <1>2, <1>3, <1>4, <1>5, <1>6

(* A stretch of the line that is not cut, up to a cut, is a string.        *)
LEMMA StringUpToCut ==
  ASSUME NEW buffer, NEW line, Holds(buffer, line),
         NEW a \in 1 .. Len(line) + 1, NEW b \in a - 1 .. Len(line),
         \A c \in Cuts(line) : ~(c \in a .. b),
         b = Len(line) \/ b + 1 \in Cuts(line)
  PROVE  StringAt(Cut(buffer, line), a - 1) = SubSeq(line, a, b)
<1> DEFINE cut == Cut(buffer, line)
<1>1. /\ line \in Seq(Typable) /\ NUL \notin Typable
      /\ Len(line) \in 0 .. TERMINAL_BUFFER_SIZE - 1 /\ TERMINAL_BUFFER_SIZE \in Nat
      /\ a \in Nat \ {0} /\ b \in Nat /\ a <= b + 1 /\ b <= Len(line)
  BY TerminalAssumption DEF Holds, Index
<1>2. /\ cut[Len(line)] = NUL
      /\ \A i \in 0 .. Len(line) - 1 :
           cut[i] = IF i + 1 \in Cuts(line) THEN NUL ELSE line[i+1]
  BY CutBuffer
<1> HIDE DEF cut
<1>3. cut[b] = NUL
  BY <1>1, <1>2
<1>4. \A i \in a - 1 .. b - 1 : cut[i] = line[i+1] /\ cut[i] # NUL
  <2> SUFFICES ASSUME NEW i \in a - 1 .. b - 1 PROVE cut[i] = line[i+1] /\ cut[i] # NUL
    OBVIOUS
  <2>1. i \in 0 .. Len(line) - 1 /\ i + 1 \in a .. b /\ i + 1 \in 1 .. Len(line)
    BY <1>1
  <2>2. i + 1 \notin Cuts(line) /\ line[i+1] \in Typable
    BY <1>1, <2>1
  <2> QED
    BY <1>1, <1>2, <2>1, <2>2
<1>5. a - 1 \in Nat /\ b \in a - 1 .. TERMINAL_BUFFER_SIZE - 1
  BY <1>1
<1>6. StringAt(cut, a - 1) = [k \in 1 .. b - (a - 1) |-> cut[a - 1 + k - 1]]
  <2> DEFINE i == a - 1
  <2>1. \A m \in i .. b - 1 : cut[m] # NUL
    BY <1>4
  <2>2. i \in Nat /\ b \in i .. TERMINAL_BUFFER_SIZE - 1
    BY <1>5
  <2> HIDE DEF i
  <2>3. StringAt(cut, i) = [k \in 1 .. b - i |-> cut[i + k - 1]]
    BY <1>3, <2>1, <2>2, StringUpTo
  <2> QED
    BY <2>3 DEF i
<1>7. SubSeq(line, a, b) = [k \in 1 .. b - (a - 1) |-> line[a + k - 1]]
  BY <1>1
<1>8. \A k \in 1 .. b - (a - 1) : cut[a - 1 + k - 1] = line[a + k - 1]
  <2> SUFFICES ASSUME NEW k \in 1 .. b - (a - 1)
               PROVE  cut[a - 1 + k - 1] = line[a + k - 1]
    OBVIOUS
  <2>1. a - 1 + k - 1 \in a - 1 .. b - 1 /\ a - 1 + k - 1 + 1 = a + k - 1
    BY <1>1
  <2> QED
    BY <1>4, <2>1
<1> QED
  BY <1>6, <1>7, <1>8 DEF cut

(* Where the k-th argument ends.                                           *)
Ends(line, k) == IF k = TERMINAL_MAX_ARGUMENTS THEN Len(line)
                 ELSE EndOf(line, Starts(line)[k+1]) - 1

(* An argument that has been cut is its word, or the rest of the line.     *)
LEMMA ArgumentIsWord ==
  ASSUME NEW buffer, NEW line, Holds(buffer, line), NEW k \in 1 .. Argc(line)
  PROVE  /\ StringAt(Cut(buffer, line), Starts(line)[k+1] - 1)
              = SubSeq(line, Starts(line)[k+1], Ends(line, k))
         /\ SubSeq(line, Starts(line)[k+1], Ends(line, k)) \in Seq(Typable)
<1> DEFINE a == Starts(line)[k+1]
           b == Ends(line, k)
<1>1. line \in Seq(Typable)
  BY DEF Holds
<1>2. Begins(line) # {} /\ Argc(line) \in 0 .. TERMINAL_MAX_ARGUMENTS
  BY <1>1, ArgcOfWords
<1>3. k + 1 \in DOMAIN Starts(line) /\ k + 1 \in 1 .. Argc(line) + 1
  BY <1>1, <1>2, ArgcOfWords
<1>4. a \in 1 .. Len(line)
  BY <1>1, <1>3, StartsInOrder, BeginsFinite
<1>5. EndOf(line, a) \in a .. Len(line) + 1
  BY <1>1, <1>4, EndOfWord
<1>6. \A c \in Cuts(line) : c >= a => k + 1 # TERMINAL_MAX_ARGUMENTS + 1 /\ c >= EndOf(line, a)
  BY <1>1, <1>2, <1>3, WordIsWhole
<1>7. \A c \in Cuts(line) : c \in Nat
  BY <1>1, CutsAreSpaces
<1>8. TERMINAL_MAX_ARGUMENTS \in Nat
  BY TerminalAssumption
<1>9. k # TERMINAL_MAX_ARGUMENTS => EndOf(line, a) \in Cuts(line)
  BY <1>3, <1>8 DEF Cuts
<1> HIDE DEF a
<1>10. b \in a - 1 .. Len(line) /\ (b = Len(line) \/ b + 1 \in Cuts(line))
  <2>1. CASE k = TERMINAL_MAX_ARGUMENTS
    BY <1>1, <1>4, <2>1 DEF Ends
  <2>2. CASE k # TERMINAL_MAX_ARGUMENTS
    BY <1>1, <1>4, <1>5, <1>9, <2>2 DEF Ends, a
  <2> QED
    BY <2>1, <2>2
<1>11. \A c \in Cuts(line) : ~(c \in a .. b)
  <2>1. CASE k = TERMINAL_MAX_ARGUMENTS
    BY <1>4, <1>6, <1>7, <1>8, <2>1
  <2>2. CASE k # TERMINAL_MAX_ARGUMENTS
    BY <1>4, <1>5, <1>6, <1>7, <2>2 DEF Ends, a
  <2> QED
    BY <2>1, <2>2
<1> HIDE DEF b
<1>12. StringAt(Cut(buffer, line), a - 1) = SubSeq(line, a, b)
  BY <1>1, <1>4, <1>10, <1>11, StringUpToCut
<1>13. SubSeq(line, a, b) \in Seq(Typable)
  BY <1>1, <1>4, <1>10
<1> QED
  BY <1>12, <1>13 DEF a, b

(* A line that begins with its first word is cut after it.                 *)
LEMMA NameIsWord ==
  ASSUME NEW buffer, NEW line, Holds(buffer, line), line # <<>>, line[1] # Space
  PROVE  StringAt(Cut(buffer, line), 0) = SubSeq(line, 1, EndOf(line, 1) - 1)
<1>1. line \in Seq(Typable) /\ Len(line) \in Nat \ {0}
  BY DEF Holds
<1>2. 1 \in Begins(line)
  BY <1>1 DEF Begins
<1>3. 1 \in 1 .. Argc(line) + 1 /\ 1 \in DOMAIN Starts(line) /\ Begins(line) # {}
  BY <1>1, <1>2, ArgcOfWords
<1>4. Starts(line)[1] = 1
  <2>1. PICK k \in DOMAIN Starts(line) : Starts(line)[k] = 1
    BY <1>1, <1>2, StartsInOrder
  <2>2. k \in Nat /\ k >= 1
    BY <1>1, ArgcOfWords
  <2>3. Starts(line)[1] \in 1 .. Len(line)
    BY <1>1, <1>3, StartsInOrder, BeginsFinite
  <2>4. 1 < k => Starts(line)[1] < Starts(line)[k]
    BY <1>1, <1>3, <2>1, StartsInOrder
  <2> QED
    BY <2>1, <2>2, <2>3, <2>4
<1>5. EndOf(line, 1) \in 1 .. Len(line) + 1
  BY <1>1, EndOfWord
<1>6. EndOf(line, 1) \in Cuts(line)
  <2>1. 1 <= Argc(line) + 1 /\ 1 # TERMINAL_MAX_ARGUMENTS + 1
    BY <1>1, ArgcOfWords, TerminalAssumption
  <2> QED
    BY <1>3, <1>4, <2>1 DEF Cuts
<1>7. \A c \in Cuts(line) : c \in Nat /\ (c >= 1 => c >= EndOf(line, 1))
  BY <1>1, <1>3, <1>4, WordIsWhole, CutsAreSpaces
<1>8. \A c \in Cuts(line) : ~(c \in 1 .. EndOf(line, 1) - 1)
  BY <1>5, <1>7
<1>9. EndOf(line, 1) - 1 \in 1 - 1 .. Len(line) /\ EndOf(line, 1) - 1 + 1 \in Cuts(line)
  BY <1>5, <1>6
<1>10. 1 \in 1 .. Len(line) + 1 /\ 1 - 1 = 0
  BY <1>1
<1>11. StringAt(Cut(buffer, line), 1 - 1) = SubSeq(line, 1, EndOf(line, 1) - 1)
  BY <1>8, <1>9, <1>10, StringUpToCut
<1> QED
  BY <1>10, <1>11

(* Whatever the line begins with, the name is the line up to some place.   *)
LEMMA NameIsPrefix ==
  ASSUME NEW buffer, NEW line, Holds(buffer, line)
  PROVE  \E n \in 0 .. Len(line) : StringAt(Cut(buffer, line), 0) = SubSeq(line, 1, n)
<1> DEFINE T == {n \in 0 .. Len(line) : n = Len(line) \/ n + 1 \in Cuts(line)}
<1>1. line \in Seq(Typable) /\ Len(line) \in Nat
  BY DEF Holds
<1>2. T \in SUBSET Nat /\ Len(line) \in T
  BY <1>1
<1>3. PICK n \in T : \A m \in T : n <= m
  BY <1>2, Least
<1>4. \A c \in Cuts(line) : c \in Nat
  BY <1>1, CutsAreSpaces
<1>5. \A c \in Cuts(line) : ~(c \in 1 .. n)
  <2> SUFFICES ASSUME NEW c \in Cuts(line), c \in 1 .. n PROVE FALSE
    OBVIOUS
  <2>1. c - 1 \in T /\ n \in Nat
    BY <1>1, <1>3
  <2> QED
    BY <1>3, <2>1
<1>6. n \in 1 - 1 .. Len(line) /\ 1 \in 1 .. Len(line) + 1 /\ 1 - 1 = 0
  BY <1>1
<1>7. StringAt(Cut(buffer, line), 1 - 1) = SubSeq(line, 1, n)
  BY <1>3, <1>5, <1>6, StringUpToCut
<1> QED
  BY <1>1, <1>6, <1>7

-----------------------------------------------------------------------------
(* terminal_execute looks for the first = of a name: a parameter has none. *)
Equals(name) == SelectInSeq(name, LAMBDA c : c = Assign)

(* SelectInSeq finds the first = of a name, or none.                       *)
LEMMA FirstEquals ==
  ASSUME NEW name \in Seq(Typable)
  PROVE  /\ Equals(name) \in 0 .. Len(name)
         /\ Equals(name) = 0 => \A i \in 1 .. Len(name) : name[i] # Assign
         /\ Equals(name) # 0 => /\ name[Equals(name)] = Assign
                                /\ \A i \in 1 .. Equals(name) - 1 : name[i] # Assign
<1> DEFINE I == {i \in 1 .. Len(name) : name[i] = Assign}
<1>1. Equals(name) = IF I # {} THEN CHOOSE x \in I : \A y \in I : x =< y ELSE 0
  BY DEF Equals, SelectInSeq, Min
<1>2. Len(name) \in Nat /\ I \in SUBSET Nat
  OBVIOUS
<1>3. CASE I = {}
  BY <1>1, <1>2, <1>3
<1>4. CASE I # {}
  <2>1. \E x \in I : \A y \in I : x =< y
    BY <1>2, <1>4, Least
  <2> HIDE DEF I
  <2>2. Equals(name) \in I /\ \A y \in I : Equals(name) =< y
    BY <1>1, <1>4, <2>1
  <2> QED
    BY <1>2, <2>2 DEF I
<1> QED
  BY <1>3, <1>4

(* A name assigns to the parameter that stands before its first =.         *)
LEMMA PrefixBeforeEquals ==
  ASSUME NEW name \in Seq(Typable), NEW p \in Parameters
  PROVE  IsPrefix(Append(p, Assign), name)
           <=> Equals(name) # 0 /\ p = SubSeq(name, 1, Equals(name) - 1)
<1> DEFINE eq == Equals(name)
           q == Append(p, Assign)
<1>1. p \in Seq(Chars \ {Assign})
  BY TerminalAssumption DEF Name
<1>2. /\ Len(name) \in Nat /\ Len(p) \in Nat /\ Len(q) = Len(p) + 1
      /\ q \in Seq(Chars \cup {Assign}) /\ q[Len(p) + 1] = Assign
      /\ \A i \in 1 .. Len(p) : q[i] = p[i] /\ p[i] # Assign
  BY <1>1
<1>3. /\ eq \in 0 .. Len(name)
      /\ eq = 0 => \A i \in 1 .. Len(name) : name[i] # Assign
      /\ eq # 0 => name[eq] = Assign /\ \A i \in 1 .. eq - 1 : name[i] # Assign
  BY FirstEquals
<1> HIDE DEF eq, q
<1>4. IsPrefix(q, name)
        <=> Len(q) <= Len(name) /\ \A i \in 1 .. Len(q) : q[i] = name[i]
  <2>1. SubSeq(q, 1, Len(q)) = [i \in 1 .. Len(q) |-> q[i]]
    BY <1>2
  <2>2. Len(q) <= Len(name) => SubSeq(name, 1, Len(q)) = [i \in 1 .. Len(q) |-> name[i]]
    BY <1>2
  <2> QED
    BY <2>1, <2>2 DEF IsPrefix
<1>5. ASSUME IsPrefix(q, name) PROVE eq # 0 /\ p = SubSeq(name, 1, eq - 1)
  <2>1. Len(p) + 1 \in 1 .. Len(name) /\ name[Len(p) + 1] = Assign
    BY <1>2, <1>4, <1>5
  <2>2. \A i \in 1 .. Len(p) : name[i] = p[i] /\ name[i] # Assign
    BY <1>2, <1>4, <1>5
  <2>3. eq = Len(p) + 1
    BY <1>2, <1>3, <2>1, <2>2
  <2>4. SubSeq(name, 1, Len(p)) = [i \in 1 .. Len(p) |-> name[i]]
    BY <1>2, <2>1
  <2>5. p = [i \in 1 .. Len(p) |-> p[i]]
    BY <1>1
  <2> QED
    BY <1>2, <2>2, <2>3, <2>4, <2>5
<1>6. ASSUME eq # 0, p = SubSeq(name, 1, eq - 1) PROVE IsPrefix(q, name)
  <2>1. Len(p) = eq - 1 /\ \A i \in 1 .. Len(p) : p[i] = name[i]
    BY <1>2, <1>3, <1>6
  <2> QED
    BY <1>2, <1>3, <1>4, <1>6, <2>1
<1> QED
  BY <1>5, <1>6 DEF eq, q

(* What a name and its arguments ask for.                                  *)
Asks(word, args) ==
  IF word \in Name
  THEN [name |-> word, args |-> args, assigned |-> FALSE]
  ELSE IF \E parameter \in Parameters : IsPrefix(Append(parameter, Assign), word)
  THEN LET parameter == CHOOSE p \in Parameters : IsPrefix(Append(p, Assign), word)
       IN  [name |-> parameter,
            args |-> <<SubSeq(word, Len(parameter) + 2, Len(word))>>,
            assigned |-> TRUE]
  ELSE Unknown

Ran == [name : Name \cup {<<>>}, args : Seq(Seq(Typable)), assigned : BOOLEAN]

(* terminal_execute does what the name asks for, whichever way it searches.*)
LEMMA ExecuteAsked ==
  ASSUME NEW buffer, NEW args, StringAt(buffer, 0) \in Seq(Typable)
  PROVE  terminal_execute(buffer, args).ran = Asks(StringAt(buffer, 0), args)
<1> DEFINE name == StringAt(buffer, 0)
           eq == Equals(name)
           before == SubSeq(name, 1, eq - 1)
<1> HIDE DEF name
<1>1. terminal_execute(buffer, args).ran
        = IF name \in Name
          THEN [name |-> name, args |-> args, assigned |-> FALSE]
          ELSE IF eq = 0 \/ before \notin Parameters THEN Unknown
               ELSE [name |-> before,
                     args |-> <<SubSeq(name, eq + 1, Len(name))>>,
                     assigned |-> TRUE]
  BY DEF terminal_execute, Equals, name
<1>2. \A p \in Parameters : IsPrefix(Append(p, Assign), name) <=> eq # 0 /\ p = before
  BY PrefixBeforeEquals DEF name
<1>3. eq \in 0 .. Len(name) /\ Len(name) \in Nat /\ name \in Seq(Typable)
  BY FirstEquals DEF name
<1> HIDE DEF eq
<1>4. CASE name \in Name
  BY <1>1, <1>4 DEF Asks, name
<1>5. CASE name \notin Name /\ (eq = 0 \/ before \notin Parameters)
  <2>1. ~ \E p \in Parameters : IsPrefix(Append(p, Assign), name)
    BY <1>2, <1>5
  <2>2. Asks(name, args) = Unknown
    BY <1>5, <2>1 DEF Asks
  <2> QED
    BY <1>1, <1>5, <2>2 DEF name
<1>6. CASE name \notin Name /\ eq # 0 /\ before \in Parameters
  <2> DEFINE parameter == CHOOSE p \in Parameters : IsPrefix(Append(p, Assign), name)
  <2>1. parameter = before /\ IsPrefix(Append(before, Assign), name)
    BY <1>2, <1>6
  <2>2. Len(before) + 2 = eq + 1
    BY <1>3, <1>6
  <2>3. Asks(name, args) = [name |-> before,
                            args |-> <<SubSeq(name, Len(before) + 2, Len(name))>>,
                            assigned |-> TRUE]
    BY <1>6, <2>1 DEF Asks
  <2> QED
    BY <1>1, <1>6, <2>2, <2>3 DEF name
<1> QED
  BY <1>4, <1>5, <1>6

(* A command that ran has a name, which the string in the buffer begins    *)
(* with; and the buffer changes only when the = of an assignment is lost.  *)
LEMMA ExecuteType ==
  ASSUME NEW buffer \in [Index -> Typable \cup {NUL}], NEW args \in Seq(Seq(Typable)),
         StringAt(buffer, 0) \in Seq(Typable)
  PROVE  LET result == terminal_execute(buffer, args)
             name == StringAt(buffer, 0)
         IN  /\ result.buffer \in [Index -> Typable \cup {NUL}]
             /\ result.ran \in Ran
             /\ result.ran # Unknown =>
                  \E n \in 1 .. Len(name) : SubSeq(name, 1, n) \in Name
             /\ result.ran # Unknown /\ ~result.ran.assigned => result.buffer = buffer
<1> DEFINE result == terminal_execute(buffer, args)
           name == StringAt(buffer, 0)
           eq == Equals(name)
           before == SubSeq(name, 1, eq - 1)
           value == SubSeq(name, eq + 1, Len(name))
<1>1. result = IF name \in Name
               THEN [buffer |-> buffer,
                     ran |-> [name |-> name, args |-> args, assigned |-> FALSE]]
               ELSE [buffer |-> IF eq = 0 THEN buffer ELSE [buffer EXCEPT ![eq-1] = NUL],
                     ran |-> IF eq = 0 \/ before \notin Parameters THEN Unknown
                             ELSE [name |-> before, args |-> <<value>>, assigned |-> TRUE]]
  BY DEF terminal_execute, Equals
<1> HIDE DEF result, name
<1>2. name \in Seq(Typable) /\ eq \in 0 .. Len(name) /\ Len(name) \in Nat
  BY FirstEquals DEF name
<1> HIDE DEF eq
<1>3. \A word \in Name : word \in Seq(Chars \ {Assign}) /\ word # <<>>
  BY TerminalAssumption
<1>4. Unknown \in Ran
  BY DEF Unknown, Ran
<1>5. CASE name \in Name
  <2>1. result.buffer = buffer
        /\ result.ran = [name |-> name, args |-> args, assigned |-> FALSE]
    BY <1>1, <1>5
  <2>2. result.ran \in Ran
    BY <1>5, <2>1 DEF Ran
  <2>3. Len(name) \in 1 .. Len(name) /\ SubSeq(name, 1, Len(name)) = name
    BY <1>2, <1>3, <1>5
  <2> QED
    BY <1>5, <2>1, <2>2, <2>3 DEF result, name
<1>6. CASE name \notin Name /\ (eq = 0 \/ before \notin Parameters)
  <2>1. result.ran = Unknown
        /\ (result.buffer = buffer \/ result.buffer = [buffer EXCEPT ![eq-1] = NUL])
    BY <1>1, <1>6
  <2>2. result.buffer \in [Index -> Typable \cup {NUL}]
    BY <2>1
  <2> QED
    BY <1>4, <2>1, <2>2 DEF result
<1>7. CASE name \notin Name /\ eq # 0 /\ before \in Parameters
  <2>1. result.ran = [name |-> before, args |-> <<value>>, assigned |-> TRUE]
        /\ result.buffer = [buffer EXCEPT ![eq-1] = NUL]
    BY <1>1, <1>7
  <2>2. value \in Seq(Typable) /\ before \in Name
    BY <1>2, <1>7 DEF Name
  <2>3. result.ran \in Ran
    <3> HIDE DEF value, before
    <3>1. <<value>> \in Seq(Seq(Typable))
      BY <2>2
    <3> QED
      BY <2>1, <2>2, <3>1 DEF Ran
  <2>4. eq - 1 \in 1 .. Len(name)
    <3>1. before # <<>>
      BY <1>3, <2>2
    <3>2. eq = 1 => before = <<>>
      BY <1>2
    <3> QED
      BY <1>2, <1>7, <3>1, <3>2
  <2>5. result.buffer \in [Index -> Typable \cup {NUL}]
    BY <2>1
  <2>6. result.ran.assigned
    <3> HIDE DEF value, before
    <3>1. [name |-> before, args |-> <<value>>, assigned |-> TRUE].assigned = TRUE
      OBVIOUS
    <3> QED
      BY <2>1, <3>1, Zenon
  <2> QED
    BY <2>2, <2>3, <2>4, <2>5, <2>6 DEF result, name
<1> QED
  BY <1>5, <1>6, <1>7

-----------------------------------------------------------------------------
(* What is cut out of a line asks for what the line means.                 *)
LEMMA AsksIsMeant ==
  ASSUME NEW buffer, NEW line, Holds(buffer, line), line # <<>>, line[1] # Space
  PROVE  Asks(StringAt(Cut(buffer, line), 0), Args(buffer, line)) = Meant(line)
<1> DEFINE word == SubSeq(line, 1, EndOf(line, 1) - 1)
           args == [k \in 1 .. Argc(line) |-> SubSeq(line, Starts(line)[k+1], Ends(line, k))]
<1>1. StringAt(Cut(buffer, line), 0) = word
  BY NameIsWord
<1>2. Args(buffer, line) = args
  BY ArgumentIsWord DEF Args
<1>3. Meant(line) = Asks(word, args)
  BY DEF Meant, Asks, Ends
<1> QED
  BY <1>1, <1>2, <1>3

(* What the line is cut into are strings of typed characters.              *)
LEMMA CutTypes ==
  ASSUME NEW buffer, NEW line, Holds(buffer, line)
  PROVE  /\ StringAt(Cut(buffer, line), 0) \in Seq(Typable)
         /\ Args(buffer, line) \in Seq(Seq(Typable))
<1>1. line \in Seq(Typable)
  BY DEF Holds
<1>2. StringAt(Cut(buffer, line), 0) \in Seq(Typable)
  BY <1>1, NameIsPrefix
<1>3. Argc(line) \in Nat
  BY <1>1, ArgcOfWords
<1>4. \A k \in 1 .. Argc(line) :
        StringAt(Cut(buffer, line), Starts(line)[k+1] - 1) \in Seq(Typable)
  BY ArgumentIsWord
<1> QED
  BY <1>2, <1>3, <1>4 DEF Args

(* A part of the buffer, and the buffer once what was cut is put back.     *)
Line(buffer, n) == [k \in 1 .. n |-> buffer[k-1]]

PutBack(buffer, n) ==
  [i \in Index |-> IF i < n /\ buffer[i] = NUL THEN Space ELSE buffer[i]]

(* The line is whole again when what was cut becomes spaces.               *)
LEMMA CutIsPutBack ==
  ASSUME NEW buffer, NEW line, Holds(buffer, line)
  PROVE  Line(PutBack(Cut(buffer, line), Len(line)), Len(line)) = line
<1> DEFINE cut == Cut(buffer, line)
<1>1. /\ line \in Seq(Typable) /\ NUL \notin Typable
      /\ Len(line) \in Nat /\ Len(line) <= TERMINAL_BUFFER_SIZE - 1
      /\ TERMINAL_BUFFER_SIZE \in Nat
  BY TerminalAssumption DEF Holds, Index
<1>2. \A i \in 0 .. Len(line) - 1 : cut[i] = IF i + 1 \in Cuts(line) THEN NUL ELSE line[i+1]
  BY CutBuffer
<1>3. \A c \in Cuts(line) : c <= Len(line) => line[c] = Space
  BY <1>1, CutsAreSpaces
<1> HIDE DEF cut
<1>4. ASSUME NEW k \in 1 .. Len(line) PROVE PutBack(cut, Len(line))[k-1] = line[k]
  <2>1. k - 1 \in Index /\ k - 1 < Len(line) /\ k - 1 + 1 = k
        /\ k - 1 \in 0 .. Len(line) - 1 /\ line[k] \in Typable
    BY <1>1 DEF Index
  <2>2. PutBack(cut, Len(line))[k-1] = IF cut[k-1] = NUL THEN Space ELSE cut[k-1]
    BY <2>1 DEF PutBack
  <2>3. cut[k-1] = IF k \in Cuts(line) THEN NUL ELSE line[k]
    BY <1>2, <2>1
  <2> QED
    BY <1>1, <1>3, <2>1, <2>2, <2>3
<1>5. line = [k \in 1 .. Len(line) |-> line[k]]
  BY <1>1
<1> QED
  BY <1>4, <1>5 DEF Line, cut

(* All that terminal_process does with a line that stands in the buffer.   *)
LEMMA Process ==
  ASSUME NEW buffer, NEW line, Holds(buffer, line),
         terminal_process(buffer, Len(line))
  PROVE  /\ terminal_buffer' \in [Index -> Typable \cup {NUL}]
         /\ terminal_pos' = 0 /\ terminal_last_pos' = Len(line)
         /\ terminal_last_ok' \in BOOLEAN /\ ran' \in Ran
         /\ line # <<>> /\ line[1] # Space => ran' = Meant(line)
         /\ terminal_last_ok' /\ ~ran.assigned' =>
              /\ line # <<>> /\ line[1] # Space
              /\ Line(Restored(terminal_buffer)', Len(line)) = line
<1> DEFINE cut == Cut(buffer, line)
           name == StringAt(cut, 0)
           args == Args(buffer, line)
           result == terminal_execute(cut, args)
<1>1. StringAt(buffer, 0) = line
  BY LineIsString
<1>2. /\ terminal_buffer' = result.buffer
      /\ terminal_last_ok' = (result.ran # Unknown)
      /\ terminal_last_pos' = Len(line)
      /\ terminal_pos' = 0
      /\ ran' = result.ran
  BY <1>1 DEF terminal_process, Cut, Args
<1>3. /\ line \in Seq(Typable) /\ cut \in [Index -> Typable \cup {NUL}]
      /\ name \in Seq(Typable) /\ args \in Seq(Seq(Typable))
  BY CutBuffer, CutTypes DEF Holds
<1>4. /\ result.buffer \in [Index -> Typable \cup {NUL}]
      /\ result.ran \in Ran
      /\ result.ran # Unknown => \E n \in 1 .. Len(name) : SubSeq(name, 1, n) \in Name
      /\ result.ran # Unknown /\ ~result.ran.assigned => result.buffer = cut
  <2> HIDE DEF cut, args
  <2> QED
    BY <1>3, ExecuteType
<1>5. result.ran = Asks(name, args)
  <2> HIDE DEF cut, args
  <2> QED
    BY <1>3, ExecuteAsked
<1>6. line # <<>> /\ line[1] # Space => Asks(name, args) = Meant(line)
  BY AsksIsMeant
<1>7. \E n \in 0 .. Len(line) : name = SubSeq(line, 1, n)
  BY NameIsPrefix
<1> HIDE DEF result, name, args, cut
<1>8. ASSUME result.ran # Unknown PROVE line # <<>> /\ line[1] # Space
  <2>1. PICK n \in 1 .. Len(name) : SubSeq(name, 1, n) \in Name
    BY <1>4, <1>8
  <2>2. PICK m \in 0 .. Len(line) : name = SubSeq(line, 1, m)
    BY <1>7
  <2>3. Len(name) = m /\ m \in 1 .. Len(line) /\ name[1] = line[1]
    BY <1>3, <2>1, <2>2
  <2>4. SubSeq(name, 1, n)[1] = name[1] /\ Len(SubSeq(name, 1, n)) = n
    BY <1>3, <2>1
  <2>5. SubSeq(name, 1, n) \in Seq(Chars \ {Assign})
    BY <2>1, TerminalAssumption
  <2>6. SubSeq(name, 1, n)[1] \in Chars
    BY <2>1, <2>4, <2>5
  <2> QED
    BY <1>3, <2>3, <2>4, <2>6, TerminalAssumption
<1>9. ASSUME result.ran # Unknown, ~result.ran.assigned
      PROVE  Line(Restored(terminal_buffer)', Len(line)) = line
  <2>1. terminal_buffer' = cut
    BY <1>2, <1>4, <1>9
  <2>2. Line(PutBack(cut, Len(line)), Len(line)) = line
    BY CutIsPutBack DEF cut
  <2>3. Restored(terminal_buffer)' = PutBack(cut, Len(line))
    BY <1>2, <2>1 DEF Restored, PutBack
  <2> QED
    BY <2>2, <2>3
<1> QED
  BY <1>2, <1>4, <1>5, <1>6, <1>8, <1>9

-----------------------------------------------------------------------------
(* The inductive invariant: the line that is typed stands in the buffer,   *)
(* whole; and so does the last line, once what was cut of it is put back,  *)
(* until a key is typed or the = of an assignment is lost.                 *)
LineKept == \A i \in 0 .. terminal_pos - 1 : terminal_buffer[i] # NUL

TypedKept ==
  /\ typed # TooLong => Len(typed) = terminal_pos /\ typed = Line(terminal_buffer, terminal_pos)
  /\ ~touched => typed = <<>>

LastKept ==
  terminal_last_ok /\ ~touched /\ ~ran.assigned =>
    LET last == Line(Restored(terminal_buffer), terminal_last_pos)
    IN  last # <<>> /\ last[1] # Space /\ ran = Meant(last)

IInv == TypeOK /\ LineKept /\ TypedKept /\ LastKept

(* TooLong is no line; and the indices of the buffer are numbers.          *)
LEMMA Types ==
  /\ Index = 0 .. TERMINAL_BUFFER_SIZE - 1 /\ TERMINAL_BUFFER_SIZE \in Nat \ {0}
  /\ NUL \notin Typable /\ Space \in Typable
  /\ TooLong \notin Seq(Typable) /\ <<>> # TooLong
  /\ \A m \in Seq(Typable) : m # TooLong
<1>1. \A m \in Seq(Typable) : m # TooLong
  <2> SUFFICES ASSUME NEW m \in Seq(Typable), m = TooLong PROVE FALSE
    OBVIOUS
  <2>1. Len(m) = 1 /\ m[1] = NUL
    BY DEF TooLong
  <2> QED
    BY <2>1, TerminalAssumption
<1>2. Len(<<>>) = 0 /\ Len(TooLong) = 1
  BY DEF TooLong
<1> QED
  BY <1>1, <1>2, TerminalAssumption DEF Index, Typable

(* A buffer in which a line stands, once it is terminated.                 *)
LEMMA TerminatedHolds ==
  ASSUME NEW buffer \in [Index -> Typable \cup {NUL}], NEW n \in Index,
         \A i \in 0 .. n - 1 : buffer[i] # NUL
  PROVE  Holds(Terminated(buffer, n), Line(buffer, n)) /\ Len(Line(buffer, n)) = n
<1>1. Index = 0 .. TERMINAL_BUFFER_SIZE - 1 /\ TERMINAL_BUFFER_SIZE \in Nat \ {0}
  BY Types
<1>2. n \in Nat /\ n <= TERMINAL_BUFFER_SIZE - 1
  BY <1>1
<1>3. \A k \in 1 .. n : k - 1 \in Index /\ k - 1 # n /\ buffer[k-1] \in Typable
  <2> SUFFICES ASSUME NEW k \in 1 .. n PROVE k - 1 \in Index /\ k - 1 # n /\ buffer[k-1] \in Typable
    OBVIOUS
  <2>1. k - 1 \in Index /\ k - 1 \in 0 .. n - 1 /\ k - 1 # n
    BY <1>1, <1>2
  <2> QED
    BY <2>1
<1>4. Line(buffer, n) \in Seq(Typable) /\ Len(Line(buffer, n)) = n
  BY <1>2, <1>3 DEF Line
<1>5. \A k \in 1 .. n : Terminated(buffer, n)[k-1] = Line(buffer, n)[k]
  BY <1>3 DEF Terminated, Line
<1>6. Terminated(buffer, n) \in [Index -> Typable \cup {NUL}] /\ Terminated(buffer, n)[n] = NUL
  BY DEF Terminated
<1> QED
  BY <1>4, <1>5, <1>6 DEF Holds

(* The line that a return cuts: the last one again, or the one that is     *)
(* typed.                                                                  *)
Returned ==
  IF terminal_pos = 0 /\ terminal_last_ok
  THEN Line(Restored(terminal_buffer), terminal_last_pos)
  ELSE Line(terminal_buffer, terminal_pos)

(* The return key processes a line that is whole in the buffer.            *)
LEMMA ReturnProcesses ==
  ASSUME TypeOK, LineKept, Return
  PROVE  \E buffer : Holds(buffer, Returned) /\ terminal_process(buffer, Len(Returned))
<1>1. CASE terminal_pos = 0 /\ terminal_last_ok
  <2> DEFINE restored == Restored(terminal_buffer)
             n == terminal_last_pos
  <2>1. restored \in [Index -> Typable \cup {NUL}]
    BY Types DEF TypeOK, Restored
  <2>2. n \in Index /\ \A i \in 0 .. n - 1 : restored[i] # NUL
    <3>1. n \in Index /\ \A i \in 0 .. n - 1 : i \in Index /\ i < n
      BY Types DEF TypeOK
    <3>2. \A i \in Index : i < n => restored[i] # NUL
      BY Types DEF Restored
    <3> QED
      BY <3>1, <3>2
  <2>3. terminal_process(Terminated(restored, n), n)
    BY <1>1 DEF Return
  <2> HIDE DEF restored
  <2>4. Holds(Terminated(restored, n), Line(restored, n)) /\ Len(Line(restored, n)) = n
    BY <2>1, <2>2, TerminatedHolds
  <2>5. Returned = Line(restored, n)
    BY <1>1 DEF Returned, restored
  <2> QED
    BY <2>3, <2>4, <2>5
<1>2. CASE ~(terminal_pos = 0 /\ terminal_last_ok)
  <2>1. terminal_process(Terminated(terminal_buffer, terminal_pos), terminal_pos)
    BY <1>2 DEF Return
  <2>2. /\ Holds(Terminated(terminal_buffer, terminal_pos), Line(terminal_buffer, terminal_pos))
        /\ Len(Line(terminal_buffer, terminal_pos)) = terminal_pos
    BY TerminatedHolds DEF TypeOK, LineKept
  <2>3. Returned = Line(terminal_buffer, terminal_pos)
    BY <1>2 DEF Returned
  <2> QED
    BY <2>1, <2>2, <2>3
<1> QED
  BY <1>1, <1>2

(* What the return key does to the state, and what it runs.                *)
LEMMA ReturnRuns ==
  ASSUME TypeOK, LineKept, Return
  PROVE  /\ terminal_buffer' \in [Index -> Typable \cup {NUL}]
         /\ terminal_pos' = 0 /\ terminal_last_pos' = Len(Returned)
         /\ terminal_last_ok' \in BOOLEAN /\ ran' \in Ran
         /\ Len(Returned) \in Index
         /\ Returned # <<>> /\ Returned[1] # Space => ran' = Meant(Returned)
         /\ terminal_last_ok' /\ ~ran.assigned' =>
              /\ Returned # <<>> /\ Returned[1] # Space
              /\ Line(Restored(terminal_buffer)', Len(Returned)) = Returned
<1>1. PICK buffer : Holds(buffer, Returned) /\ terminal_process(buffer, Len(Returned))
  BY ReturnProcesses
<1>2. Len(Returned) \in Index
  BY <1>1 DEF Holds
<1> HIDE DEF Returned
<1> QED
  BY <1>1, <1>2, Process

(* Return establishes the part about the last line, from what it cut.      *)
LEMMA ReturnKeeps ==
  ASSUME IInv, Return
  PROVE  IInv'
<1>1. /\ terminal_buffer' \in [Index -> Typable \cup {NUL}]
      /\ terminal_pos' = 0 /\ terminal_last_pos' = Len(Returned)
      /\ terminal_last_ok' \in BOOLEAN /\ ran' \in Ran
      /\ Len(Returned) \in Index
      /\ Returned # <<>> /\ Returned[1] # Space => ran' = Meant(Returned)
      /\ terminal_last_ok' /\ ~ran.assigned' =>
           /\ Returned # <<>> /\ Returned[1] # Space
           /\ Line(Restored(terminal_buffer)', Len(Returned)) = Returned
  BY ReturnRuns DEF IInv
<1>2. typed' = <<>> /\ touched' = FALSE /\ skipping' = skipping
  BY DEF Return
<1> HIDE DEF Returned
<1>3. TypeOK'
  <2>1. skipping' \in 0 .. 2
    BY <1>2 DEF IInv, TypeOK
  <2>2. 0 \in Index /\ <<>> \in Seq(Typable)
    BY Types
  <2>3. ran' \in [name : Name \cup {<<>>}, args : Seq(Seq(Typable)), assigned : BOOLEAN]
    BY <1>1 DEF Ran
  <2> QED
    BY <1>1, <1>2, <2>1, <2>2, <2>3 DEF TypeOK
<1>4. LineKept'
  BY <1>1 DEF LineKept
<1>5. TypedKept'
  BY <1>1, <1>2 DEF TypedKept, Line
<1>6. LastKept'
  BY <1>1 DEF LastKept
<1> QED
  BY <1>3, <1>4, <1>5, <1>6 DEF IInv

(* A key adds to the line, or the line is full and is TooLong from then on.*)
LEMMA KeyKeeps ==
  ASSUME IInv, NEW c \in Typable, Key(c)
  PROVE  IInv'
<1>1. /\ Index = 0 .. TERMINAL_BUFFER_SIZE - 1 /\ TERMINAL_BUFFER_SIZE \in Nat \ {0}
      /\ NUL \notin Typable
  BY Types
<1>2. /\ terminal_buffer \in [Index -> Typable \cup {NUL}] /\ terminal_pos \in Index
      /\ terminal_pos' \in Index
      /\ terminal_pos' = Forward(terminal_pos)
      /\ terminal_buffer' = [terminal_buffer EXCEPT ![terminal_pos] = c]
      /\ touched' = TRUE
  BY <1>1 DEF IInv, TypeOK, Key, Forward
<1>3. \A i \in 0 .. terminal_pos - 1 : i \in Index /\ terminal_buffer'[i] = terminal_buffer[i]
  BY <1>1, <1>2
<1>4. terminal_buffer' \in [Index -> Typable \cup {NUL}] /\ terminal_buffer'[terminal_pos] = c
  BY <1>2
<1>5. typed' # TooLong =>
        /\ typed \in Seq(Typable) /\ typed' = Append(typed, c)
        /\ terminal_pos' = terminal_pos + 1
  <2> SUFFICES ASSUME typed' # TooLong
               PROVE  /\ typed \in Seq(Typable) /\ typed' = Append(typed, c)
                      /\ terminal_pos' = terminal_pos + 1
    OBVIOUS
  <2>1. typed # TooLong /\ Len(typed) # TERMINAL_BUFFER_SIZE - 1 /\ typed' = Append(typed, c)
    BY DEF Key
  <2>2. Len(typed) = terminal_pos
    BY <2>1 DEF IInv, TypedKept
  <2> QED
    BY <1>1, <1>2, <2>1, <2>2 DEF IInv, TypeOK, Forward
<1>6. TypeOK'
  <2>1. typed' \in Seq(Typable) \cup {TooLong}
    BY <1>5
  <2> QED
    BY <1>2, <1>4, <2>1 DEF IInv, TypeOK, Key
<1>7. LineKept'
  BY <1>1, <1>2, <1>3, <1>4 DEF IInv, LineKept, Forward
<1>8. TypedKept'
  <2> SUFFICES ASSUME typed' # TooLong
               PROVE  Len(typed') = terminal_pos' /\ typed' = Line(terminal_buffer', terminal_pos')
    BY <1>2 DEF TypedKept
  <2>1. /\ typed \in Seq(Typable) /\ typed' = Append(typed, c)
        /\ terminal_pos' = terminal_pos + 1 /\ typed # TooLong
    BY <1>5, Types
  <2>2. Len(typed) = terminal_pos /\ typed = Line(terminal_buffer, terminal_pos)
    BY <2>1 DEF IInv, TypedKept
  <2>3. Len(typed') = terminal_pos' /\ typed' \in Seq(Typable)
    BY <2>1, <2>2
  <2>4. ASSUME NEW k \in 1 .. terminal_pos' PROVE typed'[k] = terminal_buffer'[k-1]
    <3>1. terminal_pos \in Nat /\ k \in 1 .. terminal_pos + 1
      BY <1>1, <1>2, <2>1
    <3>2. CASE k = terminal_pos + 1
      BY <1>4, <2>1, <2>2, <3>1, <3>2
    <3>3. CASE k \in 1 .. terminal_pos
      <4>1. typed'[k] = typed[k]
        BY <2>1, <2>2, <3>3
      <4>2. typed[k] = terminal_buffer[k-1]
        BY <2>2, <3>3 DEF Line
      <4>3. k - 1 \in 0 .. terminal_pos - 1
        BY <3>1, <3>3
      <4> QED
        BY <1>3, <4>1, <4>2, <4>3
    <3> QED
      BY <3>1, <3>2, <3>3
  <2>5. typed' = [k \in 1 .. Len(typed') |-> typed'[k]]
    BY <2>3
  <2> QED
    BY <2>3, <2>4, <2>5 DEF Line
<1>9. LastKept'
  BY <1>2 DEF LastKept
<1> QED
  BY <1>6, <1>7, <1>8, <1>9 DEF IInv

(* Backspace takes the last character of the line.                         *)
LEMMA BackKeeps ==
  ASSUME IInv, Back
  PROVE  IInv'
<1>1. /\ Index = 0 .. TERMINAL_BUFFER_SIZE - 1 /\ TERMINAL_BUFFER_SIZE \in Nat \ {0}
      /\ <<>> # TooLong
  BY Types
<1>2. /\ terminal_pos \in Index /\ terminal_pos' = terminal_pos - 1 /\ terminal_pos' \in Nat
      /\ terminal_pos' \in Index
      /\ terminal_buffer' = terminal_buffer /\ touched' = touched
  BY <1>1 DEF IInv, TypeOK, Back
<1>3. touched
  BY <1>1, <1>2 DEF IInv, TypeOK, TypedKept, Back
<1>4. typed # TooLong =>
        /\ typed \in Seq(Typable) /\ Len(typed) = terminal_pos
        /\ typed' = SubSeq(typed, 1, Len(typed) - 1)
        /\ typed = Line(terminal_buffer, terminal_pos)
  BY DEF IInv, TypeOK, TypedKept, Back, Front
<1>5. typed = TooLong => typed' = TooLong
  BY DEF Back
<1>6. typed # TooLong => typed' = [k \in 1 .. terminal_pos - 1 |-> typed[k]]
                         /\ typed' \in Seq(Typable) /\ Len(typed') = terminal_pos'
  <2> SUFFICES ASSUME typed # TooLong
               PROVE  typed' = [k \in 1 .. terminal_pos - 1 |-> typed[k]]
                      /\ typed' \in Seq(Typable) /\ Len(typed') = terminal_pos'
    OBVIOUS
  <2> QED
    BY <1>2, <1>4
<1>7. TypeOK'
  <2>1. typed' \in Seq(Typable) \cup {TooLong}
    BY <1>5, <1>6
  <2> QED
    BY <1>2, <2>1 DEF IInv, TypeOK, Back
<1>8. LineKept'
  BY <1>1, <1>2 DEF IInv, LineKept
<1>9. TypedKept'
  <2> SUFFICES ASSUME typed # TooLong
               PROVE  Len(typed') = terminal_pos' /\ typed' = Line(terminal_buffer', terminal_pos')
    BY <1>2, <1>3, <1>5 DEF TypedKept
  <2>1. \A k \in 1 .. terminal_pos - 1 : typed[k] = terminal_buffer[k-1]
    BY <1>2, <1>4 DEF Line
  <2> QED
    BY <1>2, <1>6, <2>1 DEF Line
<1>10. LastKept'
  BY <1>2, <1>3 DEF LastKept
<1> QED
  BY <1>7, <1>8, <1>9, <1>10 DEF IInv

(* Every step keeps the invariant.                                         *)
LEMMA Inductive ==
  ASSUME IInv, [Next]_vars
  PROVE  IInv'
<1>1. CASE Return
  BY <1>1, ReturnKeeps
<1>2. CASE Back
  BY <1>2, BackKeeps
<1>3. CASE \E c \in Typable : Key(c)
  BY <1>3, KeyKeeps
<1>4. CASE Escape \/ Skip
  <2>1. /\ UNCHANGED <<terminal_buffer, terminal_pos, terminal_last_pos, terminal_last_ok,
                       history>>
        /\ skipping' \in 0 .. 2
    BY <1>4 DEF IInv, TypeOK, Escape, Skip
  <2> QED
    BY <2>1 DEF IInv, TypeOK, LineKept, TypedKept, LastKept, Restored, history
<1>5. CASE terminal_reset
  <2>1. /\ terminal_buffer' = [terminal_buffer EXCEPT ![0] = NUL]
        /\ terminal_pos' = 0 /\ terminal_last_pos' = 0
        /\ terminal_last_ok' = FALSE /\ touched' = FALSE
        /\ typed' = <<>> /\ ran' = Unknown /\ skipping' = skipping
    BY <1>5 DEF terminal_reset
  <2>2. TypeOK'
    BY <2>1, Types DEF IInv, TypeOK, Unknown
  <2> QED
    BY <2>1, <2>2 DEF IInv, LineKept, TypedKept, LastKept, Line
<1>6. CASE UNCHANGED vars
  BY <1>6 DEF IInv, TypeOK, LineKept, TypedKept, LastKept, Restored, vars, history
<1> QED
  BY <1>1, <1>2, <1>3, <1>4, <1>5, <1>6 DEF Next

(* The terminal begins with it.                                            *)
LEMMA Initially ==
  ASSUME Init
  PROVE  IInv
<1>1. TypeOK
  BY Types DEF Init, TypeOK, Unknown
<1> QED
  BY <1>1 DEF Init, IInv, LineKept, TypedKept, LastKept, Line

-----------------------------------------------------------------------------
(* No character is written beyond the buffer, and what is run has the name *)
(* of a command or parameter, and strings of typed characters as arguments *)
(* (terminal_tick, terminal_process, terminal_execute).                    *)
THEOREM TerminalTypeOK == Spec => []TypeOK
<1>1. Init => IInv
  BY Initially
<1>2. IInv /\ [Next]_vars => IInv'
  BY Inductive
<1>3. IInv => TypeOK
  BY DEF IInv
<1> QED
  BY <1>1, <1>2, <1>3, PTL DEF Spec

(* The return key runs what stands on the line, whatever was typed before  *)
(* and erased, and whatever earlier lines left in the buffer.              *)
THEOREM TerminalRunsTyped == Spec => RunsTyped
<1>1. Init => IInv
  BY Initially
<1>2. IInv /\ [Next]_vars => IInv'
  BY Inductive
<1>3. IInv /\ [Next]_vars =>
        [Return /\ typed # <<>> /\ typed # TooLong /\ typed[1] # Space
           => ran' = Meant(typed)]_vars
  <2> SUFFICES ASSUME IInv, Return, typed # <<>>, typed # TooLong, typed[1] # Space
               PROVE  ran' = Meant(typed)
    OBVIOUS
  <2>1. Len(typed) = terminal_pos /\ typed = Line(terminal_buffer, terminal_pos)
        /\ typed \in Seq(Typable)
    BY DEF IInv, TypedKept, TypeOK
  <2>2. terminal_pos # 0
    BY <2>1
  <2>3. Returned = typed
    BY <2>1, <2>2 DEF Returned
  <2>4. Returned # <<>> /\ Returned[1] # Space => ran' = Meant(Returned)
    BY ReturnRuns DEF IInv
  <2> QED
    BY <2>3, <2>4
<1> QED
  BY <1>1, <1>2, <1>3, PTL DEF Spec, RunsTyped

(* A return, when no key was pressed, puts the last command together again *)
(* from the pieces it was cut into, and runs it with the same arguments;   *)
(* the other return, with the same bytes, is of an assignment.             *)
THEOREM TerminalRunsAgain == Spec => RunsAgainUntouched
<1>1. Init => IInv
  BY Initially
<1>2. IInv /\ [Next]_vars => IInv'
  BY Inductive
<1>3. IInv /\ [Next]_vars =>
        [Return /\ typed = <<>> /\ terminal_last_ok /\ ~touched /\ ~ran.assigned
           => ran' = ran]_vars
  <2> SUFFICES ASSUME IInv, Return, typed = <<>>, terminal_last_ok, ~touched, ~ran.assigned
               PROVE  ran' = ran
    OBVIOUS
  <2>1. terminal_pos = 0
    BY Types DEF IInv, TypedKept
  <2>2. Returned = Line(Restored(terminal_buffer), terminal_last_pos)
    BY <2>1 DEF Returned
  <2>3. Returned # <<>> /\ Returned[1] # Space /\ ran = Meant(Returned)
    BY <2>2 DEF IInv, LastKept
  <2>4. Returned # <<>> /\ Returned[1] # Space => ran' = Meant(Returned)
    BY ReturnRuns DEF IInv
  <2> QED
    BY <2>3, <2>4
<1> QED
  BY <1>1, <1>2, <1>3, PTL DEF Spec, RunsAgainUntouched

=============================================================================
