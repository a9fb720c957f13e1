--------------------------- MODULE WordCount_proofs ---------------------------
(***************************************************************************)
(* Theorems on WordCount, for every set of files and every IntMax.         *)
(***************************************************************************)
EXTENDS WordCount, FiniteSetTheorems, TLAPS

(* What TypeOK needs to be inductive: no count outgrows charCount. *)
CountsInv ==
  /\ TypeOK
  /\ wordCount <= charCount
  /\ newlineCount <= charCount

(* Where the loop is in the file, and what it may know when it stops. *)
PlaceInv ==
  /\ pc \in {"fopen", "loop"} =>
       /\ prev = IF pos = 0 THEN "byte255" ELSE file[pos]
       /\ charCount = pos
  /\ char_signed => charCount = pos
  /\ pc = "ended" /\ ~failed => pos = Len(file)
  /\ pc = "done" =>
       /\ char_signed
       /\ failed \/ pos = Len(file) \/ (pos < Len(file) /\ file[pos + 1] = "byte255")

LinesCounted == newlineCount = Cardinality(NewlinesIn(pos))

LEMMA FileBytes ==
  ASSUME file \in Files
  PROVE  /\ file \in Seq(Byte)
         /\ Len(file) \in Nat
         /\ DOMAIN file = 1..Len(file)
         /\ \A i \in 1..Len(file) : file[i] \in Byte
BY CountAssumption

-----------------------------------------------------------------------------
(* Types.                                                                  *)

LEMMA CountTyped ==
  ASSUME CountsInv, NEW c \in Byte, charCount < IntMax, Count(c)
  PROVE  /\ prev' \in Byte
         /\ \A n \in {wordCount', charCount', newlineCount'} : n \in 0..IntMax
         /\ wordCount' <= charCount'
         /\ newlineCount' <= charCount'
<1>1. /\ wordCount \in 0..IntMax /\ charCount \in 0..IntMax /\ newlineCount \in 0..IntMax
      /\ wordCount <= charCount /\ newlineCount <= charCount /\ IntMax \in Nat
  BY CountAssumption DEF CountsInv, TypeOK
<1>2. charCount' = charCount + 1 /\ prev' = c
  BY DEF Count
<1>3. wordCount' = wordCount + 1 \/ wordCount' = wordCount
  BY DEF Count
<1>4. newlineCount' = newlineCount + 1 \/ newlineCount' = newlineCount
  BY DEF Count
<1> QED
  BY <1>1, <1>2, <1>3, <1>4

LEMMA InitCounts == Init => CountsInv
<1> SUFFICES ASSUME Init PROVE CountsInv
  OBVIOUS
<1>1. Len(file) \in Nat
  BY FileBytes DEF Init
<1>2. 0 \in 0..IntMax /\ 0 \in 0..Len(file) /\ "byte255" \in Byte
  BY <1>1, CountAssumption DEF Byte
<1>3. wordCount = 0 /\ charCount = 0 /\ newlineCount = 0
  BY DEF Init
<1>4. \A n \in {wordCount, charCount, newlineCount} : n \in 0..IntMax
  BY <1>2, <1>3
<1>5. TypeOK
  BY <1>2, <1>4 DEF Init, TypeOK
<1> QED
  BY <1>3, <1>5 DEF CountsInv

LEMMA StepCounts == CountsInv /\ [Next]_vars => CountsInv'
<1> SUFFICES ASSUME CountsInv, [Next]_vars PROVE CountsInv'
  OBVIOUS
<1>0. Len(file) \in Nat /\ \A i \in 1..Len(file) : file[i] \in Byte
  BY FileBytes DEF CountsInv, TypeOK
<1>1. CASE UNCHANGED vars
  BY <1>1 DEF CountsInv, TypeOK, vars, counts
<1>2. CASE Opens
  BY <1>2 DEF Opens, CountsInv, TypeOK, counts
<1>3. CASE OpenFails
  BY <1>3 DEF OpenFails, CountsInv, TypeOK, counts
<1>4. CASE CountByte
  <2>1. pos + 1 \in 1..Len(file)
    BY <1>0, <1>4 DEF CountByte, CountsInv, TypeOK
  <2>2. file[pos + 1] \in Byte
    BY <1>0, <2>1
  <2>3. charCount < IntMax /\ Count(file[pos + 1])
    BY <1>4 DEF CountByte, HasRoom
  <2>4. pos' \in 0..Len(file) /\ UNCHANGED <<file, char_signed, failed, pc>>
    BY <1>0, <2>1, <1>4 DEF CountByte
  <2> QED
    BY <2>2, <2>3, <2>4, CountTyped DEF CountsInv, TypeOK
<1>5. CASE StopsAtByte
  BY <1>5 DEF StopsAtByte, CountsInv, TypeOK, counts
<1>6. CASE ReachesEnd
  BY <1>6 DEF ReachesEnd, CountsInv, TypeOK, counts
<1>7. CASE ReadFails
  BY <1>7 DEF ReadFails, CountsInv, TypeOK, counts
<1>8. CASE StopsAtEnd
  BY <1>8 DEF StopsAtEnd, CountsInv, TypeOK, counts
<1>9. CASE CountEnd
  <2>1. charCount < IntMax /\ Count("byte255") /\ "byte255" \in Byte
    BY <1>9 DEF CountEnd, HasRoom, Byte
  <2> QED
    BY <2>1, <1>9, CountTyped DEF CountEnd, CountsInv, TypeOK
<1>10. CASE Overflows
  BY <1>10 DEF Overflows, CountsInv, TypeOK, counts
<1> QED
  BY <1>1, <1>2, <1>3, <1>4, <1>5, <1>6, <1>7, <1>8, <1>9, <1>10 DEF Next, Loop

(* The state has its types: in particular no count leaves the range of an  *)
(* int before the build's undefined behaviour, "overflow", is reached.     *)
THEOREM TypeCorrect == Spec => []TypeOK
<1>1. CountsInv => TypeOK
  BY DEF CountsInv
<1> QED
  BY InitCounts, StepCounts, <1>1, PTL DEF Spec

-----------------------------------------------------------------------------
(* Places.                                                                 *)

LEMMA InitPlace == Init => PlaceInv
BY DEF Init, PlaceInv

LEMMA StepPlace == CountsInv /\ PlaceInv /\ [Next]_vars => PlaceInv'
<1> SUFFICES ASSUME CountsInv, PlaceInv, [Next]_vars PROVE PlaceInv'
  OBVIOUS
<1>0. Len(file) \in Nat /\ pos \in 0..Len(file)
  BY FileBytes DEF CountsInv, TypeOK
<1>1. CASE UNCHANGED vars
  BY <1>1 DEF PlaceInv, vars, counts
<1>2. CASE Opens
  BY <1>2 DEF Opens, PlaceInv, counts
<1>3. CASE OpenFails
  BY <1>3 DEF OpenFails, PlaceInv, counts
<1>4. CASE CountByte
  <2>1. /\ pc = "loop" /\ pos' = pos + 1 /\ charCount' = charCount + 1
        /\ prev' = file[pos + 1] /\ UNCHANGED <<file, char_signed, failed, pc>>
    BY <1>4 DEF CountByte, Count
  <2>2. pos' # 0 /\ charCount' = pos'
    BY <1>0, <2>1 DEF PlaceInv
  <2> QED
    BY <2>1, <2>2 DEF PlaceInv
<1>5. CASE StopsAtByte
  BY <1>5 DEF StopsAtByte, GoesOn, PlaceInv, counts
<1>6. CASE ReachesEnd
  BY <1>6 DEF ReachesEnd, PlaceInv, counts
<1>7. CASE ReadFails
  BY <1>7 DEF ReadFails, PlaceInv, counts
<1>8. CASE StopsAtEnd
  BY <1>8 DEF StopsAtEnd, GoesOn, PlaceInv, counts
<1>9. CASE CountEnd
  BY <1>9 DEF CountEnd, GoesOn, PlaceInv
<1>10. CASE Overflows
  BY <1>10 DEF Overflows, PlaceInv, counts
<1> QED
  BY <1>1, <1>2, <1>3, <1>4, <1>5, <1>6, <1>7, <1>8, <1>9, <1>10 DEF Next, Loop

-----------------------------------------------------------------------------
(* Counts.                                                                 *)

(* A set of positions up to n, and n + 1. *)
LEMMA OneMore ==
  ASSUME NEW n \in Nat, NEW S, S \subseteq 1..n
  PROVE  /\ Cardinality(S) \in Nat
         /\ Cardinality(S \cup {n + 1}) = Cardinality(S) + 1
<1>1. IsFiniteSet(1..n)
  BY FS_Interval
<1>2. IsFiniteSet(S)
  BY <1>1, FS_Subset
<1>3. n + 1 \notin S
  OBVIOUS
<1> QED
  BY <1>2, <1>3, FS_AddElement, FS_CardinalityType

LEMMA NoneYet == NewlinesIn(0) = {} /\ WordsIn(0) = {}
BY DEF NewlinesIn, WordsIn, PiecesIn

LEMMA InitWords == Init => WordsCounted /\ LinesCounted
<1> SUFFICES ASSUME Init PROVE WordsCounted /\ LinesCounted
  OBVIOUS
<1>1. Cardinality({}) = 0
  BY FS_EmptySet
<1>2. pos = 0 /\ wordCount = 0 /\ newlineCount = 0 /\ ~InsideWord(0)
  BY DEF Init, InsideWord
<1> QED
  BY <1>1, <1>2, NoneYet DEF WordsCounted, LinesCounted

(* A byte is counted that is a newline, and only then is a line. *)
LEMMA ByteLines ==
  ASSUME CountsInv, LinesCounted, CountByte
  PROVE  LinesCounted'
<1> DEFINE b == file[pos + 1] = "newline"
<1>1. pos \in Nat /\ newlineCount \in Nat /\ pos' = pos + 1 /\ file' = file
  BY FileBytes, CountAssumption DEF CountsInv, TypeOK, CountByte
<1>2. newlineCount' = IF b THEN newlineCount + 1 ELSE newlineCount
  BY DEF CountByte, Count, IsNewline
<1>3. NewlinesIn(pos + 1) = IF b THEN NewlinesIn(pos) \cup {pos + 1} ELSE NewlinesIn(pos)
  BY <1>1 DEF NewlinesIn
<1>4. NewlinesIn(pos) \subseteq 1..pos
  BY DEF NewlinesIn
<1>5. Cardinality(NewlinesIn(pos + 1)) =
        IF b THEN Cardinality(NewlinesIn(pos)) + 1 ELSE Cardinality(NewlinesIn(pos))
  <2>1. Cardinality(NewlinesIn(pos) \cup {pos + 1}) = Cardinality(NewlinesIn(pos)) + 1
    BY <1>1, <1>4, OneMore
  <2> QED
    BY <1>3, <2>1
<1>6. NewlinesIn(pos)' = NewlinesIn(pos + 1)
  BY <1>1 DEF NewlinesIn
<1> QED
  BY <1>1, <1>2, <1>5, <1>6 DEF LinesCounted

(* A byte ends a word, or begins one, or neither; the first byte may end a *)
(* word that never began.                                                  *)
LEMMA ByteWords ==
  ASSUME CountsInv, PlaceInv, WordsCounted, CountByte
  PROVE  WordsCounted'
<1> DEFINE b == file[pos + 1] \notin Separator /\ (pos = 0 \/ file[pos] \in Separator)
           Leading(n) == n > 0 /\ file[1] \in Separator
<1>1. /\ pos \in Nat /\ wordCount \in Nat /\ pos' = pos + 1 /\ file' = file
      /\ prev = IF pos = 0 THEN "byte255" ELSE file[pos]
  BY FileBytes, CountAssumption DEF CountsInv, TypeOK, PlaceInv, CountByte
<1>2. wordCount' = IF prev \notin Separator /\ file[pos + 1] \in Separator
                   THEN wordCount + 1 ELSE wordCount
  BY DEF CountByte, Count, EndsWord
<1>3. WordsIn(pos + 1) = IF b THEN WordsIn(pos) \cup {pos + 1} ELSE WordsIn(pos)
  BY <1>1 DEF WordsIn, PiecesIn
<1>4. WordsIn(pos) \subseteq 1..pos
  BY DEF WordsIn, PiecesIn
<1>5. /\ Cardinality(WordsIn(pos)) \in Nat
      /\ Cardinality(WordsIn(pos) \cup {pos + 1}) = Cardinality(WordsIn(pos)) + 1
  BY <1>1, <1>4, OneMore
<1>6. Cardinality(WordsIn(pos + 1)) =
        IF b THEN Cardinality(WordsIn(pos)) + 1 ELSE Cardinality(WordsIn(pos))
  BY <1>3, <1>5
<1>7. Cardinality(WordsIn(pos)) \in Nat
  BY <1>5
<1>8. /\ WordsIn(pos)' = WordsIn(pos + 1)
      /\ InsideWord(pos)' = InsideWord(pos + 1)
      /\ (file[1])' = file[1]
  BY <1>1 DEF WordsIn, PiecesIn, InsideWord
<1>9. "byte255" \notin Separator
  BY DEF Separator
<1>10. InsideWord(pos + 1) <=> file[pos + 1] \notin Separator
  BY <1>1 DEF InsideWord
<1>11. CASE pos = 0
  <2>1. ~InsideWord(pos) /\ ~Leading(pos) /\ (Leading(pos + 1) <=> file[pos + 1] \in Separator)
    BY <1>11 DEF InsideWord
  <2>2. wordCount = Cardinality(WordsIn(pos))
    BY <1>1, <1>7, <1>11, <2>1 DEF WordsCounted
  <2> QED
    BY <1>1, <1>2, <1>6, <1>7, <1>8, <1>9, <1>10, <1>11, <2>1, <2>2 DEF WordsCounted
<1>12. CASE pos # 0
  <2>1. /\ InsideWord(pos) <=> file[pos] \notin Separator
        /\ Leading(pos) <=> Leading(pos + 1)
    BY <1>1, <1>12 DEF InsideWord
  <2>2. wordCount + (IF InsideWord(pos) THEN 1 ELSE 0)
          = Cardinality(WordsIn(pos)) + (IF Leading(pos + 1) THEN 1 ELSE 0)
    BY <2>1 DEF WordsCounted
  <2> QED
    BY <1>1, <1>2, <1>6, <1>7, <1>8, <1>10, <1>12, <2>1, <2>2 DEF WordsCounted
<1> QED
  BY <1>11, <1>12

LEMMA StepWords ==
  CountsInv /\ PlaceInv /\ WordsCounted /\ LinesCounted /\ [Next]_vars
    => WordsCounted' /\ LinesCounted'
<1> SUFFICES ASSUME CountsInv, PlaceInv, WordsCounted, LinesCounted, [Next]_vars
             PROVE  WordsCounted' /\ LinesCounted'
  OBVIOUS
<1>1. CASE CountByte
  BY <1>1, ByteLines, ByteWords
<1>2. ASSUME UNCHANGED <<file, pos, wordCount, newlineCount>>
      PROVE  WordsCounted' /\ LinesCounted'
  BY <1>2 DEF WordsCounted, LinesCounted, WordsIn, PiecesIn, NewlinesIn, InsideWord
<1>3. CASE CountEnd
  BY <1>2, <1>3 DEF CountEnd, Count, EndsWord, IsNewline, Separator
<1>4. CASE UNCHANGED vars \/ Opens \/ OpenFails \/ ReadFails
  BY <1>2, <1>4 DEF vars, counts, Opens, OpenFails, ReadFails
<1>5. CASE StopsAtByte \/ ReachesEnd \/ StopsAtEnd \/ Overflows
  BY <1>2, <1>5 DEF counts, StopsAtByte, ReachesEnd, StopsAtEnd, Overflows
<1> QED
  BY <1>1, <1>3, <1>4, <1>5 DEF Next, Loop

(* Words are counted where they end, whatever the file: one is missing     *)
(* while the last one has not ended, one too many after a separator at     *)
(* the beginning.                                                          *)
THEOREM WordsCountedHolds == Spec => []WordsCounted
BY InitCounts, StepCounts, InitPlace, StepPlace, InitWords, StepWords, PTL DEF Spec

(***************************************************************************)
(* The lines and bytes counted are those of wc(1); so are the words, of a  *)
(* file that begins with one, ends with a newline and has no white space   *)
(* that only wc(1) knows.  Then both divide it alike.                      *)
(***************************************************************************)
THEOREM AgreesHolds == Spec => []AgreesWithWc
<1>1. CountsInv /\ PlaceInv /\ WordsCounted /\ LinesCounted => AgreesWithWc
  <2> SUFFICES ASSUME CountsInv, PlaceInv, WordsCounted, LinesCounted,
                      pc = "done", ~failed, ~Holds("byte255")
               PROVE  /\ newlineCount = Cardinality(NewlinesIn(Len(file)))
                      /\ charCount = Len(file)
                      /\ ~Holds("feed") /\ (file # << >> => file[1] \notin Separator /\ file[Len(file)] = "newline")
                           => wordCount = Cardinality(WcWordsIn(Len(file)))
    BY DEF AgreesWithWc
  <2>1. /\ file \in Seq(Byte) /\ Len(file) \in Nat /\ DOMAIN file = 1..Len(file)
        /\ pos \in 0..Len(file) /\ wordCount \in Nat
    BY FileBytes, CountAssumption DEF CountsInv, TypeOK
  <2>2. pos = Len(file)
    <3>1. ASSUME pos < Len(file) PROVE file[pos + 1] # "byte255"
      <4>1. pos + 1 \in DOMAIN file
        BY <2>1, <3>1
      <4> QED
        BY <4>1 DEF Holds
    <3> QED
      BY <3>1 DEF PlaceInv
  <2>3. charCount = Len(file)
    BY <2>2 DEF PlaceInv
  <2>4. newlineCount = Cardinality(NewlinesIn(Len(file)))
    BY <2>2 DEF LinesCounted
  <2>5. ASSUME ~Holds("feed"), file # << >> => file[1] \notin Separator /\ file[Len(file)] = "newline"
        PROVE  wordCount = Cardinality(WcWordsIn(Len(file)))
    <3>1. ~InsideWord(pos) /\ ~(pos > 0 /\ file[1] \in Separator)
      BY <2>1, <2>2, <2>5 DEF InsideWord, Separator
    <3>2. Cardinality(WordsIn(pos)) \in Nat
      <4>1. WordsIn(pos) \subseteq 1..pos
        BY DEF WordsIn, PiecesIn
      <4>2. pos \in Nat
        BY <2>1
      <4> QED
        BY <4>1, <4>2, OneMore
    <3>3. wordCount = Cardinality(WordsIn(pos))
      BY <2>1, <3>1, <3>2 DEF WordsCounted
    <3>4. \A i \in 1..Len(file) : file[i] \in Separator <=> file[i] \in Separator \cup {"feed"}
      BY <2>1, <2>5 DEF Holds
    <3>5. WordsIn(Len(file)) = WcWordsIn(Len(file))
      BY <2>1, <3>4 DEF WordsIn, WcWordsIn, PiecesIn
    <3> QED
      BY <2>2, <3>3, <3>5
  <2> QED
    BY <2>3, <2>4, <2>5
<1> QED
  BY InitCounts, StepCounts, InitPlace, StepPlace, InitWords, StepWords, <1>1, PTL DEF Spec

=============================================================================
