------------------------------- MODULE WordCount -------------------------------
(***************************************************************************)
(* word_count of builtins.c, the same in milestones 3 and 4: the loop of   *)
(* wc over the bytes of a file.                                            *)
(*                                                                         *)
(* Bytes are told apart as far as the loop and wc(1) do: the newline, a    *)
(* blank (tab, carriage return or space), a feed (form feed or vertical    *)
(* tab: white space of which the loop does not know), the byte 255, any    *)
(* other.  255 is special because fgetc's result is stored in a char       *)
(* before it is compared with EOF, which is -1: where char is signed that  *)
(* byte is EOF, and where it is not, EOF is that byte.                     *)
(***************************************************************************)
EXTENDS Integers, Sequences, FiniteSets

CONSTANTS
  Files,        \* what the file may hold
  IntMax        \* the largest int

Separator == {"newline", "blank"}
Byte == Separator \cup {"feed", "byte255", "other"}

ASSUME CountAssumption ==
  /\ Files \subseteq Seq(Byte)
  /\ IntMax \in Nat

VARIABLES
  file,         \* the bytes of the file
  char_signed,  \* is char a signed type in this build?
  pos,          \* bytes of the file that were counted
  prev,
  wordCount,
  charCount,
  newlineCount,
  failed,       \* history: has a read failed?
  pc            \* "fopen", "loop", "ended" (fgetc is at its end), "done", "error"
                \* or "overflow" (an int was counted beyond IntMax: undefined)

counts == <<wordCount, charCount, newlineCount>>
vars == <<file, char_signed, pos, prev, counts, failed, pc>>

-----------------------------------------------------------------------------
(* A definition Name_Change differs from the code as a bug would; it only  *)
(* serves to show that a property notices.                                 *)

EndsWord_Every(c) == c \in Separator
EndsWord(c) == prev \notin Separator /\ c \in Separator

IsNewline_Any(c) == c \in Separator
IsNewline(c) == c = "newline"

(* An int can count one more. *)
HasRoom_OffByOne == charCount <= IntMax
HasRoom == charCount < IntMax

(* The body of the loop, for the byte c; the ints stay within their range. *)
Count(c) ==
  /\ wordCount' = IF EndsWord(c) THEN wordCount + 1 ELSE wordCount
  /\ newlineCount' = IF IsNewline(c) THEN newlineCount + 1 ELSE newlineCount
  /\ charCount' = charCount + 1
  /\ prev' = c

Opens ==
  /\ pc = "fopen"
  /\ pc' = "loop"
  /\ UNCHANGED <<file, char_signed, pos, prev, counts, failed>>

(* No name was given, or fopen returns NULL. *)
OpenFails ==
  /\ pc = "fopen"
  /\ pc' = "error"
  /\ UNCHANGED <<file, char_signed, pos, prev, counts, failed>>

(* curr != EOF. *)
GoesOn_Always(c) == TRUE
GoesOn(c) == ~(char_signed /\ c = "byte255")

CountByte ==
  /\ pc = "loop"
  /\ pos < Len(file)
  /\ GoesOn(file[pos + 1])
  /\ HasRoom
  /\ Count(file[pos + 1])
  /\ pos' = pos + 1
  /\ UNCHANGED <<file, char_signed, failed, pc>>

(* A byte that looks like the end. *)
StopsAtByte ==
  /\ pc = "loop"
  /\ pos < Len(file)
  /\ ~GoesOn(file[pos + 1])
  /\ pc' = "done"
  /\ UNCHANGED <<file, char_signed, pos, prev, counts, failed>>

(* fgetc returns EOF, now and from now on. *)
ReachesEnd ==
  /\ pc = "loop"
  /\ pos = Len(file)
  /\ pc' = "ended"
  /\ UNCHANGED <<file, char_signed, pos, prev, counts, failed>>

(* A read fails (or the file is a directory): fgetc returns EOF too.       *)
ReadFails ==
  /\ pc = "loop"
  /\ failed' = TRUE
  /\ pc' = "ended"
  /\ UNCHANGED <<file, char_signed, pos, prev, counts>>

StopsAtEnd ==
  /\ pc = "ended"
  /\ ~GoesOn("byte255")
  /\ pc' = "done"
  /\ UNCHANGED <<file, char_signed, pos, prev, counts, failed>>

(* EOF stored in an unsigned char is a byte like others, without end.      *)
CountEnd ==
  /\ pc = "ended"
  /\ GoesOn("byte255")
  /\ HasRoom
  /\ Count("byte255")
  /\ UNCHANGED <<file, char_signed, pos, failed, pc>>

Overflows ==
  /\ ~HasRoom
  /\ \/ pc = "loop" /\ pos < Len(file) /\ GoesOn(file[pos + 1])
     \/ pc = "ended" /\ GoesOn("byte255")
  /\ pc' = "overflow"
  /\ UNCHANGED <<file, char_signed, pos, prev, counts, failed>>

(* prev is EOF at first, which a char holds as the byte 255. *)
Init ==
  /\ file \in Files
  /\ char_signed \in BOOLEAN
  /\ pos = 0
  /\ prev = "byte255"
  /\ wordCount = 0
  /\ charCount = 0
  /\ newlineCount = 0
  /\ failed = FALSE
  /\ pc = "fopen"

Loop == CountByte \/ StopsAtByte \/ ReachesEnd \/ StopsAtEnd \/ CountEnd \/ Overflows

Next == Opens \/ OpenFails \/ Loop \/ ReadFails

Spec == Init /\ [][Next]_vars

-----------------------------------------------------------------------------
(* What is in the first n bytes of a file.                                 *)

NewlinesIn(n) == {i \in 1..n : file[i] = "newline"}

(* Where a piece begins that has none of the separators in it. *)
PiecesIn(n, separators) ==
  {i \in 1..n : file[i] \notin separators /\ (i = 1 \/ file[i-1] \in separators)}

(* The words as word_count divides them, and as POSIX has wc(1) do: at any *)
(* white space, which is what isspace(3) knows in the C locale.            *)
WordsIn(n) == PiecesIn(n, Separator)
WcWordsIn(n) == PiecesIn(n, Separator \cup {"feed"})

InsideWord(n) == n > 0 /\ file[n] \notin Separator

-----------------------------------------------------------------------------
(* Properties.                                                             *)

TypeOK ==
  /\ file \in Files
  /\ char_signed \in BOOLEAN
  /\ pos \in 0..Len(file)
  /\ prev \in Byte
  /\ \A n \in {wordCount, charCount, newlineCount} : n \in 0..IntMax
  /\ failed \in BOOLEAN
  /\ pc \in {"fopen", "loop", "ended", "done", "error", "overflow"}

(***************************************************************************)
(* Words are counted where they end, so at any moment the count is that of *)
(* the words that began (between the loop's own separators), but for one   *)
(* that has not ended, and one more if the file begins with a separator,   *)
(* which ends a word that never was.                                       *)
(***************************************************************************)
WordsCounted ==
  wordCount + (IF InsideWord(pos) THEN 1 ELSE 0)
    = Cardinality(WordsIn(pos)) + (IF pos > 0 /\ file[1] \in Separator THEN 1 ELSE 0)

(***************************************************************************)
(* Where char is signed, the lines and the bytes counted of a file without *)
(* the byte 255 are those of wc(1).  So are the words, if the file begins  *)
(* with one, ends with a newline and has no form feed or vertical tab: at  *)
(* those wc(1) divides words, and word_count does not.                     *)
(***************************************************************************)
Holds(byte) == \E i \in DOMAIN file : file[i] = byte

AgreesWithWc ==
  pc = "done" /\ ~failed /\ ~Holds("byte255") =>
    /\ newlineCount = Cardinality(NewlinesIn(Len(file)))
    /\ charCount = Len(file)
    /\ ~Holds("feed") /\ (file # << >> => file[1] \notin Separator /\ file[Len(file)] = "newline")
         => wordCount = Cardinality(WcWordsIn(Len(file)))

(***************************************************************************)
(* The count of words without those conditions, as tests_wc.py expects of  *)
(* any sample file.                                                        *)
(***************************************************************************)
WordsAsWc ==
  /\ pc = "done"
  /\ ~failed
  /\ ~Holds("byte255")
  => wordCount = Cardinality(WcWordsIn(Len(file)))

(* Where char is signed wc comes to the end of every file an int can count *)
(* the bytes of, a failed read included.                                   *)
MustEnd == char_signed /\ Len(file) <= IntMax

HasEnded == pc \in {"done", "error"}

=============================================================================
