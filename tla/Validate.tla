-------------------------------- MODULE Validate --------------------------------
(***************************************************************************)
(* validate of w7: read a user and a password from standard input with one *)
(* read each, and look the pair up in a file.  A read takes what there is, *)
(* so what the two reads get depends on who writes, and when.              *)
(*                                                                         *)
(* Strings and the contents of arrays are sequences of characters.         *)
(***************************************************************************)
EXTENDS Naturals, SequencesExt

CONSTANTS
  Words,            \* users and passwords
  PasswordFiles,    \* contents of pass.txt: sequences of lines
  MAX_PASSWORD

VARIABLES
  asked,        \* the user and the password that are written
  writer,       \* "chunks", "terminal" or "pipe"
  pass_txt,
  unwritten,    \* what the writer still has to write
  stdin,        \* what was written and not read
  userid,
  typed,        \* the array password
  failed,       \* history: has a call failed?
  pc            \* "user", "password", "lookup", or main's exit status

vars == <<asked, writer, pass_txt, unwritten, stdin, userid, typed, failed, pc>>
input == <<asked, writer, pass_txt>>

(* A chunk is filled up to MAX_PASSWORD bytes, a line ends with a newline. *)
Piece(word) ==
  IF writer = "chunks"
    THEN word \o [i \in 1 .. MAX_PASSWORD - Len(word) |-> "nul"]
    ELSE Append(word, "newline")

Write ==
  /\ unwritten # << >>
  /\ stdin' = stdin \o Piece(Head(unwritten))
  /\ unwritten' = Tail(unwritten)
  /\ UNCHANGED <<input, userid, typed, failed, pc>>

(* read returns what there is, but no more than a line of a terminal.      *)
Taken ==
  LET newlines == {i \in DOMAIN stdin : stdin[i] = "newline"}
  IN  Min({MAX_PASSWORD, Len(stdin)} \cup IF writer = "terminal" THEN newlines ELSE {})

(* The string in an array: up to the terminator, put behind what was read, *)
(* or the newline, which is overwritten with one.                          *)
Cut(s) ==
  LET ends == {i \in DOMAIN s : s[i] \in {"nul", "newline"}}
  IN  IF ends = {} THEN s ELSE SubSeq(s, 1, Min(ends) - 1)

Read ==
  /\ stdin # << >>
  /\ \/ pc = "user" /\ userid' = Cut(SubSeq(stdin, 1, Taken)) /\ pc' = "password" /\ UNCHANGED typed
     \/ pc = "password" /\ typed' = Cut(SubSeq(stdin, 1, Taken)) /\ pc' = "lookup" /\ UNCHANGED userid
  /\ stdin' = SubSeq(stdin, Taken + 1, Len(stdin))
  /\ UNCHANGED <<input, unwritten, failed>>

ReadEnd ==
  /\ pc \in {"user", "password"}
  /\ stdin = << >>
  /\ unwritten = << >>
  /\ pc' = "exit1"
  /\ UNCHANGED <<input, unwritten, stdin, userid, typed, failed>>

(* read or fopen fails. *)
Fails ==
  /\ pc \in {"user", "password", "lookup"}
  /\ failed' = TRUE
  /\ pc' = "exit1"
  /\ UNCHANGED <<input, unwritten, stdin, userid, typed>>

(* A definition Name_Change differs from the code as a bug would; it only  *)
(* serves to show that a property notices.                                 *)
Compared_User == userid

(* The part of userid that user_length counts. *)
Compared == Append(userid, "colon")

(* The last character of a line is cut off, whether it is a newline or not.*)
Matches(line) == Front(line) = Append(userid, "colon") \o typed
SameUser(line) == IsPrefix(Compared, Front(line))

(* The first line that decides. *)
Lookup ==
  /\ pc = "lookup"
  /\ LET hits == {i \in DOMAIN pass_txt : Matches(pass_txt[i]) \/ SameUser(pass_txt[i])}
     IN  pc' = IF hits = {} THEN "exit3"
               ELSE IF Matches(pass_txt[Min(hits)]) THEN "exit0" ELSE "exit2"
  /\ UNCHANGED <<input, unwritten, stdin, userid, typed, failed>>

Init ==
  /\ asked \in Words \X Words
  /\ writer \in {"chunks", "terminal", "pipe"}
  /\ pass_txt \in PasswordFiles
  /\ unwritten = asked
  /\ stdin = << >>
  /\ userid = << >>
  /\ typed = << >>
  /\ failed = FALSE
  /\ pc = "user"

Next == Write \/ Read \/ ReadEnd \/ Fails \/ Lookup

Spec == Init /\ [][Next]_vars

-----------------------------------------------------------------------------

Entry(u, p) == u \o <<"colon">> \o p \o <<"newline">>

Users == {u \in Words : \E p \in Words : Entry(u, p) \in Range(pass_txt)}

(* Each line is a user's, and each user has one. *)
WellFormed ==
  \A i \in DOMAIN pass_txt : \E u, p \in Words :
    /\ pass_txt[i] = Entry(u, p)
    /\ \A j \in DOMAIN pass_txt : (\E q \in Words : pass_txt[j] = Entry(u, q)) => i = j

Expected ==
  IF Entry(asked[1], asked[2]) \in Range(pass_txt) THEN "exit0"
  ELSE IF asked[1] \in Users THEN "exit2"
  ELSE "exit3"

(***************************************************************************)
(* The exit status is the one that the comment of validate.c names, for a  *)
(* writer of chunks of MAX_PASSWORD bytes and for lines shorter than that  *)
(* from a terminal, however writes and reads interleave; 1 means that a    *)
(* call failed.                                                            *)
(***************************************************************************)
VerdictRight ==
  /\ WellFormed
  /\ writer = "chunks" \/ (writer = "terminal" /\ \A w \in Range(asked) : Len(w) < MAX_PASSWORD)
  /\ pc \in {"exit0", "exit1", "exit2", "exit3"}
  => pc = IF failed THEN "exit1" ELSE Expected

(* The writer writes or ends, and so no read waits for ever. *)
MustEnd == TRUE

HasEnded == pc \in {"exit0", "exit1", "exit2", "exit3"}
=============================================================================
