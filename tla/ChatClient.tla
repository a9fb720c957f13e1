------------------------------- MODULE ChatClient -------------------------------
(***************************************************************************)
(* The client of the chat in w10 and w11 (chat_client.c) as far as it goes:*)
(* it connects, asks for a user name until it gets one, sends it and, its  *)
(* loop being while(0), exits.  The server's side is in ChatServer.        *)
(*                                                                         *)
(* write_to_socket is a stub that returns 1; `completed' says whether it   *)
(* is, or does what socket.h says.                                         *)
(***************************************************************************)
EXTENDS Text, SequencesExt

CONSTANTS
  Inputs,       \* what may be on standard input: sequences of lines
  MAX_NAME,
  SIZE_MAX      \* the size_t that -1 is

VARIABLES
  typed_lines,  \* what is on standard input
  line_no,      \* lines read
  completed,
  name_len,     \* what getline returned
  sent_name,    \* what was written to the socket
  failed,       \* history: has a call failed?
  pc            \* "start", "ask", "check", "close", "exit0" or "exit1"

vars == <<typed_lines, line_no, completed, name_len, sent_name, failed, pc>>

Connects ==
  /\ pc = "start"
  /\ pc' = "ask"
  /\ UNCHANGED <<typed_lines, line_no, completed, name_len, sent_name, failed>>

(* socket, inet_pton or connect fails. *)
ConnectFails ==
  /\ pc = "start"
  /\ failed' = TRUE
  /\ pc' = "exit1"
  /\ UNCHANGED <<typed_lines, line_no, completed, name_len, sent_name>>

GetLine ==
  /\ pc = "ask"
  /\ line_no < Len(typed_lines)
  /\ line_no' = line_no + 1
  /\ name_len' = Len(typed_lines[line_no + 1])
  /\ pc' = "check"
  /\ UNCHANGED <<typed_lines, completed, sent_name, failed>>

(* getline returns -1: the end of the input.  As a size_t that is not less *)
(* than 0, so that main goes on with it.                                   *)
GetLineEnds ==
  /\ pc = "ask"
  /\ line_no = Len(typed_lines)
  /\ name_len' = SIZE_MAX
  /\ pc' = "check"
  /\ UNCHANGED <<typed_lines, line_no, completed, sent_name, failed>>

(* A definition Name_Change differs from the code as a bug would; it only  *)
(* serves to show that a property notices.                                 *)
TooLong_AtMax == name_len > MAX_NAME
TooLong == name_len - 1 > MAX_NAME

AskAgain ==
  /\ pc = "check"
  /\ TooLong
  /\ pc' = "ask"
  /\ UNCHANGED <<typed_lines, line_no, completed, name_len, sent_name, failed>>

(* The last character of the line, a newline or not, gives way to CR LF.   *)
SendName ==
  /\ pc = "check"
  /\ ~TooLong
  /\ completed
  /\ sent_name' = Front(typed_lines[line_no]) \o <<"CR", "LF">>
  /\ pc' = "close"
  /\ UNCHANGED <<typed_lines, line_no, completed, name_len, failed>>

(* write_to_socket fails, as the stub always does. *)
SendFails ==
  /\ pc = "check"
  /\ ~TooLong
  /\ failed' = TRUE
  /\ pc' = "exit1"
  /\ UNCHANGED <<typed_lines, line_no, completed, name_len, sent_name>>

CloseSocket ==
  /\ pc = "close"
  /\ pc' = "exit0"
  /\ UNCHANGED <<typed_lines, line_no, completed, name_len, sent_name, failed>>

Init ==
  /\ typed_lines \in Inputs
  /\ line_no = 0
  /\ completed \in BOOLEAN
  /\ name_len = 0
  /\ sent_name = << >>
  /\ failed = FALSE
  /\ pc = "start"

Next == Connects \/ ConnectFails \/ GetLine \/ GetLineEnds \/ AskAgain \/ SendName \/ SendFails \/ CloseSocket

Spec == Init /\ [][Next]_vars

(* What was typed on a line, and whether it can be a name. *)
TextOf(line) == UpToNext(line, "newline", 1)

IsName(i) == Len(TextOf(typed_lines[i])) <= MAX_NAME

(***************************************************************************)
(* If lines end with newlines, a client that exits with 0 has sent the     *)
(* first of them that is not too long to be a name, and CR LF behind it,   *)
(* and has read no further; any other exit comes of a call that failed.    *)
(***************************************************************************)
NameSent ==
  /\ pc = "exit1" => failed
  /\ pc = "exit0" /\ (\A i \in DOMAIN typed_lines : Last(typed_lines[i]) = "newline") =>
       /\ IsName(line_no)
       /\ \A i \in 1 .. line_no - 1 : ~IsName(i)
       /\ sent_name = TextOf(typed_lines[line_no]) \o <<"CR", "LF">>

(* At the end of its input the client asks for ever. *)
MustEnd == \E i \in DOMAIN typed_lines : IsName(i)

HasEnded == pc \in {"exit0", "exit1"}
=============================================================================
