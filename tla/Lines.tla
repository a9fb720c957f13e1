-------------------------------- MODULE Lines --------------------------------
(***************************************************************************)
(* The bytes of a shell's input and the lines they form.  Bytes are        *)
(* numbered from 1; the pair a, b stands for the bytes a+1 .. b.           *)
(***************************************************************************)
EXTENDS Naturals, Sequences

(***************************************************************************)
(* Bytes, told apart as far as the main loop of mysh does: "n" newline,    *)
(* "b" blank, "e" the word exit (a whole word in one byte), "=" the equals *)
(* sign, "c" any other character.                                          *)
(***************************************************************************)
Bytes == {"n", "b", "e", "=", "c"}
Newline == "n"
Delimiters == {"n", "b"}

(* A line starts at the beginning of s or after a newline. *)
LineStart(s, a) == a = 0 \/ (a \in 1..Len(s) /\ s[a] = Newline)

(* A line ends with a newline or at the end of s. *)
LineEnd(s, b) == b = Len(s) \/ (b \in 1..Len(s) /\ s[b] = Newline)

(* The bytes a+1..b hold a newline, if any, only at their end. *)
OneLineAtMost(s, a, b) == \A i \in a+1 .. b-1 : s[i] # Newline

IsLine(s, a, b) ==
  /\ LineStart(s, a)
  /\ LineEnd(s, b)
  /\ a < b
  /\ OneLineAtMost(s, a, b)

LinesOf(s) == {l \in (0..Len(s)) \X (0..Len(s)) : IsLine(s, l[1], l[2])}

(* The characters of a line, its newline not counted. *)
TextLen(s, a, b) == IF s[b] = Newline THEN b - a - 1 ELSE b - a
=============================================================================
