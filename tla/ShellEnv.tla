------------------------------- MODULE ShellEnv -------------------------------
(***************************************************************************)
(* What the variables of the shell promise, told without lists, buffers or *)
(* tokenizers: an environment maps names to values; an assignment replaces *)
(* the value of one name by its text, in which every reference to a name   *)
(* that has a value is replaced by that value as it is now; echo shows the *)
(* words of the line with every reference replaced.                        *)
(* Words are sequences of characters; "$" begins a reference that goes on  *)
(* to the next "$" or the end of the word.                                 *)
(***************************************************************************)
EXTENDS Text, SequencesExt

CONSTANTS
  Assignments,   \* the <<name, text>> the user may assign
  EchoLines,     \* the sequences of words the user may echo
  ShownMax,      \* echo shows no more than so many characters
  ValueMax       \* a value holds no more than so many characters

VARIABLES
  env,           \* the value of every name that has one
  shown,         \* what echo displayed last
  broken         \* a text did not fit: anything may happen

vars == <<env, shown, broken>>

(* The name in the reference that begins at a "$" of w. *)
NameAt(w, i) == UpToNext(w, "$", i + 1)

BeforeDollar(w, i) == \A j \in 1..i : w[j] # "$"

(* Character i of a word, as echo shows it. *)
ShowChar(w, i) ==
  IF BeforeDollar(w, i) THEN <<w[i]>>
  ELSE IF w[i] = "$" /\ NameAt(w, i) \in DOMAIN env THEN env[NameAt(w, i)]
  ELSE << >>

(* A word as echo shows it; a lone "$" stands for itself. *)
ShowWord(w) ==
  IF w = <<"$">> THEN w
  ELSE FlattenSeq([i \in DOMAIN w |-> ShowChar(w, i)])

ShowLine(words) ==
  FlattenSeq([k \in DOMAIN words |->
    IF k = 1 THEN ShowWord(words[k]) ELSE <<" ">> \o ShowWord(words[k])])

(* The value of an assigned text; an unknown name is left as it stands. *)
ValueChar(t, i) ==
  IF BeforeDollar(t, i) THEN <<t[i]>>
  ELSE IF t[i] # "$" THEN << >>
  ELSE IF NameAt(t, i) \in DOMAIN env THEN env[NameAt(t, i)]
  ELSE <<"$">> \o NameAt(t, i)

ValueOf(t) == FlattenSeq([i \in DOMAIN t |-> ValueChar(t, i)])

Fits(s, max) == Len(s) <= max

Init ==
  /\ env = << >>
  /\ shown = << >>
  /\ broken = FALSE

Assign(name, text) ==
  /\ ~broken
  /\ Fits(ValueOf(text), ValueMax)
  /\ env' = [n \in DOMAIN env \cup {name} |->
               IF n = name THEN ValueOf(text) ELSE env[n]]
  /\ UNCHANGED <<shown, broken>>

Echo(words) ==
  /\ ~broken
  /\ shown' = Take(ShowLine(words), ShownMax)
  /\ UNCHANGED <<env, broken>>

(* Only a text that does not fit can do harm. *)
Break ==
  /\ ~broken
  /\ \/ \E a \in Assignments : ~Fits(ValueOf(a[2]), ValueMax)
     \/ \E words \in EchoLines : ~Fits(ShowLine(words), ShownMax)
  /\ broken' = TRUE
  /\ UNCHANGED <<env, shown>>

Next ==
  \/ \E a \in Assignments : Assign(a[1], a[2])
  \/ \E words \in EchoLines : Echo(words)
  \/ Break

Spec == Init /\ [][Next]_vars
===============================================================================
