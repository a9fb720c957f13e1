------------------------------- MODULE MyshVars -------------------------------
(***************************************************************************)
(* The variables of mysh and echo: name=value in the main loop, def_var,   *)
(* get_var and bn_echo of builtins.c, as they stand in milestone 3 (and,   *)
(* but for comments, 2 and 4), and replace_variables, through which        *)
(* milestone 4 passes every token first.                                   *)
(*                                                                         *)
(* The list `vars' is a sequence of nodes, its head first.  A string is a  *)
(* sequence of characters; arrays of fixed size are sequences whose length *)
(* is compared with the size: when a string outgrows its array the         *)
(* behaviour of the program is undefined and the model stops.              *)
(***************************************************************************)
EXTENDS Text, FiniteSets, SequencesExt

CONSTANTS
  Char,           \* the characters of the lines
  MAX_STR_LEN,    \* size of echo's array `final' (128)
  VALUE_SIZE,     \* size of def_var's array `new_val' (1024)
  Milestone,      \* 3 or 4
  AssignTokens,   \* first tokens with an "=" in them
  EchoLines       \* sequences of arguments of echo

ASSUME VarsAssumption ==
  /\ MAX_STR_LEN \in Nat \ {0}
  /\ VALUE_SIZE \in Nat \ {0}
  /\ Milestone \in {3, 4}
  /\ {"$", " "} \subseteq Char
  /\ AssignTokens \subseteq Seq(Char)
  /\ EchoLines \subseteq Seq(Seq(Char))

VARIABLES
  vars,           \* the list of [name, val], new nodes at the head
  out,            \* what echo displayed last
  undefined,      \* an array was overrun
  asked           \* history: the names the user has given a value

allvars == <<vars, out, undefined, asked>>

-----------------------------------------------------------------------------
(* strtok: the maximal pieces of a string without the separator, by where  *)
(* each starts.                                                            *)

PieceStarts(s, sep) == {i \in DOMAIN s : s[i] # sep /\ (i > 1 => s[i-1] = sep)}

strtok(s, sep, start) == UpToNext(s, sep, start)

-----------------------------------------------------------------------------
(* The list.  A definition Name_Change differs from the code as a bug      *)
(* would; it only serves to show that a property notices.                  *)

Nodes(name) == {i \in DOMAIN vars : vars[i].name = name}
Defined(name) == Nodes(name) # {}

(* The first node of that name. *)
FirstNode(name) == CHOOSE i \in Nodes(name) : \A j \in Nodes(name) : i <= j

(* NULL is written as the empty string where both end up adding nothing. *)
get_var(name) == IF Defined(name) THEN vars[FirstNode(name)].val ELSE << >>

(* The loop of def_var over val: from a "$", the name goes to the next.    *)
ExpandName(name) == IF Defined(name) THEN get_var(name) ELSE <<"$">> \o name

new_val_Late(val) == val
new_val(val) ==
  LET read[i \in 0..Len(val)] ==
        IF i = 0 THEN UpToNext(val, "$", 1)
        ELSE IF val[i] = "$" THEN read[i-1] \o ExpandName(UpToNext(val, "$", i + 1))
        ELSE read[i-1]
  IN  read[Len(val)]

(* The list with one more node, at its head. *)
NewNode_Drops(name, val) == <<[name |-> name, val |-> val]>>
NewNode_NoCopy(name, val) == <<[name |-> name]>> \o vars
NewNode(name, val) == <<[name |-> name, val |-> val]>> \o vars

(* Is there a node to overwrite? *)
Overwrites_Never(name) == FALSE
Overwrites(name) == Defined(name)

(* def_var: the value replaces that of the first node of the name, or a    *)
(* new node becomes the head.                                              *)
def_var(name, val) ==
  IF Len(new_val(val)) < VALUE_SIZE
    THEN /\ vars' = IF Overwrites(name)
                      THEN [vars EXCEPT ![FirstNode(name)].val = new_val(val)]
                      ELSE NewNode(name, new_val(val))
         /\ UNCHANGED <<out, undefined>>
    ELSE /\ undefined' = TRUE
         /\ UNCHANGED <<vars, out>>

-----------------------------------------------------------------------------
(* echo.                                                                   *)

(* Literal text, blanks between arguments and a lone "$" are put whole. *)
PutText(final, s) == final \o s

(* A value is cut to leave one place for the null terminator. *)
PutValue(final, s) == final \o Take(s, MAX_STR_LEN - 1 - Len(final))

(* What precedes the first "$" of an argument is text, ... *)
TextOf(token) ==
  IF token = <<"$">> THEN token
  ELSE IF 1 \in PieceStarts(token, "$") THEN strtok(token, "$", 1)
  ELSE << >>

(* ... the pieces behind a "$" are names. *)
PutName(final, token, i) ==
  IF i + 1 \in PieceStarts(token, "$")
    THEN PutValue(final, get_var(strtok(token, "$", i + 1)))
    ELSE final

PutToken(final, token) ==
  LET put[i \in 0..Len(token)] ==
        IF i = 0 THEN PutText(final, TextOf(token)) ELSE PutName(put[i-1], token, i)
  IN  put[Len(token)]

(* A blank goes between two arguments. *)
PutNext(final, tokens, k) ==
  PutToken(IF k > 1 THEN PutText(final, <<" ">>) ELSE final, tokens[k])

echo_final(tokens) ==
  LET put[k \in 0..Len(tokens)] ==
        IF k = 0 THEN << >> ELSE PutNext(put[k-1], tokens, k)
  IN  put[Len(tokens)]

bn_echo(tokens) ==
  IF Len(echo_final(tokens)) < MAX_STR_LEN
    THEN /\ out' = echo_final(tokens)
         /\ UNCHANGED <<vars, undefined>>
    ELSE /\ undefined' = TRUE
         /\ UNCHANGED <<vars, out>>

-----------------------------------------------------------------------------
(* The tokenizer of milestone 4 hands over the token itself, which         *)
(* replace_variables has cut at the first "$" behind a character of        *)
(* another kind (strtok_r writes a null there).                            *)
replace_variables(token) ==
  LET cuts == {i \in DOMAIN token : token[i] = "$" /\ \E j \in 1..i : token[j] # "$"}
  IN  IF cuts = {} THEN token
      ELSE SubSeq(token, 1, (CHOOSE i \in cuts : \A j \in cuts : i <= j) - 1)

Tokenized(token) == IF Milestone = 4 THEN replace_variables(token) ELSE token

Init ==
  /\ vars = << >>
  /\ out = << >>
  /\ undefined = FALSE
  /\ asked = {}

(***************************************************************************)
(* A line whose first token holds "=": strtok skips leading "=" and takes  *)
(* the name up to the next; the value is all that follows it.  Without a   *)
(* value nothing happens.                                                  *)
(***************************************************************************)
NameStart(token) ==
  CHOOSE i \in PieceStarts(token, "=") : \A j \in PieceStarts(token, "=") : i <= j

SplitName(token) == strtok(token, "=", NameStart(token))

SplitValue(token) ==
  SubSeq(token, NameStart(token) + Len(SplitName(token)) + 1, Len(token))

HasNameAndValue(token) ==
  PieceStarts(token, "=") # {} /\ SplitValue(token) # << >>

(* Milestone 4 may have cut the "=" away: then the token is a command.     *)
IsAssignment(token) == \E i \in DOMAIN token : token[i] = "="

(* The user's view of name=value: the name ends at the first "=". *)
FirstEquals(token) == CHOOSE i \in DOMAIN token :
                        token[i] = "=" /\ \A j \in 1..i-1 : token[j] # "="
UserName(token) == SubSeq(token, 1, FirstEquals(token) - 1)
UserValue(token) == SubSeq(token, FirstEquals(token) + 1, Len(token))

Asks(token) ==
  asked' = IF UserName(token) # << >> /\ UserValue(token) # << >>
             THEN asked \cup {UserName(token)} ELSE asked

Assign(token) ==
  /\ ~undefined
  /\ IsAssignment(Tokenized(token))
  /\ HasNameAndValue(Tokenized(token))
  /\ def_var(SplitName(Tokenized(token)), SplitValue(Tokenized(token)))
  /\ Asks(token)

AssignNothing(token) ==
  /\ ~undefined
  /\ IsAssignment(Tokenized(token))
  /\ ~HasNameAndValue(Tokenized(token))
  /\ UNCHANGED <<vars, out, undefined>>
  /\ Asks(token)

Echo(tokens) ==
  /\ ~undefined
  /\ bn_echo([k \in DOMAIN tokens |-> Tokenized(tokens[k])])
  /\ UNCHANGED asked

Next ==
  \/ \E token \in AssignTokens : Assign(token) \/ AssignNothing(token)
  \/ \E tokens \in EchoLines : Echo(tokens)

Spec == Init /\ [][Next]_allvars

-----------------------------------------------------------------------------
(* Properties.                                                             *)

TypeOK ==
  /\ vars \in Seq([name : Seq(Char), val : Seq(Char)])
  /\ out \in Seq(Char)
  /\ undefined \in BOOLEAN
  /\ asked \subseteq Seq(Char)

(***************************************************************************)
(* No name has two nodes: whatever is defined and redefined, def_var finds *)
(* the node it made, so that get_var never returns a stale value.          *)
(***************************************************************************)
UniqueNames ==
  \A i, j \in DOMAIN vars : vars[i].name = vars[j].name => i = j

(***************************************************************************)
(* The list with its strtok loops, arrays and truncation is the            *)
(* environment of ShellEnv: assignments are evaluated when they are made   *)
(* and change one name only, echo shows every reference replaced, cut to   *)
(* the array, and only a text that does not fit does harm.                 *)
(***************************************************************************)
Env == INSTANCE ShellEnv WITH
  Assignments <- {<<UserName(t), UserValue(t)>> : t \in AssignTokens},
  ShownMax <- MAX_STR_LEN - 1,
  ValueMax <- VALUE_SIZE - 1,
  env <- [n \in {vars[i].name : i \in DOMAIN vars} |-> get_var(n)],
  shown <- out,
  broken <- undefined

ImplementsShellEnv == Env!Spec

(***************************************************************************)
(* The tests' reading of echo: all the references of an argument are       *)
(* replaced, those behind other text too.                                  *)
(***************************************************************************)
EchoExpandsAll ==
  [][\A tokens \in EchoLines :
       Echo(tokens) /\ ~undefined' => out' = Take(Env!ShowLine(tokens), MAX_STR_LEN - 1)]_allvars

(***************************************************************************)
(* A name the user has given a value has a node in the list: "Expand val   *)
(* if $ found" in def_var means that a reference may be the whole value.   *)
(***************************************************************************)
AskedIsDefined == ~undefined => \A name \in asked : Defined(name)
===============================================================================
