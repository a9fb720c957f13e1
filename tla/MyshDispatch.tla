----------------------------- MODULE MyshDispatch -----------------------------
(***************************************************************************)
(* How mysh finds what to run: the array of tokens, which the main loop    *)
(* keeps from line to line, the parallel tables of builtins of the four    *)
(* milestones, the options of ls, and the blocks that the tokenizer of     *)
(* milestone 4 takes from the heap.                                        *)
(*                                                                         *)
(* A line is the sequence of its tokens.  How it was read is MyshInput's   *)
(* concern; variables are MyshVars'.                                       *)
(***************************************************************************)
EXTENDS Naturals, SequencesExt

CONSTANTS
  Milestones,    \* of 1 to 4: which of the projects
  Slots,         \* size of token_arr (MAX_STR_LEN, 128)
  HeapLimit,     \* bound: malloc fails when so many blocks are in use
  Lines,         \* the lines the user may enter
  Words          \* the tokens in them

ASSUME DispatchAssumption ==
  /\ Milestones \subseteq 1..4
  /\ Slots \in Nat
  /\ HeapLimit \in Nat
  /\ Lines \subseteq Seq(Words)
  /\ "NULL" \notin Words
  /\ \A line \in Lines : Len(line) < Slots

VARIABLES
  milestone,     \* the program of this session
  token_arr,     \* the slots, "NULL" before their first use
  line,          \* history: the line being handled
  pc,            \* where the shell is
  blocks,        \* new_token blocks that nothing points to any more
  answer         \* how the last line was answered

vars == <<milestone, token_arr, line, pc, blocks, answer>>

(* A token that holds a "=" is an assignment (from milestone 2 on). *)
Assignments == {"x=1"}

-----------------------------------------------------------------------------
(* The tables.  A definition Name_Change differs from the code as a bug    *)
(* would; it only serves to show that a property notices.                  *)

BUILTINS_Unordered == <<"wc", "echo", "cat", "cd", "pwd", "ls">>
BUILTINS ==
  CASE milestone \in {1, 2} -> <<"echo">>
    [] milestone = 3 -> <<"echo", "wc", "cat", "cd", "pwd", "ls">>
    [] milestone = 4 -> <<"echo", "wc", "cat", "cdls">>

BUILTINS_FN ==
  CASE milestone \in {1, 2} -> <<"bn_echo", "NULL">>
    [] milestone = 3 -> <<"bn_echo", "word_count", "cat", "cd", "pwd", "bn_ls", "NULL">>
    [] milestone = 4 -> <<"bn_echo", "word_count", "cat", "cd", "bn_ls", "NULL">>

(* Where the loop over BUILTINS ends: at the name or behind the last one. *)
cmd_num_Short(cmd) == SelectInSeq(BUILTINS, LAMBDA b : b = cmd) + 1
cmd_num(cmd) ==
  IF cmd \in Range(BUILTINS)
    THEN SelectInSeq(BUILTINS, LAMBDA b : b = cmd)
    ELSE Len(BUILTINS) + 1

check_builtin(cmd) == BUILTINS_FN[cmd_num(cmd)]

-----------------------------------------------------------------------------
(* bn_ls: what it makes of the slots.                                      *)

Null(i) == token_arr[i] = "NULL"

(* The tokens the loops see that stop at the first NULL. *)
Args == {i \in 2..Slots : \A j \in 2..i : ~Null(j)}

Recursive == \E i \in Args : token_arr[i] = "--rec"

(* The first such flag with a token behind it. *)
FlagsWithValue(flag) == {i \in Args : i < Slots /\ token_arr[i] = flag /\ ~Null(i + 1)}
HasValue(flag) == FlagsWithValue(flag) # {}
ValueOf(flag) ==
  token_arr[1 + CHOOSE i \in FlagsWithValue(flag) :
                  \A j \in FlagsWithValue(flag) : i <= j]

(* strtol reads the whole token and the number is not negative. *)
ValidDepths == {"0", "1"}

(***************************************************************************)
(* The loop that looks for the path steps over a flag's value, and so over *)
(* the NULL when the flag is the last token: it goes on in the slots that  *)
(* earlier lines have filled.                                              *)
(***************************************************************************)
StepOver_One == 1
StepOver == 2

PathSlots ==
  LET from[i \in 2 .. Slots + StepOver] ==
        IF i > Slots THEN << >>
        ELSE IF Null(i) THEN << >>
        ELSE IF token_arr[i] \in {"--d", "--f"} THEN from[i + StepOver]
        ELSE IF token_arr[i] = "--rec" THEN from[i + 1]
        ELSE <<i>> \o from[i + 1]
  IN  from[2]

Error(message) == [error |-> message]

Listing(path, depth, filter) == [path |-> path, depth |-> depth, filter |-> filter]

bn_ls ==
  IF HasValue("--d") /\ ValueOf("--d") \notin ValidDepths THEN Error("Invalid depth value")
  ELSE IF HasValue("--d") /\ ~Recursive THEN Error("Invalid use of --d")
  ELSE IF Len(PathSlots) > 1 THEN Error("Too many arguments")
  ELSE Listing(IF PathSlots = << >> THEN "./" ELSE token_arr[PathSlots[1]],
               IF HasValue("--d") THEN ValueOf("--d")
                 ELSE IF Recursive THEN "0" ELSE "-1",
               IF HasValue("--f") THEN ValueOf("--f") ELSE "")

-----------------------------------------------------------------------------
(* The main loop.                                                          *)

Init ==
  /\ milestone \in Milestones
  /\ token_arr = [i \in 1..Slots |-> "NULL"]
  /\ line = << >>
  /\ pc = "prompt"
  /\ blocks = 0
  /\ answer = [fn |-> "none"]

(***************************************************************************)
(* The slots of the tokens are filled, the next one gets the NULL.  Slots  *)
(* behind it keep their pointers into input_buf, where there is still the  *)
(* old token, or by now a part of the new line: those are in moved.        *)
(***************************************************************************)
Tokenized_Fresh(l, moved) ==
  [i \in 1 .. Len(l) + 1 |-> IF i <= Len(l) THEN l[i] ELSE "NULL"]
Tokenized(l, moved) ==
  [i \in 1..Slots |-> CASE i <= Len(l) -> l[i]
                        [] i = Len(l) + 1 -> "NULL"
                        [] i \in moved -> "tail"
                        [] OTHER -> token_arr[i]]

BlocksFor(l) == IF milestone = 4 THEN Len(l) ELSE 0

tokenize_input(l) ==
  /\ pc = "prompt"
  /\ blocks + BlocksFor(l) <= HeapLimit
  /\ \E moved \in SUBSET {i \in Len(l)+2 .. Slots : ~Null(i)} :
       token_arr' = Tokenized(l, moved)
  /\ blocks' = blocks + BlocksFor(l)
  /\ line' = l
  /\ pc' = "dispatch"
  /\ UNCHANGED <<milestone, answer>>

(***************************************************************************)
(* malloc returns NULL: the tokens found so far are freed, though they     *)
(* point into input_buf, and the line counts as empty.                     *)
(***************************************************************************)
tokenize_fails(l) ==
  /\ pc = "prompt"
  /\ blocks + BlocksFor(l) > HeapLimit
  /\ \E moved \in SUBSET {i \in 1..Slots : ~Null(i)} :
       token_arr' = [i \in 1..Slots |->
                       CASE i <= HeapLimit - blocks -> l[i]
                         [] i > HeapLimit - blocks /\ i \in moved -> "tail"
                         [] OTHER -> token_arr[i]]
  /\ blocks' = HeapLimit
  /\ line' = << >>
  /\ pc' \in IF blocks < HeapLimit THEN {"prompt", "aborted"} ELSE {"prompt"}
  /\ UNCHANGED <<milestone, answer>>

DispatchEmpty ==
  /\ pc = "dispatch"
  /\ Null(1)
  /\ pc' = "prompt"
  /\ UNCHANGED <<milestone, token_arr, line, blocks, answer>>

DispatchExit ==
  /\ pc = "dispatch"
  /\ token_arr[1] = "exit"
  /\ pc' = "exited"
  /\ UNCHANGED <<milestone, token_arr, line, blocks, answer>>

IsAssignment == milestone > 1 /\ token_arr[1] \in Assignments

DispatchAssignment ==
  /\ pc = "dispatch"
  /\ IsAssignment
  /\ answer' = [fn |-> "def_var"]
  /\ pc' = "prompt"
  /\ UNCHANGED <<milestone, token_arr, line, blocks>>

IsCommand == ~Null(1) /\ token_arr[1] # "exit" /\ ~IsAssignment

DispatchBuiltin ==
  /\ pc = "dispatch"
  /\ IsCommand
  /\ check_builtin(token_arr[1]) # "NULL"
  /\ answer' = IF check_builtin(token_arr[1]) = "bn_ls"
                 THEN [fn |-> "bn_ls", result |-> bn_ls]
                 ELSE [fn |-> check_builtin(token_arr[1])]
  /\ pc' = IF milestone = 4 THEN "free" ELSE "prompt"
  /\ UNCHANGED <<milestone, token_arr, line, blocks>>

(* Milestone 4 calls external, which never returns to the main loop.       *)
DispatchUnknown ==
  /\ pc = "dispatch"
  /\ IsCommand
  /\ check_builtin(token_arr[1]) = "NULL"
  /\ answer' = [fn |-> IF milestone = 4 THEN "external" ELSE "unknown"]
  /\ pc' = IF milestone = 4 THEN "exited" ELSE "prompt"
  /\ UNCHANGED <<milestone, token_arr, line, blocks>>

(* free() of pointers into input_buf: the allocator aborts or does not.    *)
FreeTokens ==
  /\ pc = "free"
  /\ pc' \in {"prompt", "aborted"}
  /\ UNCHANGED <<milestone, token_arr, line, blocks, answer>>

Next ==
  \/ \E l \in Lines : tokenize_input(l) \/ tokenize_fails(l)
  \/ DispatchEmpty \/ DispatchExit \/ DispatchAssignment
  \/ DispatchBuiltin \/ DispatchUnknown \/ FreeTokens

Spec == Init /\ [][Next]_vars

-----------------------------------------------------------------------------
(* Properties.                                                             *)

TypeOK ==
  /\ milestone \in Milestones
  /\ token_arr \in [1..Slots -> Words \cup {"NULL", "tail"}]
  /\ line \in Lines \cup {<< >>}
  /\ pc \in {"prompt", "dispatch", "free", "exited", "aborted"}
  /\ blocks \in 0..HeapLimit
  /\ answer.fn \in ({"none", "def_var", "unknown", "external"} \cup Range(BUILTINS_FN)) \ {"NULL"}

(* The function that belongs to a name. *)
OwnFunction == [echo |-> "bn_echo", wc |-> "word_count", cat |-> "cat",
                cd |-> "cd", pwd |-> "pwd", ls |-> "bn_ls"]

Offered(cmd) ==
  cmd \in DOMAIN OwnFunction /\ OwnFunction[cmd] \in Range(BUILTINS_FN)

Answers == pc = "dispatch" /\ line # << >> /\ IsCommand

AnsweredRight ==
  answer'.fn = IF Offered(line[1]) THEN OwnFunction[line[1]] ELSE "unknown"

(***************************************************************************)
(* The two tables are parallel by nothing but the order in which they were *)
(* typed.  A word that names a builtin of the milestone runs that builtin, *)
(* and any other word is reported and runs nothing, in milestones 1 to 3.  *)
(***************************************************************************)
AnsweredByNameTo3 == [][Answers /\ milestone < 4 => AnsweredRight]_vars

(* ... and in every milestone, as "parallel arrays" says in all of them.   *)
AnsweredByName == [][Answers => AnsweredRight]_vars

ValueFlags == {"--d", "--f"}

(* Every flag that needs a value has one, which is not itself a flag. *)
WellFormed(l) ==
  \A i \in DOMAIN l : l[i] \in ValueFlags =>
    i < Len(l) /\ l[i+1] \notin ValueFlags \cup {"--rec"}

IsValue(l, i) == i > 1 /\ l[i-1] \in ValueFlags
PathsAt(l) == {i \in 2..Len(l) : ~IsValue(l, i) /\ l[i] \notin ValueFlags \cup {"--rec"}}

(* The value of the first such flag of the line, or what stands for it. *)
Given(l, flag, default) ==
  LET i == SelectInSeq(l, LAMBDA w : w = flag) IN IF i = 0 THEN default ELSE l[i+1]

LineRecursive(l) == "--rec" \in Range(l)

Accepted(l) ==
  /\ Given(l, "--d", "0") \in ValidDepths
  /\ "--d" \in Range(l) => LineRecursive(l)
  /\ Cardinality(PathsAt(l)) <= 1

AsAsked(l) ==
  Listing(IF PathsAt(l) = {} THEN "./" ELSE l[CHOOSE i \in PathsAt(l) : TRUE],
          Given(l, "--d", IF LineRecursive(l) THEN "0" ELSE "-1"),
          Given(l, "--f", ""))

(***************************************************************************)
(* What ls lists is what its own line says, whatever lines the array of    *)
(* tokens held before and in whatever order path and flags are given.      *)
(***************************************************************************)
LsFollowsLine ==
  [][Answers /\ answer'.fn = "bn_ls" /\ line[1] = "ls" /\ WellFormed(line) =>
       IF Accepted(line) THEN answer'.result = AsAsked(line)
                         ELSE "error" \in DOMAIN answer'.result]_vars

(* "tokens is a NULL terminated sequence": ls reads nothing behind it.     *)
OwnTokensOnly ==
  [][Answers /\ answer'.fn = "bn_ls" => Range(PathSlots) \subseteq DOMAIN line]_vars
=============================================================================
