------------------------------- MODULE Programs -------------------------------
(***************************************************************************)
(* wc of the shell and the exercises that run to their end, each a program *)
(* with its input: any one of them runs.  Of the others the variables stay *)
(* idle, those of wc as they are before it starts on an empty file; the    *)
(* exercises but ForkTrees share the variable for where they are.          *)
(***************************************************************************)
EXTENDS WordCount, BagsExt

CONSTANTS
  NumKids,                              \* of ForkTrees
  Seconds, MaxReads,                    \* of TimeReads
  Words, PasswordFiles, MAX_PASSWORD,   \* of Validate
  TypedLines, MAX_NAME, SIZE_MAX,       \* of ChatClient: its inputs first
  TokenLists, Junk, Garbage, MaxNodes   \* of ListSum: its inputs first

(* wc may be idle, on an empty file. *)
ASSUME IdleAssumption == << >> \in Files

ASSUME ForksAssumption == NumKids \subseteq Nat

ASSUME ReadsAssumption == Seconds \subseteq Int /\ MaxReads \in Nat

(* A user and a password fit the array and have no character that ends or  *)
(* divides a line.                                                         *)
ASSUME ValidateAssumption ==
  /\ MAX_PASSWORD \in Nat \ {0}
  /\ Words \subseteq Seq(STRING)
  /\ \A w \in Words : Len(w) <= MAX_PASSWORD /\ \A i \in DOMAIN w : w[i] \notin {"nul", "newline", "colon"}
  /\ PasswordFiles \subseteq Seq(Seq(STRING))

(* A line is not empty, ends where its newline is, and has a length.       *)
ASSUME ClientAssumption ==
  /\ MAX_NAME \in Nat
  /\ SIZE_MAX \in Nat /\ MAX_NAME < SIZE_MAX - 1
  /\ TypedLines \subseteq Seq(Seq(STRING))
  /\ \A lines \in TypedLines : \A k \in DOMAIN lines :
       lines[k] # << >> /\ Len(lines[k]) < SIZE_MAX /\ \A i \in 1 .. Len(lines[k]) - 1 : lines[k][i] # "newline"

(* The heap has room for the numbers of every input. *)
ASSUME ListAssumption ==
  /\ TokenLists \subseteq Seq(Int)
  /\ \A t \in TokenLists : Len(t) < MaxNodes
  /\ Junk \in Int
  /\ Garbage \subseteq Int
  /\ MaxNodes \in Nat \ {0}

VARIABLES
  program,
  place, call_failed,
  exercise, num_kids, tty, procs, shown, fork_failed,
  seconds, whole, timer, got, turns, num_reads, reported,
  asked, writer, pass_txt, unwritten, stdin, userid, typed,
  typed_lines, line_no, completed, name_len, sent_name,
  tokens, tokens_read, user_inp, value, next, front, current, sum, freed

wc_vars == vars
fork_vars == <<exercise, num_kids, tty, procs, shown, fork_failed>>
time_vars == <<seconds, whole, timer, got, turns, num_reads, reported>>
validate_vars == <<asked, writer, pass_txt, unwritten, stdin, userid, typed>>
client_vars == <<typed_lines, line_no, completed, name_len, sent_name>>
list_vars == <<tokens, tokens_read, user_inp, value, next, front, current, sum, freed>>
program_vars == <<program, wc_vars, fork_vars, time_vars, validate_vars, client_vars,
                  list_vars, call_failed, place>>

Forks == INSTANCE ForkTrees
Reads == INSTANCE TimeReads WITH pc <- place
Verdict == INSTANCE Validate WITH pc <- place, failed <- call_failed
ChatUser == INSTANCE ChatClient WITH pc <- place, failed <- call_failed, Inputs <- TypedLines
Sum == INSTANCE ListSum WITH pc <- place, Inputs <- TokenLists

-----------------------------------------------------------------------------
Idle == "idle"

WcIdle == file = << >> /\ char_signed = TRUE /\ Init
ForkIdle == exercise = Idle /\ num_kids = Idle /\ tty = Idle /\ procs = Idle /\ shown = Idle
            /\ fork_failed = Idle
TimeIdle == seconds = Idle /\ whole = Idle /\ timer = Idle /\ got = Idle /\ turns = Idle
            /\ num_reads = Idle /\ reported = Idle
ValidateIdle == asked = Idle /\ writer = Idle /\ pass_txt = Idle /\ unwritten = Idle /\ stdin = Idle
                /\ userid = Idle /\ typed = Idle
ClientIdle == typed_lines = Idle /\ line_no = Idle /\ completed = Idle /\ name_len = Idle
              /\ sent_name = Idle
ListIdle == tokens = Idle /\ tokens_read = Idle /\ user_inp = Idle /\ value = Idle /\ next = Idle
            /\ front = Idle /\ current = Idle /\ sum = Idle /\ freed = Idle

ProgramsInit ==
  \/ /\ program = "wc" /\ Init /\ call_failed = Idle /\ place = Idle
     /\ ForkIdle /\ TimeIdle /\ ValidateIdle /\ ClientIdle /\ ListIdle
  \/ /\ program = "forks" /\ Forks!Init /\ call_failed = Idle /\ place = Idle
     /\ WcIdle /\ TimeIdle /\ ValidateIdle /\ ClientIdle /\ ListIdle
  \/ /\ program = "time_reads" /\ Reads!Init /\ call_failed = Idle
     /\ WcIdle /\ ForkIdle /\ ValidateIdle /\ ClientIdle /\ ListIdle
  \/ /\ program = "validate" /\ Verdict!Init
     /\ WcIdle /\ ForkIdle /\ TimeIdle /\ ClientIdle /\ ListIdle
  \/ /\ program = "chat_client" /\ ChatUser!Init
     /\ WcIdle /\ ForkIdle /\ TimeIdle /\ ValidateIdle /\ ListIdle
  \/ /\ program = "ll_sum" /\ Sum!Init /\ call_failed = Idle
     /\ WcIdle /\ ForkIdle /\ TimeIdle /\ ValidateIdle /\ ClientIdle

Wc(A) ==
  /\ program = "wc"
  /\ A
  /\ UNCHANGED <<program, fork_vars, time_vars, validate_vars, client_vars, list_vars,
                 call_failed, place>>

ForksStep ==
  /\ program = "forks"
  /\ Forks!Next
  /\ UNCHANGED <<program, wc_vars, time_vars, validate_vars, client_vars, list_vars,
                 call_failed, place>>

TimeReadsStep(A) ==
  /\ program = "time_reads"
  /\ A
  /\ UNCHANGED <<program, wc_vars, fork_vars, validate_vars, client_vars, list_vars, call_failed>>

ValidateStep ==
  /\ program = "validate"
  /\ Verdict!Next
  /\ UNCHANGED <<program, wc_vars, fork_vars, time_vars, client_vars, list_vars>>

ChatClientStep ==
  /\ program = "chat_client"
  /\ ChatUser!Next
  /\ UNCHANGED <<program, wc_vars, fork_vars, time_vars, validate_vars, list_vars>>

ListSumStep ==
  /\ program = "ll_sum"
  /\ Sum!Next
  /\ UNCHANGED <<program, wc_vars, fork_vars, time_vars, validate_vars, client_vars, call_failed>>

WcRuns == Wc(Opens \/ Loop)
WcFails == Wc(OpenFails \/ ReadFails)
TimeReadsMain == TimeReadsStep(Reads!Main)
TimeReadsTimer == TimeReadsStep(Reads!HandleSigprof)

Runs == WcRuns \/ ForksStep \/ TimeReadsMain \/ ValidateStep \/ ChatClientStep \/ ListSumStep

ProgramsNext == Runs \/ WcFails \/ TimeReadsTimer

(* A program runs when it can, and processor time goes on to the timer's end.*)
ProgramsSpec ==
  /\ ProgramsInit /\ [][ProgramsNext]_program_vars
  /\ WF_program_vars(Runs) /\ WF_program_vars(TimeReadsTimer)

-----------------------------------------------------------------------------
(* fork shows each line as often as there are processes and buffers. *)
LinesPrinted == program = "forks" => Forks!LinesPrinted

(* time_reads reports the reads it did, or one less. *)
CountWithinOne == program = "time_reads" => Reads!CountWithinOne

(* validate exits with the status its comment names. *)
VerdictRight == program = "validate" => Verdict!VerdictRight

(* The chat client sends the first name that is short enough. *)
NameSent == program = "chat_client" => ChatUser!NameSent

(* ll_sum frees each node once, after its last use. *)
NodesFreed == program = "ll_sum" => Sum!NodesFreed

MustEndNow ==
  CASE program = "wc" -> MustEnd
    [] program = "forks" -> Forks!MustEnd
    [] program = "time_reads" -> Reads!MustEnd
    [] program = "validate" -> Verdict!MustEnd
    [] program = "chat_client" -> ChatUser!MustEnd
    [] program = "ll_sum" -> Sum!MustEnd

HasEndedNow ==
  CASE program = "wc" -> HasEnded
    [] program = "forks" -> Forks!HasEnded
    [] program = "time_reads" -> Reads!HasEnded
    [] program = "validate" -> Verdict!HasEnded
    [] program = "chat_client" -> ChatUser!HasEnded
    [] program = "ll_sum" -> Sum!HasEnded

(***************************************************************************)
(* Every program ends: wc where char is signed and an int can count the    *)
(* bytes, time_reads if its timer was set, the client if it is given a     *)
(* name, ll_sum if it is given numbers, the others always.                 *)
(***************************************************************************)
ProgramsEnd == MustEndNow ~> HasEndedNow
=============================================================================
