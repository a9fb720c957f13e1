------------------------------ MODULE LineShell ------------------------------
(***************************************************************************)
(* What a line-oriented command shell promises its user, with no word on   *)
(* buffers or system calls: every line of the input is answered exactly    *)
(* once and in the order of the input; a line of more than MAX_STR_LEN     *)
(* characters is rejected and any other line is run.  The shell may stop   *)
(* early (an exit line, a crash) but never skips a line.                   *)
(* A line is the pair <<a, b>> of the bytes a+1 .. b, newline included.    *)
(***************************************************************************)
EXTENDS Lines

CONSTANT
  MAX_STR_LEN    \* the longest line the shell accepts, newline not counted

VARIABLES
  input,         \* the bytes of the session, fixed when it starts
  run,           \* the lines that were run
  rejected,      \* the lines that were rejected as too long
  state          \* "running", "ended" by itself or "crashed"

vars == <<input, run, rejected, state>>

Lines == LinesOf(input)

TooLong(l) == TextLen(input, l[1], l[2]) > MAX_STR_LEN

Answered == run \cup rejected

(* The line to answer next: every earlier line is answered, this one is not. *)
Due(l) ==
  /\ l \in Lines \ (Answered)
  /\ \A k \in Lines : k[1] < l[1] => k \in Answered

Init ==
  /\ run = {}
  /\ rejected = {}
  /\ state = "running"

(* Running a line may end the session (exit). *)
Run(l) ==
  /\ state = "running"
  /\ Due(l)
  /\ ~TooLong(l)
  /\ run' = run \cup {l}
  /\ state' \in {"running", "ended"}
  /\ UNCHANGED <<input, rejected>>

Reject(l) ==
  /\ state = "running"
  /\ Due(l)
  /\ TooLong(l)
  /\ rejected' = rejected \cup {l}
  /\ UNCHANGED <<input, run, state>>

(* The end of the input ends the session, when every line is answered. *)
EndOfInput ==
  /\ state = "running"
  /\ Lines \subseteq Answered
  /\ state' = "ended"
  /\ UNCHANGED <<input, run, rejected>>

Crash ==
  /\ state = "running"
  /\ state' = "crashed"
  /\ UNCHANGED <<input, run, rejected>>

Next == (\E l \in Lines : Run(l) \/ Reject(l)) \/ EndOfInput \/ Crash

Spec == Init /\ [][Next]_vars
=============================================================================
