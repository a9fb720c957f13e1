------------------------------ MODULE MyshInput ------------------------------
(***************************************************************************)
(* How mysh takes its input: the main loop of project_m3/src/mysh.c and    *)
(* project_m4/src/mysh.c with get_input of io_helpers.c, the process that  *)
(* writes to its standard input, and SIGINT.                               *)
(*                                                                         *)
(* The input is a sequence of bytes, fixed at the start.  Positions in it  *)
(* tell where every byte is: bytes 1..written are in the pipe or were      *)
(* taken out of it, bytes 1..rpos were taken by read(2), and the bytes     *)
(* slo+1..shi are those that getchar() took and has not returned yet.      *)
(* get_input calls read(2) directly and falls back on getchar() to skip    *)
(* the rest of a long line: two readers of one descriptor.                 *)
(***************************************************************************)
EXTENDS Lines, FiniteSets

CONSTANTS
  MAX_STR_LEN,    \* the longest line (128 in io_helpers.h)
  STDIO_SIZE,     \* size of the buffer getchar() fills (4096, st_blksize)
  MaxReadErrors,  \* bound: read(2) fails at most so many times in a session
  Milestone,      \* 3 or 4: which project's main loop
  Writer,         \* "lockstep", "terminal" or "pipe": who writes the input
  Inputs          \* the possible inputs

ASSUME InputAssumption ==
  /\ MAX_STR_LEN \in Nat \ {0}
  /\ STDIO_SIZE \in Nat \ {0}
  /\ MaxReadErrors \in Nat
  /\ Milestone \in {3, 4}
  /\ Writer \in {"lockstep", "terminal", "pipe"}
  /\ Inputs \subseteq Seq(Bytes)

VARIABLES
  input,      \* the bytes of this session
  written,    \* how many of them the writer has written
  closed,     \* the writer has closed its end
  rpos,       \* how many the kernel has handed to the shell
  slo, shi,   \* stdio's buffer holds the bytes slo+1..shi
  pc,         \* where the shell is
  lo,         \* dispatch: input_buf holds the bytes lo+1..rpos
  commands,   \* the <<lo, hi>> of every input_buf the main loop has handled
  discarded,  \* the bytes get_input threw away
  screen,     \* what was displayed last: "none", "prompt", "output", "error"
  errors      \* how often read(2) has failed

vars == <<input, written, closed, rpos, slo, shi, pc, lo,
          commands, discarded, screen, errors>>
stdin == <<input, written, closed>>
stdio == <<slo, shi>>

Stopped == {"done", "aborted", "killed"}
Places == {"prompt", "read", "drain", "dispatch", "free"} \cup Stopped

TypeOK ==
  /\ input \in Inputs
  /\ written \in 0..Len(input)
  /\ closed \in BOOLEAN
  /\ rpos \in 0..written
  /\ shi \in 0..rpos
  /\ slo \in 0..shi
  /\ pc \in Places
  /\ lo \in 0..rpos
  /\ commands \subseteq (0..Len(input)) \X (0..Len(input))
  /\ discarded \subseteq 1..Len(input)
  /\ screen \in {"none", "prompt", "output", "error"}
  /\ errors \in 0..MaxReadErrors

Init ==
  /\ input \in Inputs
  /\ written = 0
  /\ closed = FALSE
  /\ rpos = 0
  /\ slo = 0
  /\ shi = 0
  /\ pc = "prompt"
  /\ lo = 0
  /\ commands = {}
  /\ discarded = {}
  /\ screen = "none"
  /\ errors = 0

-----------------------------------------------------------------------------
(* The writer: a test script, a terminal or another program.               *)

(* The shell sits in a system call on an empty standard input. *)
Waiting == rpos = written /\ pc \in {"read", "drain"} /\ slo = shi

(***************************************************************************)
(* A pipe is written in blocks of any size.  A terminal hands over whole   *)
(* lines, which may be typed ahead.  The test scripts work in lock-step: a *)
(* line, then a pause until the shell waits for input again.               *)
(***************************************************************************)
Write ==
  /\ ~closed
  /\ \E n \in written+1 .. Len(input) :
       /\ Writer # "pipe" => LineEnd(input, n) /\ OneLineAtMost(input, written, n)
       /\ Writer = "lockstep" => Waiting
       /\ written' = n
  /\ UNCHANGED <<input, closed, rpos, stdio, pc, lo, commands, discarded,
                 screen, errors>>

Close ==
  /\ ~closed
  /\ written = Len(input)
  /\ closed' = TRUE
  /\ UNCHANGED <<input, written, rpos, stdio, pc, lo, commands, discarded,
                 screen, errors>>

(***************************************************************************)
(* read(0, buf, size) leaves rpos at n: it blocks until there is a byte,   *)
(* takes what there is up to size, and on a terminal stops after a line.   *)
(***************************************************************************)
Takes(size, n) ==
  /\ rpos < n
  /\ n <= written
  /\ n <= rpos + size
  /\ Writer = "terminal" => OneLineAtMost(input, rpos, n)
  /\ \/ n = rpos + size
     \/ n = written
     \/ Writer = "terminal" /\ input[n] = Newline

AtEof_Never == FALSE
AtEof == closed /\ rpos = written

-----------------------------------------------------------------------------
(* The main loop and get_input.  A definition Name_Change differs from the *)
(* code as a bug would; it only serves to show that a property notices.    *)

(* More than MAX_STR_LEN bytes were read. *)
Overlong_OffByOne(n) == n - rpos >= MAX_STR_LEN
Overlong(n) == n - rpos > MAX_STR_LEN

(* read(2) puts its bytes at the start of input_buf. *)
BufferStart_Appends == lo
BufferStart == rpos

(* getchar() has filled stdio's buffer up to byte n. *)
Filled_Peeks(n) == slo' = rpos /\ shi' = n /\ rpos' = rpos
Filled(n) == slo' = rpos /\ shi' = n /\ rpos' = n

(* The byte on which the drain loop ends. *)
DrainOver_OneBlock(i) == input[i] = Newline \/ i = shi
DrainOver_Never(i) == FALSE
DrainOver(i) == input[i] = Newline

(* What is on the screen after the handler of SIGINT. *)
HandlerShows_Newline == "output"
HandlerShows == "prompt"

DisplayPrompt ==
  /\ pc = "prompt"
  /\ pc' = "read"
  /\ screen' = "prompt"
  /\ UNCHANGED <<stdin, rpos, stdio, lo, commands, discarded, errors>>

(* read returns 0: main displays a newline and returns. *)
ReadEof ==
  /\ pc = "read"
  /\ AtEof
  /\ pc' = "done"
  /\ screen' = "output"
  /\ UNCHANGED <<stdin, rpos, stdio, lo, commands, discarded, errors>>

(* read returns -1: get_input returns -1 and main goes on to the prompt. *)
ReadFails ==
  /\ pc = "read"
  /\ errors < MaxReadErrors
  /\ errors' = errors + 1
  /\ pc' = "prompt"
  /\ UNCHANGED <<stdin, rpos, stdio, lo, commands, discarded, screen>>

(* read returns at most MAX_STR_LEN bytes: they are the command. *)
ReadCommand ==
  /\ pc = "read"
  /\ \E n \in rpos+1 .. written :
       /\ Takes(MAX_STR_LEN + 1, n)
       /\ ~Overlong(n)
       /\ rpos' = n
  /\ lo' = BufferStart
  /\ pc' = "dispatch"
  /\ UNCHANGED <<stdin, stdio, commands, discarded, screen, errors>>

(* read fills input_buf: an error message, and getchar() skips the rest. *)
ReadTooLong ==
  /\ pc = "read"
  /\ \E n \in rpos+1 .. written :
       /\ Takes(MAX_STR_LEN + 1, n)
       /\ Overlong(n)
       /\ rpos' = n
       /\ discarded' = discarded \cup (rpos+1 .. n)
  /\ screen' = "error"
  /\ pc' = "drain"
  /\ UNCHANGED <<stdin, stdio, lo, commands, errors>>

(* getchar() finds its buffer empty and fills it by a read of its own. *)
FillStdio ==
  /\ pc = "drain"
  /\ slo = shi
  /\ \E n \in rpos+1 .. written :
       /\ Takes(STDIO_SIZE, n)
       /\ Filled(n)
  /\ UNCHANGED <<stdin, pc, lo, commands, discarded, screen, errors>>

(* getchar() returns a byte of its buffer; a newline ends the loop. *)
SkipByte ==
  /\ pc = "drain"
  /\ slo < shi
  /\ slo' = slo + 1
  /\ discarded' = discarded \cup {slo + 1}
  /\ pc' = IF DrainOver(slo + 1) THEN "prompt" ELSE "drain"
  /\ UNCHANGED <<stdin, rpos, shi, lo, commands, screen, errors>>

(* getchar() returns EOF, at the end of the input or on an error. *)
SkipEnds ==
  /\ pc = "drain"
  /\ slo = shi
  /\ \/ AtEof /\ UNCHANGED errors
     \/ errors < MaxReadErrors /\ errors' = errors + 1
  /\ pc' = "prompt"
  /\ UNCHANGED <<stdin, rpos, stdio, lo, commands, discarded, screen>>

-----------------------------------------------------------------------------
(* Dispatch: what the main loop does with the bytes lo+1..rpos.            *)

Blank(i) == input[i] \in Delimiters

(* tokenize_input finds no token. *)
NoToken == \A i \in lo+1 .. rpos : Blank(i)

(* The first token is made of the bytes p..q. *)
FirstToken(p, q) ==
  /\ \A i \in lo+1 .. p-1 : Blank(i)
  /\ \A i \in p .. q : ~Blank(i)
  /\ q < rpos => Blank(q + 1)

FirstTokenIsExit == \E p \in lo+1 .. rpos : FirstToken(p, p) /\ input[p] = "e"

FirstTokenHasEquals ==
  \E p, q \in lo+1 .. rpos :
    p <= q /\ FirstToken(p, q) /\ \E i \in p..q : input[i] = "="

Handled == commands' = commands \cup {<<lo, rpos>>}

DispatchNothing ==
  /\ pc = "dispatch"
  /\ NoToken
  /\ Handled
  /\ pc' = "prompt"
  /\ UNCHANGED <<stdin, rpos, stdio, lo, discarded, screen, errors>>

DispatchExit ==
  /\ pc = "dispatch"
  /\ FirstTokenIsExit
  /\ Handled
  /\ pc' = "done"
  /\ UNCHANGED <<stdin, rpos, stdio, lo, discarded, screen, errors>>

(* name=value: def_var, or nothing when the value is missing; no output. *)
DispatchAssignment ==
  /\ pc = "dispatch"
  /\ ~FirstTokenIsExit
  /\ FirstTokenHasEquals
  /\ Handled
  /\ pc' = "prompt"
  /\ UNCHANGED <<stdin, rpos, stdio, lo, discarded, screen, errors>>

(***************************************************************************)
(* A builtin or an error message; with or without output.  The main loop   *)
(* of milestone 4 frees the tokens afterwards.  (Its call of external is   *)
(* never reached: see MyshDispatch.)                                       *)
(***************************************************************************)
DispatchCommand ==
  /\ pc = "dispatch"
  /\ ~NoToken
  /\ ~FirstTokenIsExit
  /\ ~FirstTokenHasEquals
  /\ Handled
  /\ screen' \in {screen, "output", "error"}
  /\ pc' = IF Milestone = 4 THEN "free" ELSE "prompt"
  /\ UNCHANGED <<stdin, rpos, stdio, lo, discarded, errors>>

(***************************************************************************)
(* free() of a pointer into the array input_buf, which malloc never        *)
(* returned: undefined; the allocator aborts, or nothing is noticed.       *)
(***************************************************************************)
FreeTokens ==
  /\ pc = "free"
  /\ pc' \in {"prompt", "aborted"}
  /\ UNCHANGED <<stdin, rpos, stdio, lo, commands, discarded, screen, errors>>

(***************************************************************************)
(* SIGINT at any time.  Milestone 4 catches it, shows a fresh prompt and   *)
(* resumes the interrupted call (signal() of the C library restarts        *)
(* read).  Milestone 3 has no handler and dies.                            *)
(***************************************************************************)
Sigint ==
  /\ pc \notin Stopped
  /\ IF Milestone = 4
       THEN screen' = HandlerShows /\ pc' = pc
       ELSE pc' = "killed" /\ screen' = screen
  /\ UNCHANGED <<stdin, rpos, stdio, lo, commands, discarded, errors>>

WriterStep == Write \/ Close

GetInput == ReadEof \/ ReadFails \/ ReadCommand \/ ReadTooLong
            \/ FillStdio \/ SkipByte \/ SkipEnds

Dispatch == DispatchNothing \/ DispatchExit \/ DispatchAssignment
            \/ DispatchCommand \/ FreeTokens

Shell == DisplayPrompt \/ GetInput \/ Dispatch

Next == WriterStep \/ Shell \/ Sigint

Spec == Init /\ [][Next]_vars

(***************************************************************************)
(* The kernel runs the shell whenever it can take a step other than to see *)
(* a read fail, which need never happen, and a writer that has written     *)
(* everything closes its end (it exits).  SIGINT need never come, and with *)
(* ShellFairSpec the user may stop typing.                                 *)
(***************************************************************************)
ShellFairSpec == Spec /\ WF_vars(Shell /\ UNCHANGED errors) /\ WF_vars(Close)
FairSpec == ShellFairSpec /\ WF_vars(Write)

-----------------------------------------------------------------------------
(* Properties.                                                             *)

BytesOf(c) == c[1]+1 .. c[2]
Executed == UNION {BytesOf(c) : c \in commands}
InBuffer == IF pc = "dispatch" THEN lo+1 .. rpos ELSE {}
InStdio == slo+1 .. shi

(***************************************************************************)
(* Two readers share standard input, read(2) in get_input and the getchar()*)
(* that skips a long line.  Whatever the writer does, every byte the       *)
(* kernel has handed over is in exactly one place: executed as part of one *)
(* command, thrown away, in input_buf, or left in stdio's buffer.  (Only a *)
(* shell killed by SIGINT loses what is in input_buf.)                     *)
(***************************************************************************)
Accounting ==
  pc # "killed" =>
  /\ 1..rpos = Executed \cup discarded \cup InBuffer \cup InStdio
  /\ \A c, d \in commands : c # d => BytesOf(c) \cap BytesOf(d) = {}
  /\ Executed \cap (discarded \cup InBuffer \cup InStdio) = {}
  /\ discarded \cap (InBuffer \cup InStdio) = {}
  /\ InBuffer \cap InStdio = {}

(***************************************************************************)
(* get_input reads blocks, not lines, and still, when a terminal or a      *)
(* lock-step script writes and read never fails, what the main loop        *)
(* executes is always one whole line: neither a part of one nor two.       *)
(***************************************************************************)
OneLinePerCommand ==
  Writer # "pipe" /\ errors = 0 =>
    \A c \in commands : IsLine(input, c[1], c[2])

(* A line that fills input_buf to the last byte with its newline. *)
ExactLine(a, b) == IsLine(input, a, b) /\ b - a = MAX_STR_LEN + 1
                     /\ input[b] = Newline

(***************************************************************************)
(* The drain loop of get_input: with such a writer, a line that is not too *)
(* long is thrown away only when it has exactly MAX_STR_LEN characters, or *)
(* follows one that has (whose newline read(2) took, so that the loop goes *)
(* on to the newline of the next line).                                    *)
(***************************************************************************)
ShortLineLostOnlyAtLimit ==
  Writer # "pipe" /\ errors = 0 =>
    \A l \in LinesOf(input) :
      /\ TextLen(input, l[1], l[2]) <= MAX_STR_LEN
      /\ BytesOf(l) \cap discarded # {}
      => \/ ExactLine(l[1], l[2])
         \/ \E k \in LinesOf(input) : k[2] = l[1] /\ ExactLine(k[1], k[2])

(***************************************************************************)
(* What the tests call a not-too-long line: one of fewer than MAX_STR_LEN  *)
(* characters is never thrown away.  (It is, after a line of exactly       *)
(* MAX_STR_LEN.)                                                           *)
(***************************************************************************)
LegalLineIsRun ==
  \A l \in LinesOf(input) :
    TextLen(input, l[1], l[2]) < MAX_STR_LEN => BytesOf(l) \cap discarded = {}

(***************************************************************************)
(* Whenever the shell waits for a command the last thing on the screen is  *)
(* the prompt, whatever SIGINT wrote over it in between.                   *)
(***************************************************************************)
PromptWhenWaiting == pc = "read" => screen = "prompt"

(***************************************************************************)
(* The shell never goes back: a command it executes lies behind everything *)
(* it executed or threw away before, also when getchar() read ahead and    *)
(* its buffer still holds older bytes.                                     *)
(***************************************************************************)
InOrder ==
  [][\A c \in commands' \ commands :
       \A i \in Executed \cup discarded : i <= c[1]]_vars

(***************************************************************************)
(* Under every writer the session comes to an end with the input: neither  *)
(* the main loop nor the drain loop waits for ever once the writer closes. *)
(***************************************************************************)
Terminates == <>(pc \in Stopped)

(* No line is one that fills input_buf to the last byte. *)
NoLineAtLimit == \A l \in LinesOf(input) : ~ExactLine(l[1], l[2])

(***************************************************************************)
(* With no line at the limit, and unless read fails, the shell always      *)
(* comes back to its prompt and waits there with nothing left unread, also *)
(* for a user who then stops typing: the drain loop never goes on to a     *)
(* line not yet written.                                                   *)
(***************************************************************************)
ComesBack ==
  NoLineAtLimit /\ [](errors = 0) => []<>(pc \in Stopped \/ (pc = "read" /\ rpos = written))

(***************************************************************************)
(* The promise of LineShell: every line is answered once, in order, the    *)
(* long ones by rejecting them.  A line counts as rejected once its last   *)
(* byte is thrown away.  The shell keeps the promise in a session without  *)
(* a line at the limit, and until read fails.                              *)
(***************************************************************************)
Promise == INSTANCE LineShell WITH
  run <- commands,
  rejected <- {l \in LinesOf(input) : BytesOf(l) \subseteq discarded},
  state <- CASE pc = "done" -> "ended"
             [] pc \in {"aborted", "killed"} -> "crashed"
             [] OTHER -> "running"

ImplementsLineShell ==
  Promise!Init /\ [][NoLineAtLimit /\ errors = 0 => Promise!Next]_(Promise!vars)
=============================================================================
