------------------------------- MODULE TimeReads -------------------------------
(***************************************************************************)
(* time_reads of w8: a loop that reads integers at random places of a file *)
(* and counts the reads, until a timer of processor time sends SIGPROF,    *)
(* whose handler reports the count and exits.  The handler runs between    *)
(* any two steps.  stderr is not buffered and its lock is recursive, so    *)
(* that the handler can report while the loop prints.                      *)
(***************************************************************************)
EXTENDS Integers

CONSTANTS
  Seconds,      \* values of the first argument
  MaxReads      \* bound: turns of the loop

None == -1

VARIABLES
  seconds,
  whole,        \* does the file hold all the integers that may be asked for?
  timer,        \* "off", "set" or "expired"
  got,          \* history: integers read
  turns,        \* bound: turns begun
  num_reads,
  reported,     \* what the handler reported, or None
  pc

vars == <<seconds, whole, timer, got, turns, num_reads, reported, pc>>

Go(at) == pc' = at /\ UNCHANGED <<seconds, whole, reported>>

(* sigaction comes first: there is no SIGPROF without the handler. *)
InstallHandler ==
  /\ pc = "start"
  /\ Go("setitimer")
  /\ UNCHANGED <<timer, got, turns, num_reads>>

(* setitimer with no time disarms the timer, and fails with less than none. *)
SetTimer ==
  /\ pc = "setitimer"
  /\ timer' = IF seconds > 0 THEN "set" ELSE "off"
  /\ Go("fopen")
  /\ UNCHANGED <<got, turns, num_reads>>

(* A definition Name_Change differs from the code as a bug would; it only  *)
(* serves to show that a property notices.                                 *)
LoopFrom_Count == "count"
LoopFrom == "read"

Opens ==
  /\ pc = "fopen"
  /\ Go(LoopFrom)
  /\ UNCHANGED <<timer, got, turns, num_reads>>

OpenFails ==
  /\ pc = "fopen"
  /\ Go("failed")
  /\ UNCHANGED <<timer, got, turns, num_reads>>

(* fseek and fread; behind the end of the file there is nothing to read,   *)
(* and the loop does not look.                                             *)
Read ==
  /\ pc = "read"
  /\ turns < MaxReads
  /\ turns' = turns + 1
  /\ \E n \in IF whole THEN {1} ELSE {0, 1} : got' = got + n
  /\ Go("print")
  /\ UNCHANGED <<timer, num_reads>>

PrintVal ==
  /\ pc = "print"
  /\ Go("count")
  /\ UNCHANGED <<timer, got, turns, num_reads>>

CountRead ==
  /\ pc = "count"
  /\ num_reads' = num_reads + 1
  /\ Go("read")
  /\ UNCHANGED <<timer, got, turns>>

(* The timer expires and handle_sigprof runs. *)
HandleSigprof ==
  /\ timer = "set"
  /\ pc \in {"fopen", "read", "print", "count"}
  /\ timer' = "expired"
  /\ reported' = num_reads
  /\ pc' = "done"
  /\ UNCHANGED <<seconds, whole, got, turns, num_reads>>

Init ==
  /\ seconds \in Seconds
  /\ whole \in BOOLEAN
  /\ timer = "off"
  /\ got = 0
  /\ turns = 0
  /\ num_reads = 0
  /\ reported = None
  /\ pc = "start"

Main == InstallHandler \/ SetTimer \/ Opens \/ OpenFails \/ Read \/ PrintVal \/ CountRead

Next == Main \/ HandleSigprof

Spec == Init /\ [][Next]_vars

(***************************************************************************)
(* Wherever the signal falls, the handler reports the integers read, but   *)
(* for one at most that was read and not counted yet, provided the file    *)
(* has the integers that are asked for.                                    *)
(***************************************************************************)
CountWithinOne ==
  /\ pc = "done" => reported # None
  /\ reported # None /\ whole => reported \in {got - 1, got}

(* Only a timer that was set ends the loop. *)
MustEnd == seconds > 0

HasEnded == pc \in {"done", "failed"}
=============================================================================
