------------------------------- MODULE ForkTrees -------------------------------
(***************************************************************************)
(* simplefork, forkloop and parentcreates of w6: processes that fork, with *)
(* what each has printed and not yet written.  On a terminal a line is     *)
(* written when it is printed.  On a pipe or in a file it stays in the     *)
(* buffer of stdout until the process exits, and fork copies that buffer.  *)
(*                                                                         *)
(* Two processes in the same place are alike (pids are not told apart), so *)
(* the processes are a bag, and so are the lines, whose order is that of   *)
(* the scheduler.                                                          *)
(***************************************************************************)
EXTENDS Naturals, BagsExt, Bags

CONSTANT NumKids      \* values of the argument to run with

VARIABLES
  exercise,     \* which program it is
  num_kids,     \* its argument
  tty,          \* is standard output a terminal?
  procs,        \* the processes that run
  shown,        \* the lines written
  fork_failed   \* history: bound, fork fails once

vars == <<exercise, num_kids, tty, procs, shown, fork_failed>>

Loops == exercise # "simplefork"

(* p goes on as q. *)
Becomes(p, q) == procs' = BagAdd(BagRemove(procs, p), q)

(* p prints a line and goes on as q. *)
Prints(p, line, q) ==
  IF tty
    THEN Becomes(p, q) /\ shown' = BagAdd(shown, line)
    ELSE Becomes(p, [q EXCEPT !.buf = BagAdd(@, line)]) /\ UNCHANGED shown

Forks(p) == p.at = "fork" /\ (Loops => p.i < num_kids)

Fork(p) ==
  /\ Forks(p)
  /\ procs' = BagAdd(BagAdd(BagRemove(procs, p), [p EXCEPT !.at = "forked", !.n = "child"]),
                     [p EXCEPT !.at = "forked", !.n = "parent"])
  /\ UNCHANGED <<shown, fork_failed>>

ForkFails(p) ==
  /\ Forks(p)
  /\ ~fork_failed
  /\ fork_failed' = TRUE
  /\ Becomes(p, [p EXCEPT !.at = "forked", !.n = "failed"])
  /\ UNCHANGED shown

(* The next turn of a loop. *)
Again(p) == [p EXCEPT !.at = "fork", !.i = @ + 1, !.n = "none"]

(* simplefork prints B before it looks at what fork returned. *)
SimpleFork(p) ==
  /\ exercise = "simplefork"
  /\ \/ p.at = "start" /\ Prints(p, "A", [p EXCEPT !.at = "fork"])
     \/ p.at = "forked" /\ Prints(p, "B", [p EXCEPT !.at = "test"])
     \/ p.at = "test" /\ p.n = "child" /\ Prints(p, "C", [p EXCEPT !.at = "last"])
     \/ p.at = "test" /\ p.n = "parent" /\ Prints(p, "D", [p EXCEPT !.at = "last"])
     \/ p.at = "last" /\ Prints(p, "E", [p EXCEPT !.at = "exit"])
  /\ UNCHANGED fork_failed

(* Parent and child alike go on in the loop. *)
ForkLoop(p) ==
  /\ exercise = "forkloop"
  /\ p.at = "forked"
  /\ p.n # "failed"
  /\ Prints(p, p.i, Again(p))
  /\ UNCHANGED fork_failed

(* A definition Name_Change differs from the code as a bug would; it only  *)
(* serves to show that a property notices.                                 *)
ChildLeft_Loops(p) == Again(p)
ChildLeft(p) == [p EXCEPT !.at = "exit"]

ParentCreates(p) ==
  /\ exercise = "parentcreates"
  /\ p.at = "forked"
  /\ \/ p.n = "child" /\ Prints(p, <<"child", p.i>>, ChildLeft(p))
     \/ p.n = "parent" /\ Prints(p, <<"parent", p.i>>, Again(p))
  /\ UNCHANGED fork_failed

Ends(p) ==
  \/ p.at = "exit"
  \/ p.n = "failed" /\ p.at = (IF Loops THEN "forked" ELSE "test")
  \/ Loops /\ p.at = "fork" /\ p.i >= num_kids

(* exit writes what the process has in its buffer. *)
Exit(p) ==
  /\ Ends(p)
  /\ procs' = BagRemove(procs, p)
  /\ shown' = shown (+) p.buf
  /\ UNCHANGED fork_failed

Init ==
  /\ exercise \in {"simplefork", "forkloop", "parentcreates"}
  /\ num_kids \in NumKids
  /\ tty \in BOOLEAN
  /\ procs = SetToBag({[at |-> IF Loops THEN "fork" ELSE "start", i |-> 0, n |-> "none",
                        buf |-> EmptyBag]})
  /\ shown = EmptyBag
  /\ fork_failed = FALSE

Next ==
  /\ \E p \in BagToSet(procs) :
       Fork(p) \/ ForkFails(p) \/ SimpleFork(p) \/ ForkLoop(p) \/ ParentCreates(p) \/ Exit(p)
  /\ UNCHANGED <<exercise, num_kids, tty>>

Spec == Init /\ [][Next]_vars

-----------------------------------------------------------------------------
(* How often each line appears when no fork fails.  In a buffer it is      *)
(* copied by each fork that comes after it.                                *)

Lines ==
  CASE exercise = "simplefork" -> {"A", "B", "C", "D", "E"}
    [] exercise = "forkloop" -> 0 .. num_kids - 1
    [] exercise = "parentcreates" -> {"parent", "child"} \X (0 .. num_kids - 1)

HowMany(e, B) == IF BagIn(e, B) THEN B[e] ELSE 0

PowerOf2[n \in Nat] == IF n = 0 THEN 1 ELSE 2 * PowerOf2[n - 1]

Copies(line) ==
  CASE exercise = "simplefork" -> IF line \in {"B", "E"} \/ (line = "A" /\ ~tty) THEN 2 ELSE 1
    [] exercise = "forkloop" -> PowerOf2[IF tty THEN line + 1 ELSE num_kids]
    [] exercise = "parentcreates" ->
         IF tty \/ line[1] = "child" THEN 1 ELSE num_kids - line[2]

(***************************************************************************)
(* However the processes are scheduled, no line is shown more often than   *)
(* that, and when all have ended and no fork failed each is shown exactly  *)
(* so often.                                                               *)
(***************************************************************************)
LinesPrinted ==
  /\ BagToSet(shown) \subseteq Lines
  /\ \A line \in Lines :
       /\ HowMany(line, shown) <= Copies(line)
       /\ procs = EmptyBag /\ ~fork_failed => HowMany(line, shown) = Copies(line)

(* Every process ends, however many there are. *)
MustEnd == TRUE

HasEnded == procs = EmptyBag
=============================================================================
