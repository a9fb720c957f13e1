-------------------------------- MODULE ListSum --------------------------------
(***************************************************************************)
(* ll_sum of w4: numbers from standard input go into a linked list, behind *)
(* a dummy node that is never initialised; the list is summed up, dummy    *)
(* included, and each node freed one turn after it was read.               *)
(*                                                                         *)
(* Nodes are numbered in the order of malloc, the dummy is node 1.         *)
(***************************************************************************)
EXTENDS Integers, SequencesExt

CONSTANTS
  Inputs,       \* what is on standard input: numbers, Junk for what is none
  Junk,
  Garbage,      \* values found in memory that was not written
  MaxNodes      \* nodes malloc has room for

Null == 0
Dangling == -1    \* a pointer that was not written and is not NULL

VARIABLES
  tokens,       \* what is on standard input
  tokens_read,
  user_inp,
  value,        \* of each node
  next,         \* of each node
  front,
  current,
  sum,
  freed,        \* the nodes freed, in order
  pc            \* "scanf", "sum", "done", or "crash" where it is undefined

scan_vars == <<tokens_read, user_inp, value, next>>
sum_vars == <<front, sum, freed>>
vars == <<tokens, scan_vars, current, sum_vars, pc>>

(* A token that is no number stays: scanf returns 0, not EOF, for ever.    *)
Scan ==
  /\ pc = "scanf"
  /\ tokens_read < Len(tokens)
  /\ Len(value) < MaxNodes
  /\ LET token == tokens[tokens_read + 1]
         new == IF token = Junk THEN user_inp ELSE token
     IN  /\ tokens_read' = IF token = Junk THEN tokens_read ELSE tokens_read + 1
         /\ user_inp' = new
         /\ value' = Append(value, new)
  /\ next' = Append([next EXCEPT ![current] = Len(value) + 1], Null)
  /\ current' = Len(value) + 1
  /\ UNCHANGED <<tokens, sum_vars, pc>>

(* malloc returns NULL, which is written through. *)
ScanCrashes ==
  /\ pc = "scanf"
  /\ tokens_read < Len(tokens)
  /\ Len(value) = MaxNodes
  /\ pc' = "crash"
  /\ UNCHANGED <<tokens, scan_vars, current, sum_vars>>

ScanEnds ==
  /\ pc = "scanf"
  /\ tokens_read = Len(tokens)
  /\ current' = Null
  /\ pc' = "sum"
  /\ UNCHANGED <<tokens, scan_vars, sum_vars>>

(* A definition Name_Change differs from the code as a bug would; it only  *)
(* serves to show that a property notices.                                 *)
Behind_Front == front
Behind == current

(* The node behind front is freed, and front moves on. *)
SumNode ==
  /\ pc = "sum"
  /\ front \in DOMAIN value
  /\ freed' = IF Behind = Null THEN freed ELSE Append(freed, Behind)
  /\ sum' = sum + value[front]
  /\ current' = front
  /\ front' = next[front]
  /\ UNCHANGED <<tokens, scan_vars, pc>>

(* Without input nobody has written the dummy's pointer. *)
SumCrashes ==
  /\ pc = "sum"
  /\ front = Dangling
  /\ pc' = "crash"
  /\ UNCHANGED <<tokens, scan_vars, current, sum_vars>>

SumEnds ==
  /\ pc = "sum"
  /\ front = Null
  /\ freed' = Append(freed, current)
  /\ pc' = "done"
  /\ UNCHANGED <<tokens, scan_vars, current, front, sum>>

Init ==
  /\ tokens \in Inputs
  /\ tokens_read = 0
  /\ user_inp \in Garbage
  /\ \E v \in Garbage : value = <<v>>
  /\ \E p \in {Null, Dangling} : next = <<p>>
  /\ front = 1
  /\ current = 1
  /\ sum = 0
  /\ freed = << >>
  /\ pc = "scanf"

Next == Scan \/ ScanCrashes \/ ScanEnds \/ SumNode \/ SumCrashes \/ SumEnds

Spec == Init /\ [][Next]_vars

(***************************************************************************)
(* No node is used after it was freed, none is freed twice, none is left   *)
(* in the end; and the sum is that of the numbers and of what the dummy    *)
(* node happened to hold.  Undefined is only an input without numbers or   *)
(* with something else among them.                                         *)
(***************************************************************************)
NodesFreed ==
  /\ pc = "sum" => {front, current} \cap Range(freed) = {}
  /\ IsInjective(freed)
  /\ pc = "done" =>
       /\ Range(freed) = DOMAIN value
       /\ sum = FoldLeft(LAMBDA x, y : x + y, value[1], tokens)
  /\ pc = "crash" => tokens = << >> \/ Junk \in Range(tokens)

(* A token that is no number is read for ever. *)
MustEnd == Junk \notin Range(tokens)

HasEnded == pc \in {"done", "crash"}
=============================================================================
