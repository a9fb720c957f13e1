--------------------------- MODULE MyshInput_proofs ---------------------------
(***************************************************************************)
(* Proofs about MyshInput, for every line limit, stdio buffer size, input, *)
(* writer and milestone.                                                   *)
(***************************************************************************)
EXTENDS MyshInput, TLAPS

USE DEF Overlong, BufferStart, Filled, DrainOver, HandlerShows

LEMMA InputType ==
  ASSUME TypeOK
  PROVE  input \in Seq(Bytes) /\ Len(input) \in Nat
BY InputAssumption DEF TypeOK

(* The type invariant: the positions are ordered, slo <= shi <= rpos <=    *)
(* written, so that no reader is ever ahead of the writer.                 *)
LEMMA TypeStep == TypeOK /\ [Next]_vars => TypeOK'
<1> SUFFICES ASSUME TypeOK, [Next]_vars PROVE TypeOK'
  OBVIOUS
<1>0. Len(input) \in Nat
  BY InputType
<1> USE InputAssumption, <1>0 DEF TypeOK, stdin, stdio, Places, Stopped
<1>1. CASE Write
  BY <1>1 DEF Write
<1>2. CASE Close
  BY <1>2 DEF Close
<1>3. CASE DisplayPrompt
  BY <1>3 DEF DisplayPrompt
<1>4. CASE ReadEof
  BY <1>4 DEF ReadEof
<1>5. CASE ReadFails
  BY <1>5 DEF ReadFails
<1>6. CASE ReadCommand
  BY <1>6 DEF ReadCommand
<1>7. CASE ReadTooLong
  BY <1>7 DEF ReadTooLong
<1>8. CASE FillStdio
  BY <1>8 DEF FillStdio
<1>9. CASE SkipByte
  BY <1>9 DEF SkipByte
<1>10. CASE SkipEnds
  BY <1>10 DEF SkipEnds
<1>11. CASE DispatchNothing
  BY <1>11 DEF DispatchNothing, Handled
<1>12. CASE DispatchCommand
  BY <1>12 DEF DispatchCommand, Handled
<1>13. CASE FreeTokens
  BY <1>13 DEF FreeTokens
<1>14. CASE Sigint
  BY <1>14 DEF Sigint
<1>15. CASE DispatchExit
  BY <1>15 DEF DispatchExit, Handled
<1>16. CASE DispatchAssignment
  BY <1>16 DEF DispatchAssignment, Handled
<1>17. CASE UNCHANGED vars
  BY <1>17 DEF vars
<1> HIDE DEF TypeOK, stdin, stdio, Places, Stopped
<1> QED
  BY <1>1, <1>2, <1>3, <1>4, <1>5, <1>6, <1>7, <1>8, <1>9, <1>10, <1>11,
     <1>12, <1>13, <1>14, <1>15, <1>16, <1>17 DEF Next, WriterStep, Shell, GetInput, Dispatch

(* The positions of the writer and of the two readers stay ordered. *)
THEOREM TypeCorrect == Spec => []TypeOK
<1>1. ASSUME Init PROVE TypeOK
  <2>1. Len(input) \in Nat
    BY <1>1, InputAssumption DEF Init
  <2>2. /\ input \in Inputs /\ written \in 0..Len(input)
        /\ rpos \in 0..written /\ shi \in 0..rpos /\ slo \in 0..shi /\ lo \in 0..rpos
    BY <1>1, <2>1 DEF Init
  <2>3. closed \in BOOLEAN
    BY <1>1 DEF Init
  <2>4. /\ pc \in Places /\ screen \in {"none", "prompt", "output", "error"}
        /\ commands = {} /\ discarded = {}
    BY <1>1 DEF Init, Places, Stopped
  <2>5. errors \in 0..MaxReadErrors
    BY <1>1, InputAssumption DEF Init
  <2> QED
    BY <2>2, <2>3, <2>4, <2>5 DEF TypeOK
<1> QED
  BY <1>1, TypeStep, PTL DEF Spec

-----------------------------------------------------------------------------
(* Accounting.                                                             *)

LEMMA ExecutedGrows ==
  ASSUME NEW c, commands' = commands \cup {c}
  PROVE  Executed' = Executed \cup BytesOf(c)
BY DEF Executed, BytesOf

(* Nothing moves: a step that leaves the places of all bytes as they are.  *)
Still == /\ UNCHANGED <<rpos, slo, shi, commands, discarded, InBuffer>>
         /\ pc' # "killed" => pc # "killed"

LEMMA StillAccounts == Accounting /\ Still => Accounting'
BY DEF Accounting, Still, Executed, InBuffer, InStdio, BytesOf

(* Handling the command moves the bytes of input_buf to the executed ones. *)
LEMMA HandledAccounts ==
  ASSUME TypeOK, Accounting, pc = "dispatch", Handled,
         pc' \in {"prompt", "free", "done"},
         UNCHANGED <<rpos, slo, shi, discarded>>
  PROVE  Accounting'
<1>1. Executed' = Executed \cup BytesOf(<<lo, rpos>>)
  BY ExecutedGrows DEF Handled
<1>2. BytesOf(<<lo, rpos>>) = InBuffer
  BY DEF BytesOf, InBuffer
<1>3. InBuffer' = {}
  BY DEF InBuffer
<1>4. InStdio' = InStdio
  BY DEF InStdio
<1>5. ASSUME NEW c \in commands', NEW d \in commands', c # d
      PROVE  BytesOf(c) \cap BytesOf(d) = {}
  <2>1. \A e \in commands : BytesOf(e) \subseteq Executed
    BY DEF Executed
  <2>2. commands' = commands \cup {<<lo, rpos>>}
    BY DEF Handled
  <2> QED
    BY <1>2, <1>5, <2>1, <2>2 DEF Accounting
<1>6. \A c, d \in commands' : c # d => (BytesOf(c) \cap BytesOf(d))' = {}
  BY <1>5 DEF BytesOf
<1> QED
  BY <1>1, <1>2, <1>3, <1>4, <1>6 DEF Accounting, BytesOf

LEMMA AccountingStep == TypeOK /\ Accounting /\ [Next]_vars => Accounting'
<1> SUFFICES ASSUME TypeOK, Accounting, [Next]_vars PROVE Accounting'
  OBVIOUS
<1>0. /\ Len(input) \in Nat
      /\ rpos \in Nat /\ slo \in Nat /\ shi \in Nat /\ slo <= shi /\ shi <= rpos
  BY InputType DEF TypeOK
<1>1. CASE Write
  BY <1>1, StillAccounts DEF Write, Still, InBuffer, stdio
<1>2. CASE Close
  BY <1>2, StillAccounts DEF Close, Still, InBuffer, stdio
<1>3. CASE DisplayPrompt
  BY <1>3, StillAccounts DEF DisplayPrompt, Still, InBuffer, stdio
<1>4. CASE ReadEof
  BY <1>4, StillAccounts DEF ReadEof, Still, InBuffer, stdio
<1>5. CASE ReadFails
  BY <1>5, StillAccounts DEF ReadFails, Still, InBuffer, stdio
<1>6. CASE ReadCommand
  <2>1. PICK n \in rpos+1 .. written : rpos' = n
    BY <1>6 DEF ReadCommand
  <2>2. /\ InBuffer = {} /\ InBuffer' = rpos+1 .. n /\ InStdio' = InStdio
        /\ pc # "killed"
        /\ Executed' = Executed /\ discarded' = discarded /\ commands' = commands
    BY <1>6, <2>1 DEF ReadCommand, InBuffer, InStdio, Executed, BytesOf, stdio
  <2>3. 1..n = 1..rpos \cup (rpos+1 .. n) /\ 1..rpos \cap (rpos+1 .. n) = {}
    BY <1>0, <2>1 DEF TypeOK
  <2> QED
    BY <2>1, <2>2, <2>3 DEF Accounting, BytesOf
<1>7. CASE ReadTooLong
  <2>1. PICK n \in rpos+1 .. written :
          rpos' = n /\ discarded' = discarded \cup (rpos+1 .. n)
    BY <1>7 DEF ReadTooLong
  <2>2. /\ InBuffer = {} /\ InBuffer' = {} /\ InStdio' = InStdio
        /\ pc # "killed"
        /\ Executed' = Executed /\ commands' = commands
    BY <1>7 DEF ReadTooLong, InBuffer, InStdio, Executed, BytesOf, stdio
  <2>3. 1..n = 1..rpos \cup (rpos+1 .. n) /\ 1..rpos \cap (rpos+1 .. n) = {}
    BY <1>0, <2>1 DEF TypeOK
  <2> QED
    BY <2>1, <2>2, <2>3 DEF Accounting, BytesOf
<1>8. CASE FillStdio
  <2>1. PICK n \in rpos+1 .. written : rpos' = n /\ shi' = n /\ slo' = rpos
    BY <1>8 DEF FillStdio
  <2>2. /\ InBuffer = {} /\ InBuffer' = {} /\ InStdio' = rpos+1 .. n
        /\ pc # "killed"
        /\ Executed' = Executed /\ discarded' = discarded /\ commands' = commands
    BY <1>8, <2>1 DEF FillStdio, InBuffer, InStdio, Executed, BytesOf
  <2>3. InStdio = {}
    BY <1>0, <1>8 DEF FillStdio, InStdio
  <2>4. 1..n = 1..rpos \cup (rpos+1 .. n) /\ 1..rpos \cap (rpos+1 .. n) = {}
    BY <1>0, <2>1 DEF TypeOK
  <2> QED
    BY <2>1, <2>2, <2>3, <2>4 DEF Accounting, BytesOf
<1>9. CASE SkipByte
  <2>1. /\ InBuffer = {} /\ InBuffer' = {} /\ Executed' = Executed
        /\ commands' = commands /\ rpos' = rpos
        /\ discarded' = discarded \cup {slo + 1}
        /\ pc # "killed"
    BY <1>9 DEF SkipByte, InBuffer, Executed, BytesOf
  <2>2. InStdio = {slo + 1} \cup InStdio' /\ slo + 1 \notin InStdio'
    BY <1>0, <1>9 DEF SkipByte, InStdio
  <2> QED
    BY <2>1, <2>2 DEF Accounting, BytesOf
<1>10. CASE SkipEnds
  BY <1>10, StillAccounts DEF SkipEnds, Still, InBuffer, stdio
<1>11. CASE DispatchNothing
  BY <1>11, HandledAccounts DEF DispatchNothing, stdio
<1>12. CASE DispatchExit
  BY <1>12, HandledAccounts DEF DispatchExit, stdio
<1>13. CASE DispatchAssignment
  BY <1>13, HandledAccounts DEF DispatchAssignment, stdio
<1>14. CASE DispatchCommand
  BY <1>14, HandledAccounts DEF DispatchCommand, stdio
<1>15. CASE FreeTokens
  BY <1>15, StillAccounts DEF FreeTokens, Still, InBuffer, stdio
<1>16. CASE Sigint
  <2>1. CASE pc' = pc
    BY <1>16, <2>1, StillAccounts DEF Sigint, Still, InBuffer, stdio
  <2>2. CASE pc' = "killed"
    BY <2>2 DEF Accounting
  <2> QED
    BY <1>16, <2>1, <2>2 DEF Sigint
<1>17. CASE UNCHANGED vars
  BY <1>17, StillAccounts DEF vars, Still, InBuffer
<1> QED
  BY <1>1, <1>2, <1>3, <1>4, <1>5, <1>6, <1>7, <1>8, <1>9, <1>10, <1>11,
     <1>12, <1>13, <1>14, <1>15, <1>16, <1>17
     DEF Next, WriterStep, Shell, GetInput, Dispatch

(***************************************************************************)
(* Every byte the two readers of standard input take is in exactly one     *)
(* place, whoever writes, also when getchar() reads ahead.                 *)
(***************************************************************************)
THEOREM AccountingHolds == Spec => []Accounting
<1>1. Init => Accounting
  BY DEF Init, Accounting, Executed, InBuffer, InStdio, BytesOf
<1> QED
  BY <1>1, AccountingStep, TypeCorrect, PTL DEF Spec

(***************************************************************************)
(* The shell never goes back in its input: what it executes lies behind    *)
(* all it executed or threw away before.  By Accounting, nothing else can  *)
(* lie in input_buf.                                                       *)
(***************************************************************************)
THEOREM NeverGoesBack == Spec => InOrder
<1> DEFINE Later == \A c \in commands' \ commands :
                      \A i \in Executed \cup discarded : i <= c[1]
<1>1. ASSUME TypeOK, Accounting, Next PROVE Later
  <2>1. ASSUME pc = "dispatch", Handled PROVE Later
    <3>1. /\ rpos \in Nat /\ lo \in Nat /\ lo <= rpos
      BY <1>1, InputType DEF TypeOK
    <3>2. ASSUME NEW i \in Executed \cup discarded PROVE i <= lo
      <4>1. i \in 1..rpos /\ i \notin lo+1 .. rpos
        BY <1>1, <2>1, <3>2 DEF Accounting, InBuffer
      <4> QED
        BY <3>1, <4>1
    <3>3. \A c \in commands' \ commands : c[1] = lo
      BY <2>1 DEF Handled
    <3> QED
      BY <3>2, <3>3
  <2>2. CASE commands' = commands
    BY <2>2
  <2> QED
    BY <1>1, <2>1, <2>2
       DEF Next, WriterStep, Shell, GetInput, Dispatch, Write, Close, DisplayPrompt,
           ReadEof, ReadFails, ReadCommand, ReadTooLong, FillStdio, SkipByte,
           SkipEnds, DispatchNothing, DispatchExit, DispatchAssignment,
           DispatchCommand, FreeTokens, Sigint
<1>2. TypeOK /\ Accounting /\ [Next]_vars => [Later]_vars
  BY <1>1
<1> QED
  BY <1>2, TypeCorrect, AccountingHolds, PTL DEF Spec, InOrder

-----------------------------------------------------------------------------
(* One line per command.                                                   *)

(* Between two lines of the input, or at its end. *)
Boundary(i) == LineStart(input, i) \/ i = Len(input)

(***************************************************************************)
(* What makes OneLinePerCommand inductive: outside the drain loop the      *)
(* shell stands between two lines with nothing in stdio's buffer; inside   *)
(* it, stdio's buffer reaches up to rpos and holds one line at most; the   *)
(* writer stands between two lines, in lock-step at most one line ahead.   *)
(***************************************************************************)
LineInv ==
  Writer # "pipe" /\ errors = 0 =>
    /\ \A c \in commands : IsLine(input, c[1], c[2])
    /\ Boundary(written)
    /\ Writer = "lockstep" => OneLineAtMost(input, rpos, written)
    /\ pc \in {"prompt", "read", "free"} => Boundary(rpos) /\ slo = shi
    /\ pc = "dispatch" => IsLine(input, lo, rpos) /\ slo = shi
    /\ pc = "drain" => OneLineAtMost(input, slo, shi) /\ (slo < shi => shi = rpos)
    /\ closed => written = Len(input)

(* A step that touches nothing LineInv speaks of, or leaves the loop. *)
LEMMA LineStill ==
  ASSUME LineInv,
         UNCHANGED <<input, written, closed, rpos, slo, shi, commands, lo>>,
         errors' = 0 => errors = 0,
         pc' = pc \/ pc' \in Stopped \/
           (pc \in {"prompt", "read", "free"} /\ pc' \in {"prompt", "read", "free"})
  PROVE  LineInv'
BY DEF LineInv, Boundary, LineStart, IsLine, LineEnd, OneLineAtMost, Stopped

LEMMA LineHandled ==
  ASSUME LineInv, pc = "dispatch", Handled, pc' \in {"prompt", "free", "done"},
         UNCHANGED <<input, written, closed, rpos, slo, shi, lo, errors>>
  PROVE  LineInv'
BY DEF LineInv, Boundary, LineStart, IsLine, LineEnd, OneLineAtMost, Handled

LEMMA LineStep == TypeOK /\ LineInv /\ [Next]_vars => LineInv'
<1> SUFFICES ASSUME TypeOK, LineInv, [Next]_vars PROVE LineInv'
  OBVIOUS
<1>0. /\ Len(input) \in Nat /\ written \in Nat /\ written <= Len(input)
      /\ rpos \in Nat /\ rpos <= written /\ slo \in Nat /\ shi \in Nat
      /\ slo <= shi /\ shi <= rpos /\ errors \in Nat
  BY InputType, InputAssumption DEF TypeOK
<1> USE DEF LineInv, Boundary, LineStart, LineEnd, IsLine, OneLineAtMost
<1>1. CASE Write
  BY <1>0, <1>1 DEF Write, Waiting, stdio
<1>2. CASE Close
  BY <1>0, <1>2 DEF Close, stdio
<1>3. CASE DisplayPrompt
  BY <1>3, LineStill DEF DisplayPrompt, stdin, stdio
<1>4. CASE ReadEof
  BY <1>4, LineStill DEF ReadEof, stdin, stdio, Stopped
<1>5. CASE ReadFails
  BY <1>0, <1>5 DEF ReadFails, stdin, stdio
<1>6. CASE ReadCommand
  <2>1. PICK n \in rpos+1 .. written :
          /\ Takes(MAX_STR_LEN + 1, n) /\ n - rpos <= MAX_STR_LEN /\ rpos' = n
    BY <1>0, <1>6, InputAssumption DEF ReadCommand
  <2>2. n = written \/ (Writer = "terminal" /\ input[n] = Newline)
    BY <1>0, <2>1, InputAssumption DEF Takes
  <2>3. Writer # "pipe" /\ errors = 0 => OneLineAtMost(input, rpos, n)
    BY <1>0, <2>1, <2>2, InputAssumption DEF Takes
  <2>4. Writer # "pipe" /\ errors = 0 => IsLine(input, rpos, n)
    BY <1>0, <1>6, <2>1, <2>2, <2>3 DEF ReadCommand
  <2> QED
    BY <1>0, <1>6, <2>1, <2>4 DEF ReadCommand, stdin, stdio
<1>7. CASE ReadTooLong
  BY <1>0, <1>7 DEF ReadTooLong, stdin, stdio
<1>8. CASE FillStdio
  <2>1. PICK n \in rpos+1 .. written :
          Takes(STDIO_SIZE, n) /\ rpos' = n /\ shi' = n
    BY <1>8 DEF FillStdio
  <2>2. Writer # "pipe" /\ errors = 0 => OneLineAtMost(input, rpos, n)
    BY <1>0, <2>1, InputAssumption DEF Takes
  <2> QED
    BY <1>0, <1>8, <2>1, <2>2 DEF FillStdio, stdin
<1>9. CASE SkipByte
  BY <1>0, <1>9 DEF SkipByte, stdin
<1>10. CASE SkipEnds
  BY <1>0, <1>10 DEF SkipEnds, AtEof, stdin, stdio
<1>11. CASE DispatchNothing
  BY <1>11, LineHandled DEF DispatchNothing, stdin, stdio
<1>12. CASE DispatchExit
  BY <1>12, LineHandled DEF DispatchExit, stdin, stdio
<1>13. CASE DispatchAssignment
  BY <1>13, LineHandled DEF DispatchAssignment, stdin, stdio
<1>14. CASE DispatchCommand
  BY <1>14, LineHandled DEF DispatchCommand, stdin, stdio
<1>15. CASE FreeTokens
  BY <1>15, LineStill DEF FreeTokens, stdin, stdio, Stopped
<1>16. CASE Sigint
  BY <1>16, LineStill DEF Sigint, stdin, stdio, Stopped
<1>17. CASE UNCHANGED vars
  BY <1>17, LineStill DEF vars
<1> HIDE DEF LineInv
<1> QED
  BY <1>1, <1>2, <1>3, <1>4, <1>5, <1>6, <1>7, <1>8, <1>9, <1>10, <1>11,
     <1>12, <1>13, <1>14, <1>15, <1>16, <1>17
     DEF Next, WriterStep, Shell, GetInput, Dispatch

(***************************************************************************)
(* When a terminal or a lock-step script writes, what the main loop        *)
(* executes is always one whole line, for every MAX_STR_LEN, every size of *)
(* stdio's buffer and every input, lines at the limit included.            *)
(***************************************************************************)
THEOREM OneLineTheorem == Spec => []OneLinePerCommand
<1>1. Init => LineInv
  BY DEF Init, LineInv, Boundary, LineStart, OneLineAtMost
<1>2. LineInv => OneLinePerCommand
  BY DEF LineInv, OneLinePerCommand
<1> QED
  BY <1>1, <1>2, LineStep, TypeCorrect, PTL DEF Spec

(***************************************************************************)
(* The prompt is what the user sees whenever the shell waits for a         *)
(* command, SIGINT or not.                                                 *)
(***************************************************************************)
THEOREM PromptTheorem == Spec => []PromptWhenWaiting
<1>1. Init => PromptWhenWaiting
  BY DEF Init, PromptWhenWaiting
<1>2. PromptWhenWaiting /\ [Next]_vars => PromptWhenWaiting'
  BY DEF PromptWhenWaiting, Next, WriterStep, Shell, GetInput, Dispatch, Write, Close,
         DisplayPrompt, ReadEof, ReadFails, ReadCommand, ReadTooLong, FillStdio,
         SkipByte, SkipEnds, DispatchNothing, DispatchExit, DispatchAssignment,
         DispatchCommand, FreeTokens, Sigint, vars
<1> QED
  BY <1>1, <1>2, PTL DEF Spec

-----------------------------------------------------------------------------
(***************************************************************************)
(* What get_input throws away, and that MyshInput implements LineShell,    *)
(* with a writer that writes lines.                                        *)
(***************************************************************************)

(* Lines do not overlap.                                                   *)

(* The line of byte i begins where the last line before i ended. *)
LEMMA LineOfByte ==
  ASSUME NEW t \in Seq(Bytes), NEW s \in Nat, NEW i \in s+1 .. Len(t),
         LineStart(t, s), OneLineAtMost(t, s, i),
         NEW l \in LinesOf(t), i \in l[1]+1 .. l[2]
  PROVE  l[1] = s
<1>1. Len(t) \in Nat /\ l[1] \in 0..Len(t) /\ l[2] \in 0..Len(t)
  BY DEF LinesOf
<1>2. LineStart(t, l[1]) /\ \A j \in l[1]+1 .. l[2]-1 : t[j] # Newline
  BY DEF LinesOf, IsLine, OneLineAtMost
<1>3. ~(l[1] < s)
  BY <1>1, <1>2 DEF LineStart
<1>4. ~(s < l[1])
  BY <1>1, <1>2 DEF LineStart, OneLineAtMost
<1> QED
  BY <1>1, <1>3, <1>4

(* If s+1..e holds no newline but at its end, no line ends in it before e. *)
LEMMA NextLine ==
  ASSUME NEW t \in Seq(Bytes), NEW s \in Nat, NEW e \in s+1 .. Len(t),
         LineStart(t, s), OneLineAtMost(t, s, e),
         NEW l \in LinesOf(t), s < l[2], l[2] <= e
  PROVE  l = <<s, e>>
<1>1. /\ Len(t) \in Nat /\ l[1] \in 0..Len(t) /\ l[2] \in 0..Len(t) /\ l[1] < l[2]
      /\ l = <<l[1], l[2]>>
  BY DEF LinesOf, IsLine
<1>2. l[2] \in s+1 .. Len(t) /\ l[2] \in l[1]+1 .. l[2] /\ OneLineAtMost(t, s, l[2])
  BY <1>1 DEF OneLineAtMost
<1>3. l[1] = s
  BY <1>2, LineOfByte
<1>4. ~(l[2] < e)
  <2>1. LineEnd(t, l[2])
    BY DEF LinesOf, IsLine
  <2> QED
    BY <1>1, <1>2, <2>1 DEF LineEnd, OneLineAtMost
<1> QED
  BY <1>1, <1>3, <1>4

(* There is one line to a beginning. *)
LEMMA OneFromStart ==
  ASSUME NEW t \in Seq(Bytes), NEW l \in LinesOf(t), NEW m \in LinesOf(t), l[1] = m[1]
  PROVE  l = m
<1>1. /\ Len(t) \in Nat /\ l = <<l[1], l[2]>> /\ m = <<m[1], m[2]>>
      /\ l[1] \in Nat /\ l[2] \in l[1]+1 .. Len(t) /\ m[2] \in l[1]+1 .. Len(t)
      /\ IsLine(t, l[1], l[2]) /\ IsLine(t, m[1], m[2])
  BY DEF LinesOf, IsLine
<1>2. CASE l[2] <= m[2]
  BY <1>1, <1>2, NextLine DEF IsLine
<1>3. CASE m[2] <= l[2]
  BY <1>1, <1>3, NextLine DEF IsLine
<1> QED
  BY <1>1, <1>2, <1>3

(* A line that begins before another one ends before it. *)
LEMMA EndsBefore ==
  ASSUME NEW t \in Seq(Bytes), NEW s \in Nat, LineStart(t, s),
         NEW l \in LinesOf(t), l[1] < s
  PROVE  l[2] <= s
<1>1. /\ Len(t) \in Nat /\ l[1] \in 0..Len(t) /\ l[2] \in 0..Len(t)
      /\ \A j \in l[1]+1 .. l[2]-1 : t[j] # Newline
  BY DEF LinesOf, IsLine, OneLineAtMost
<1> QED
  BY <1>1 DEF LineStart

(* A line is at least as long as what of it is known. *)
LEMMA LongLine ==
  ASSUME NEW t \in Seq(Bytes), NEW s \in Nat, NEW e \in s+1 .. Len(t),
         NEW l \in LinesOf(t), l[1] = s, e <= l[2]
  PROVE  /\ TextLen(t, s, e) \in Nat
         /\ TextLen(t, l[1], l[2]) \in Nat
         /\ TextLen(t, l[1], l[2]) >= TextLen(t, s, e)
<1>1. l[2] \in 0..Len(t)
  BY DEF LinesOf
<1>2. l[2] \in Nat /\ Len(t) \in Nat /\ e \in Nat /\ s < e /\ (l[2] = e \/ e < l[2])
  BY <1>1
<1>3. TextLen(t, s, e) = e - s - 1 \/ TextLen(t, s, e) = e - s
  BY DEF TextLen
<1>4. TextLen(t, s, l[2]) = l[2] - s - 1 \/ (TextLen(t, s, l[2]) = l[2] - s /\ t[l[2]] # Newline)
  BY DEF TextLen
<1>5. l[2] = e => TextLen(t, s, l[2]) = TextLen(t, s, e)
  OBVIOUS
<1> QED
  BY <1>2, <1>3, <1>4, <1>5

-----------------------------------------------------------------------------
(* What is thrown away.                                                    *)

(* Lines ahead of n have been run or thrown away. *)
Answered(n) ==
  \A l \in LinesOf(input) : l[2] <= n => l \in commands \/ BytesOf(l) \subseteq discarded

(* A line at the limit ends at n. *)
LimitAt(n) == \E k \in LinesOf(input) : k[2] = n /\ ExactLine(k[1], k[2])

(* The bytes thrown away so far reach to here. *)
Upto == IF slo < shi THEN slo ELSE rpos

(* The drain loop throws away the line that begins at s: one that is too   *)
(* long, or the one behind a line at the limit.                            *)
Skips(s) ==
  /\ LineStart(input, s)
  /\ s <= Upto
  /\ OneLineAtMost(input, s, Upto + 1)
  /\ s+1 .. Upto \subseteq discarded
  /\ Answered(s)
  /\ Upto - s > MAX_STR_LEN \/ LimitAt(s)

(* A line that may be thrown away. *)
MayLose(l) ==
  TextLen(input, l[1], l[2]) > MAX_STR_LEN \/ ExactLine(l[1], l[2]) \/ LimitAt(l[1])

Lost == \A i \in discarded : \A l \in LinesOf(input) : i \in BytesOf(l) => MayLose(l)

SkipInv ==
  Writer # "pipe" /\ errors = 0 =>
    /\ Lost
    /\ pc \in {"prompt", "read", "free"} => Answered(rpos)
    /\ pc = "dispatch" => Answered(lo) /\ rpos - lo <= MAX_STR_LEN
    /\ pc = "drain" => \E s \in 0 .. Len(input) : Skips(s)

(* The steps that throw nothing away and run nothing. *)
LEMMA SkipStill ==
  ASSUME SkipInv, UNCHANGED <<input, rpos, slo, shi, commands, discarded, lo>>,
         errors' = 0 => errors = 0,
         pc' = pc \/ pc' \in Stopped \/
           (pc \in {"prompt", "read", "free"} /\ pc' \in {"prompt", "read", "free"})
  PROVE  SkipInv'
BY DEF SkipInv, Lost, MayLose, LimitAt, ExactLine, Answered, Skips, Upto, BytesOf, Stopped

(* Running the line in input_buf. *)
LEMMA SkipHandled ==
  ASSUME TypeOK, LineInv, SkipInv, pc = "dispatch", Handled, pc' \in {"prompt", "free", "done"},
         UNCHANGED <<input, rpos, slo, shi, discarded, lo, errors>>
  PROVE  SkipInv'
<1> SUFFICES ASSUME Writer # "pipe", errors = 0 PROVE SkipInv'
  BY DEF SkipInv
<1>1. /\ Len(input) \in Nat /\ input \in Seq(Bytes) /\ lo \in Nat /\ rpos \in 0 .. Len(input)
  BY InputType DEF TypeOK
<1>2. IsLine(input, lo, rpos)
  BY DEF LineInv
<1>3. ASSUME NEW l \in LinesOf(input), l[2] <= rpos
      PROVE  l \in commands' \/ BytesOf(l) \subseteq discarded
  <2>1. l[2] \in 0 .. Len(input)
    BY DEF LinesOf
  <2>2. CASE l[2] <= lo
    BY <2>2, <1>3 DEF SkipInv, Answered, Handled
  <2>3. CASE lo < l[2]
    BY <1>1, <1>2, <1>3, <2>3, NextLine DEF IsLine, Handled
  <2> QED
    BY <1>1, <2>1, <2>2, <2>3
<1>4. Answered(rpos)'
  BY <1>3 DEF Answered, BytesOf
<1>5. Lost'
  BY DEF SkipInv, Lost, MayLose, LimitAt, ExactLine, BytesOf
<1> QED
  BY <1>4, <1>5 DEF SkipInv

(* A line read at the limit, or the beginning of one that is too long. *)
LEMMA SkipBegins ==
  ASSUME TypeOK, LineInv, SkipInv, ReadTooLong, Writer # "pipe", errors = 0
  PROVE  Lost' /\ \E s \in 0 .. Len(input) : Skips(s)'
<1>1. /\ Len(input) \in Nat /\ input \in Seq(Bytes) /\ rpos \in Nat /\ written \in Nat
      /\ written <= Len(input) /\ slo \in Nat /\ shi \in Nat /\ MAX_STR_LEN \in Nat
  BY InputType, InputAssumption DEF TypeOK
<1>2. PICK n \in rpos+1 .. written :
        /\ Takes(MAX_STR_LEN + 1, n) /\ n - rpos > MAX_STR_LEN
        /\ rpos' = n /\ discarded' = discarded \cup (rpos+1 .. n)
  BY DEF ReadTooLong
<1>3. n = rpos + MAX_STR_LEN + 1 /\ n \in rpos+1 .. Len(input) /\ n \in Nat
  BY <1>1, <1>2 DEF Takes
<1>4. slo = shi /\ slo' = slo /\ shi' = shi /\ input' = input /\ commands' = commands /\ Upto' = n
  BY <1>1, <1>2 DEF ReadTooLong, LineInv, stdin, stdio, Upto
<1>5. LineStart(input, rpos)
  BY <1>1, <1>3 DEF ReadTooLong, LineInv, Boundary
<1>6. OneLineAtMost(input, rpos, n)
  BY <1>1, <1>2, InputAssumption DEF Takes, LineInv, OneLineAtMost
<1>7. Answered(rpos) /\ Lost
  BY DEF ReadTooLong, SkipInv
<1>8. CASE input[n] = Newline
  <2> DEFINE k == <<rpos, n>>
  <2>1. IsLine(input, rpos, n) /\ ExactLine(rpos, n)
    BY <1>1, <1>3, <1>5, <1>6, <1>8 DEF IsLine, LineEnd, ExactLine
  <2>2. k \in LinesOf(input)
    BY <1>1, <1>3, <2>1 DEF LinesOf
  <2>3. LimitAt(n) /\ MayLose(k)
    BY <2>1, <2>2 DEF LimitAt, MayLose
  <2>4. ASSUME NEW l \in LinesOf(input), l[2] <= n
        PROVE  l \in commands \/ BytesOf(l) \subseteq discarded'
    <3>1. CASE l[2] <= rpos
      BY <1>2, <1>7, <3>1 DEF Answered
    <3>2. CASE rpos < l[2]
      <4>1. l = k
        BY <1>1, <1>3, <1>5, <1>6, <2>4, <3>2, NextLine
      <4> QED
        BY <1>2, <4>1 DEF BytesOf
    <3>3. l[2] \in 0 .. Len(input)
      BY DEF LinesOf
    <3> QED
      BY <1>1, <3>1, <3>2, <3>3
  <2>5. Answered(n)'
    BY <1>4, <2>4 DEF Answered, BytesOf
  <2>6. LimitAt(n)'
    BY <1>4, <2>3 DEF LimitAt, ExactLine
  <2>7. LineStart(input, n)
    BY <1>1, <1>3, <1>8 DEF LineStart
  <2>8. Skips(n)'
    BY <1>1, <1>3, <1>4, <2>5, <2>6, <2>7 DEF Skips, OneLineAtMost
  <2>9. ASSUME NEW i \in rpos+1 .. n, NEW l \in LinesOf(input), i \in BytesOf(l)
        PROVE  MayLose(l)
    <3>1. l[1] = rpos
      <4>1. OneLineAtMost(input, rpos, i) /\ i \in rpos+1 .. Len(input)
        BY <1>1, <1>3, <1>6, <2>9 DEF OneLineAtMost
      <4> QED
        BY <1>1, <1>5, <2>9, <4>1, LineOfByte DEF BytesOf
    <3>2. l = k
      BY <1>1, <2>2, <3>1, OneFromStart
    <3> QED
      BY <2>3, <3>2
  <2>10. Lost'
    BY <1>2, <1>4, <1>7, <2>9 DEF Lost, MayLose, LimitAt, ExactLine, BytesOf
  <2> QED
    BY <1>1, <1>3, <2>8, <2>10
<1>9. CASE input[n] # Newline
  <2>0. PICK s \in 0 .. Len(input) : s = rpos
    BY <1>1, <1>3
  <2>1. Skips(s)'
    <3>1. Answered(s)'
      BY <1>2, <1>4, <1>7, <2>0 DEF Answered, BytesOf
    <3>2. OneLineAtMost(input, s, n + 1)
      BY <1>1, <1>3, <1>6, <1>9, <2>0 DEF OneLineAtMost
    <3>3. LineStart(input', s) /\ s <= n /\ s+1 .. n \subseteq discarded' /\ n - s > MAX_STR_LEN
      BY <1>1, <1>2, <1>3, <1>4, <1>5, <2>0
    <3> QED
      BY <1>4, <3>1, <3>2, <3>3 DEF Skips
  <2>2. ASSUME NEW i \in rpos+1 .. n, NEW l \in LinesOf(input), i \in BytesOf(l)
        PROVE  MayLose(l)
    <3>1. l[1] = rpos
      <4>1. OneLineAtMost(input, rpos, i) /\ i \in rpos+1 .. Len(input)
        BY <1>1, <1>3, <1>6, <2>2 DEF OneLineAtMost
      <4> QED
        BY <1>1, <1>5, <2>2, <4>1, LineOfByte DEF BytesOf
    <3>2. l[2] \in Nat /\ n <= l[2]
      <4>1. l[2] \in 0 .. Len(input) /\ rpos < l[2]
        BY <1>1, <3>1 DEF LinesOf, IsLine
      <4>2. LineEnd(input, l[2])
        BY DEF LinesOf, IsLine
      <4> QED
        BY <1>1, <1>3, <1>6, <1>9, <4>1, <4>2 DEF LineEnd, OneLineAtMost
    <3>3. TextLen(input, rpos, n) > MAX_STR_LEN
      BY <1>1, <1>3, <1>9 DEF TextLen
    <3>4. /\ TextLen(input, rpos, n) \in Nat /\ TextLen(input, l[1], l[2]) \in Nat
          /\ TextLen(input, l[1], l[2]) >= TextLen(input, rpos, n)
      BY <1>1, <1>3, <3>1, <3>2, LongLine
    <3> QED
      BY <1>1, <3>3, <3>4 DEF MayLose
  <2>3. Lost'
    BY <1>2, <1>4, <1>7, <2>2 DEF Lost, MayLose, LimitAt, ExactLine, BytesOf
  <2> QED
    BY <1>1, <1>3, <2>0, <2>1, <2>3
<1> QED
  BY <1>8, <1>9

(* What the drain loop does with the next byte of stdio's buffer.          *)
LEMMA SkipsOn ==
  ASSUME TypeOK, LineInv, SkipByte, Writer # "pipe", errors = 0, Lost,
         NEW s \in 0 .. Len(input), Skips(s)
  PROVE  /\ Lost'
         /\ pc' = "prompt" => Answered(rpos)'
         /\ pc' = "drain" => Skips(s)'
<1>1. /\ Len(input) \in Nat /\ input \in Seq(Bytes) /\ rpos \in Nat /\ slo \in Nat /\ shi \in Nat
      /\ rpos <= Len(input) /\ slo < shi /\ shi = rpos /\ MAX_STR_LEN \in Nat
      /\ OneLineAtMost(input, slo, shi)
  BY InputType, InputAssumption DEF TypeOK, SkipByte, LineInv
<1>2. PICK i \in 1 .. Len(input) : i = slo + 1
  BY <1>1
<1>3. /\ discarded' = discarded \cup {i} /\ slo' = i
      /\ pc' = IF input[i] = Newline THEN "prompt" ELSE "drain"
      /\ UNCHANGED <<input, rpos, shi, commands>>
  BY <1>2 DEF SkipByte, stdin
<1>4. /\ LineStart(input, s) /\ s <= slo /\ OneLineAtMost(input, s, i)
      /\ s+1 .. slo \subseteq discarded /\ Answered(s)
      /\ slo - s > MAX_STR_LEN \/ LimitAt(s)
  BY <1>1, <1>2 DEF Skips, Upto
<1>5. i \in s+1 .. Len(input) /\ s \in Nat
  BY <1>1, <1>2, <1>4
<1>6. ASSUME NEW l \in LinesOf(input), i \in BytesOf(l)
      PROVE  MayLose(l)
  <2>1. l[1] = s
    BY <1>1, <1>4, <1>5, <1>6, LineOfByte DEF BytesOf
  <2>2. l[2] \in Nat /\ i <= l[2]
    BY <1>1, <1>6 DEF BytesOf, LinesOf
  <2>3. CASE slo - s > MAX_STR_LEN
    <3>1. TextLen(input, s, i) > MAX_STR_LEN
      BY <1>1, <1>2, <1>5, <2>3 DEF TextLen
    <3>2. /\ TextLen(input, s, i) \in Nat /\ TextLen(input, l[1], l[2]) \in Nat
          /\ TextLen(input, l[1], l[2]) >= TextLen(input, s, i)
      BY <1>1, <1>5, <2>1, <2>2, LongLine
    <3> QED
      BY <1>1, <3>1, <3>2 DEF MayLose
  <2>4. CASE LimitAt(s)
    BY <2>1, <2>4 DEF MayLose
  <2> QED
    BY <1>4, <2>3, <2>4
<1>7. Lost'
  BY <1>3, <1>6 DEF Lost, MayLose, LimitAt, ExactLine, BytesOf
<1>8. ASSUME input[i] = Newline PROVE Answered(rpos)'
  <2>1. i = rpos
    BY <1>1, <1>2, <1>8 DEF OneLineAtMost
  <2>2. ASSUME NEW l \in LinesOf(input), l[2] <= rpos
        PROVE  l \in commands \/ BytesOf(l) \subseteq discarded'
    <3>1. CASE l[2] <= s
      BY <1>3, <1>4, <3>1 DEF Answered
    <3>2. CASE s < l[2]
      <4>1. l = <<s, i>>
        BY <1>1, <1>4, <1>5, <2>1, <2>2, <3>2, NextLine
      <4> QED
        BY <1>1, <1>2, <1>3, <1>4, <4>1 DEF BytesOf
    <3>3. l[2] \in 0 .. Len(input)
      BY DEF LinesOf
    <3> QED
      BY <1>1, <3>1, <3>2, <3>3
  <2> QED
    BY <1>3, <2>2 DEF Answered, BytesOf
<1>9. ASSUME input[i] # Newline PROVE Skips(s)'
  <2>1. Upto' = i
    BY <1>1, <1>2, <1>3 DEF Upto
  <2>2. Answered(s)' /\ (LimitAt(s) => LimitAt(s)')
    BY <1>3, <1>4 DEF Answered, BytesOf, LimitAt, ExactLine
  <2>3. /\ s <= i /\ OneLineAtMost(input, s, i + 1)
        /\ s+1 .. i \subseteq discarded'
        /\ slo - s > MAX_STR_LEN => i - s > MAX_STR_LEN
    BY <1>1, <1>2, <1>3, <1>4, <1>9 DEF OneLineAtMost
  <2> QED
    BY <1>3, <1>4, <2>1, <2>2, <2>3 DEF Skips
<1> QED
  BY <1>3, <1>7, <1>8, <1>9

(* At the end of the input a last line without its newline is thrown away. *)
LEMMA SkipsToEnd ==
  ASSUME TypeOK, LineInv, Writer # "pipe", errors = 0, pc = "drain", slo = shi, AtEof,
         NEW s \in 0 .. Len(input), Skips(s)
  PROVE  Answered(rpos)
<1>1. /\ Len(input) \in Nat /\ input \in Seq(Bytes) /\ rpos = Len(input) /\ slo \in Nat
      /\ Upto = rpos
  BY InputType DEF TypeOK, LineInv, AtEof, Upto
<1>2. ASSUME NEW l \in LinesOf(input), s < l[2]
      PROVE  BytesOf(l) \subseteq discarded
  <2>1. l[2] \in s+1 .. Len(input) /\ l[2] \in Nat /\ l[2] \in l[1]+1 .. l[2]
    BY <1>1, <1>2 DEF LinesOf, IsLine
  <2>2. LineStart(input, s) /\ OneLineAtMost(input, s, l[2])
    BY <1>1, <2>1 DEF Skips, OneLineAtMost
  <2>3. l[1] = s
    BY <1>1, <2>1, <2>2, LineOfByte
  <2> QED
    BY <1>1, <2>1, <2>3 DEF Skips, BytesOf
<1>3. \A l \in LinesOf(input) : l[2] \in 0 .. Len(input)
  BY DEF LinesOf
<1> QED
  BY <1>1, <1>2, <1>3 DEF Skips, Answered

LEMMA SkipStep == TypeOK /\ LineInv /\ SkipInv /\ [Next]_vars => SkipInv'
<1> SUFFICES ASSUME TypeOK, LineInv, SkipInv, [Next]_vars PROVE SkipInv'
  OBVIOUS
<1>0. errors \in Nat /\ MaxReadErrors \in Nat
  BY InputAssumption DEF TypeOK
<1>1. CASE Write
  BY <1>1, SkipStill DEF Write, stdio
<1>2. CASE Close
  BY <1>2, SkipStill DEF Close, stdio
<1>3. CASE DisplayPrompt
  BY <1>3, SkipStill DEF DisplayPrompt, stdin, stdio
<1>4. CASE ReadEof
  BY <1>4, SkipStill DEF ReadEof, stdin, stdio, Stopped
<1>5. CASE ReadFails
  BY <1>0, <1>5 DEF ReadFails, SkipInv
<1>6. CASE ReadCommand
  <2>1. PICK n \in rpos+1 .. written : n - rpos <= MAX_STR_LEN /\ rpos' = n
    <3>1. \A n \in rpos+1 .. written : ~(n - rpos > MAX_STR_LEN) => n - rpos <= MAX_STR_LEN
      BY InputType, InputAssumption DEF TypeOK
    <3> QED
      BY <1>6, <3>1 DEF ReadCommand
  <2>2. pc = "read" /\ pc' = "dispatch" /\ lo' = rpos /\ UNCHANGED <<input, commands, discarded, errors>>
    BY <1>6 DEF ReadCommand, stdin
  <2> QED
    BY <2>1, <2>2 DEF SkipInv, Lost, MayLose, LimitAt, ExactLine, Answered, BytesOf
<1>7. CASE ReadTooLong
  <2>1. pc' = "drain" /\ errors' = errors /\ input' = input
    BY <1>7 DEF ReadTooLong, stdin
  <2> QED
    BY <1>7, <2>1, SkipBegins DEF SkipInv
<1>8. CASE FillStdio
  <2> SUFFICES ASSUME Writer # "pipe", errors = 0 PROVE SkipInv'
    BY <1>8 DEF FillStdio, SkipInv
  <2>1. /\ pc = "drain" /\ pc' = pc /\ UNCHANGED <<input, commands, discarded, errors>>
        /\ Upto' = Upto
    <3>1. PICK n \in rpos+1 .. written : slo' = rpos /\ shi' = n /\ rpos' = n
      BY <1>8 DEF FillStdio
    <3> QED
      BY <1>8, <3>1, InputType DEF FillStdio, stdin, Upto, TypeOK
  <2> QED
    BY <2>1 DEF SkipInv, Lost, MayLose, LimitAt, ExactLine, Answered, Skips, BytesOf
<1>9. CASE SkipByte
  <2> SUFFICES ASSUME Writer # "pipe", errors = 0 PROVE SkipInv'
    BY <1>9 DEF SkipByte, SkipInv
  <2>1. PICK s \in 0 .. Len(input) : Skips(s)
    BY <1>9 DEF SkipByte, SkipInv
  <2>2. Lost
    BY DEF SkipInv
  <2>3. pc' \in {"prompt", "drain"} /\ input' = input
    BY <1>9 DEF SkipByte, stdin
  <2>4. /\ Lost'
        /\ pc' = "prompt" => Answered(rpos)'
        /\ pc' = "drain" => Skips(s)'
    BY <1>9, <2>1, <2>2, SkipsOn
  <2> QED
    BY <2>3, <2>4 DEF SkipInv
<1>10. CASE SkipEnds
  <2> SUFFICES ASSUME Writer # "pipe", errors = 0, errors' = 0 PROVE SkipInv'
    BY <1>0, <1>10 DEF SkipEnds, SkipInv
  <2>1. AtEof /\ pc = "drain" /\ slo = shi
    BY <1>0, <1>10 DEF SkipEnds
  <2>2. PICK s \in 0 .. Len(input) : Skips(s)
    BY <2>1 DEF SkipInv
  <2>3. Answered(rpos)
    BY <2>1, <2>2, SkipsToEnd
  <2>4. pc' = "prompt" /\ UNCHANGED <<input, rpos, commands, discarded>>
    BY <1>10 DEF SkipEnds, stdin
  <2> QED
    BY <2>3, <2>4 DEF SkipInv, Lost, MayLose, LimitAt, ExactLine, Answered, BytesOf
<1>11. CASE DispatchNothing
  BY <1>11, SkipHandled DEF DispatchNothing, stdin, stdio
<1>12. CASE DispatchExit
  BY <1>12, SkipHandled DEF DispatchExit, stdin, stdio
<1>13. CASE DispatchAssignment
  BY <1>13, SkipHandled DEF DispatchAssignment, stdin, stdio
<1>14. CASE DispatchCommand
  BY <1>14, SkipHandled DEF DispatchCommand, stdin, stdio
<1>15. CASE FreeTokens
  BY <1>15, SkipStill DEF FreeTokens, stdin, stdio, Stopped
<1>16. CASE Sigint
  BY <1>16, SkipStill DEF Sigint, stdin, stdio, Stopped
<1>17. CASE UNCHANGED vars
  BY <1>17, SkipStill DEF vars
<1> QED
  BY <1>1, <1>2, <1>3, <1>4, <1>5, <1>6, <1>7, <1>8, <1>9, <1>10, <1>11,
     <1>12, <1>13, <1>14, <1>15, <1>16, <1>17
     DEF Next, WriterStep, Shell, GetInput, Dispatch

(* Wherever the shell is, whole lines lie behind it, and the drain loop    *)
(* stands in a line that it may throw away.                                *)
THEOREM SkipInvHolds == Spec => [](TypeOK /\ Accounting /\ LineInv /\ SkipInv)
<1>1. Init => LineInv
  BY DEF Init, LineInv, Boundary, LineStart, OneLineAtMost
<1>2. Init => SkipInv
  <2> SUFFICES ASSUME Init PROVE SkipInv
    OBVIOUS
  <2>1. \A l \in LinesOf(input) : ~(l[2] <= 0)
    <3>1. input \in Seq(Bytes) /\ Len(input) \in Nat
      BY InputAssumption DEF Init
    <3> QED
      BY <3>1 DEF LinesOf, IsLine
  <2> QED
    BY <2>1 DEF Init, SkipInv, Lost, Answered
<1> QED
  BY <1>1, <1>2, LineStep, SkipStep, TypeCorrect, AccountingHolds, PTL DEF Spec

(***************************************************************************)
(* A line that is not too long is thrown away only at or behind a line of  *)
(* exactly MAX_STR_LEN characters, for every limit and every buffer size.  *)
(***************************************************************************)
THEOREM LostOnlyAtLimit == Spec => []ShortLineLostOnlyAtLimit
<1>1. TypeOK /\ SkipInv => ShortLineLostOnlyAtLimit
  <2> SUFFICES ASSUME TypeOK, SkipInv, Writer # "pipe", errors = 0,
                      NEW l \in LinesOf(input), TextLen(input, l[1], l[2]) <= MAX_STR_LEN,
                      BytesOf(l) \cap discarded # {}
               PROVE  ExactLine(l[1], l[2]) \/ LimitAt(l[1])
    BY DEF ShortLineLostOnlyAtLimit, LimitAt
  <2>1. MayLose(l)
    BY DEF SkipInv, Lost
  <2>2. TextLen(input, l[1], l[2]) \in Nat /\ MAX_STR_LEN \in Nat
    BY InputType, InputAssumption DEF LinesOf, IsLine, TextLen
  <2> QED
    BY <2>1, <2>2 DEF MayLose
<1> QED
  BY <1>1, SkipInvHolds, PTL

-----------------------------------------------------------------------------
(* The promise of LineShell.                                               *)

Rejected == {l \in LinesOf(input) : BytesOf(l) \subseteq discarded}

State == CASE pc = "done" -> "ended"
           [] pc \in {"aborted", "killed"} -> "crashed"
           [] OTHER -> "running"

(* A step of the promise, in terms of this module. *)
PromiseRun(l) ==
  /\ l \in LinesOf(input) \ (commands \cup Rejected)
  /\ \A k \in LinesOf(input) : k[1] < l[1] => k \in commands \cup Rejected
  /\ ~(TextLen(input, l[1], l[2]) > MAX_STR_LEN)
  /\ commands' = commands \cup {l} /\ State' \in {"running", "ended"} /\ Rejected' = Rejected

PromiseReject(l) ==
  /\ l \in LinesOf(input) \ (commands \cup Rejected)
  /\ \A k \in LinesOf(input) : k[1] < l[1] => k \in commands \cup Rejected
  /\ TextLen(input, l[1], l[2]) > MAX_STR_LEN
  /\ Rejected' = Rejected \cup {l} /\ State' = "running" /\ commands' = commands

PromiseKeeps ==
  \/ State = "running" /\ \E l \in LinesOf(input) : PromiseRun(l) \/ PromiseReject(l)
  \/ /\ State = "running" /\ commands' = commands /\ Rejected' = Rejected
     /\ \/ LinesOf(input) \subseteq commands \cup Rejected /\ State' = "ended"
        \/ State' = "crashed"
  \/ commands' = commands /\ Rejected' = Rejected /\ State' = State

LEMMA PromiseIs ==
  ASSUME input' = input, PromiseKeeps
  PROVE  [Promise!Next]_(Promise!vars)
BY DEF PromiseKeeps, PromiseRun, PromiseReject, Promise!Next, Promise!vars, Promise!Run, Promise!Reject,
       Promise!EndOfInput, Promise!Crash, Promise!Due, Promise!Lines, Promise!Answered,
       Promise!TooLong, State, Rejected, Promise!LinesOf, LinesOf, Promise!IsLine, IsLine,
       Promise!TextLen, TextLen, Promise!LineStart, LineStart, Promise!LineEnd, LineEnd,
       Promise!OneLineAtMost, OneLineAtMost, Promise!Newline, Newline

(* Throwing away more of a line that is too long rejects it or does nothing.*)
LEMMA Rejects ==
  ASSUME TypeOK, NEW s \in Nat, NEW e \in s+1 .. Len(input), LineStart(input, s),
         OneLineAtMost(input, s, e), Answered(s), TextLen(input, s, e) > MAX_STR_LEN,
         NEW D, D \subseteq s+1 .. e, D \cap Executed = {}, discarded' = discarded \cup D,
         UNCHANGED <<input, commands>>, State = "running", State' = "running"
  PROVE  PromiseKeeps
<1>0. input \in Seq(Bytes) /\ Len(input) \in Nat /\ MAX_STR_LEN \in Nat
  BY InputType, InputAssumption
<1>1. ASSUME NEW l \in LinesOf(input), NEW i \in D, i \in BytesOf(l)
      PROVE  l[1] = s /\ e <= l[2]
  <2>1. i \in s+1 .. Len(input) /\ OneLineAtMost(input, s, i)
    BY <1>0 DEF OneLineAtMost
  <2>2. l[1] = s
    BY <1>0, <1>1, <2>1, LineOfByte DEF BytesOf
  <2>3. l[2] \in 0 .. Len(input) /\ s < l[2] /\ LineEnd(input, l[2])
    BY <1>0, <2>2 DEF LinesOf, IsLine
  <2>4. ~(l[2] < e)
    BY <1>0, <2>3 DEF LineEnd, OneLineAtMost
  <2> QED
    BY <1>0, <2>2, <2>3, <2>4
<1>2. \A l \in Rejected : l \in Rejected'
  BY DEF Rejected, BytesOf
<1>3. \A l \in Rejected' \ Rejected : l \in LinesOf(input) /\ \E i \in D : i \in BytesOf(l)
  BY DEF Rejected, BytesOf
<1>4. CASE Rejected' = Rejected
  BY <1>4 DEF PromiseKeeps
<1>5. CASE Rejected' # Rejected
  <2>1. PICK l \in Rejected' \ Rejected : TRUE
    BY <1>2, <1>5
  <2>2. PICK i \in D : i \in BytesOf(l)
    BY <1>3, <2>1
  <2>3. l \in LinesOf(input) /\ l[1] = s /\ e <= l[2]
    BY <1>1, <1>3, <2>1, <2>2
  <2>4. Rejected' = Rejected \cup {l}
    <3>1. ASSUME NEW m \in Rejected' \ Rejected PROVE m = l
      <4>1. m \in LinesOf(input) /\ m[1] = s
        BY <1>1, <1>3, <3>1
      <4> QED
        BY <1>0, <2>3, <4>1, OneFromStart
    <3> QED
      BY <1>2, <2>1, <3>1
  <2>5. l \notin commands
    BY <2>2 DEF Executed
  <2>6. ASSUME NEW k \in LinesOf(input), k[1] < l[1] PROVE k \in commands \cup Rejected
    <3>1. k[2] <= s
      BY <1>0, <2>3, <2>6, EndsBefore
    <3> QED
      BY <3>1 DEF Answered, Rejected
  <2>7. TextLen(input, l[1], l[2]) > MAX_STR_LEN
    <3>1. /\ TextLen(input, s, e) \in Nat /\ TextLen(input, l[1], l[2]) \in Nat
          /\ TextLen(input, l[1], l[2]) >= TextLen(input, s, e)
      BY <1>0, <2>3, LongLine
    <3> QED
      BY <1>0, <3>1
  <2>8. PromiseReject(l)
    BY <2>1, <2>3, <2>4, <2>5, <2>6, <2>7 DEF PromiseReject
  <2> QED
    BY <2>3, <2>8 DEF PromiseKeeps
<1> QED
  BY <1>4, <1>5

(* Running the line in input_buf. *)
LEMMA RunsLine ==
  ASSUME TypeOK, Accounting, LineInv, SkipInv, Writer # "pipe", errors = 0,
         pc = "dispatch", Handled, pc' \in {"prompt", "free", "done"}, UNCHANGED <<input, discarded>>
  PROVE  PromiseKeeps
<1> DEFINE l == <<lo, rpos>>
<1>1. /\ Len(input) \in Nat /\ input \in Seq(Bytes) /\ lo \in Nat /\ rpos \in 0 .. Len(input)
      /\ MAX_STR_LEN \in Nat
  BY InputType, InputAssumption DEF TypeOK
<1>2. IsLine(input, lo, rpos) /\ Answered(lo) /\ rpos - lo <= MAX_STR_LEN
  BY DEF LineInv, SkipInv
<1>3. lo < rpos /\ LineStart(input, lo)
  BY <1>2 DEF IsLine
<1>4. l \in LinesOf(input)
  BY <1>1, <1>2, <1>3 DEF LinesOf
<1>5. rpos \in BytesOf(l) /\ rpos \notin Executed /\ rpos \notin discarded
  BY <1>1, <1>3 DEF BytesOf, Accounting, InBuffer
<1>6. l \notin commands /\ l \notin Rejected
  BY <1>5 DEF Executed, Rejected
<1>7. ASSUME NEW k \in LinesOf(input), k[1] < l[1] PROVE k \in commands \cup Rejected
  <2>1. k[2] <= lo
    BY <1>1, <1>3, <1>7, EndsBefore
  <2> QED
    BY <1>2, <2>1 DEF Answered, Rejected
<1>8. ~(TextLen(input, lo, rpos) > MAX_STR_LEN)
  BY <1>1, <1>2, <1>3 DEF TextLen
<1>9. State = "running" /\ State' \in {"running", "ended"}
  BY DEF State
<1>10. Rejected' = Rejected /\ commands' = commands \cup {l}
  BY DEF Rejected, BytesOf, Handled
<1>11. PromiseRun(l)
  BY <1>4, <1>6, <1>7, <1>8, <1>9, <1>10 DEF PromiseRun
<1> QED
  BY <1>4, <1>9, <1>11 DEF PromiseKeeps

(* The steps of which the promise knows nothing, but for a crash. *)
LEMMA PromiseStill ==
  ASSUME UNCHANGED <<input, commands, discarded>>,
         pc' = pc \/ (pc \in {"prompt", "read", "drain", "dispatch", "free"} /\
                      pc' \in {"prompt", "read", "drain", "dispatch", "free", "aborted", "killed"})
  PROVE  PromiseKeeps
<1>1. commands' = commands /\ Rejected' = Rejected
  BY DEF Rejected, BytesOf
<1>2. State' = State \/ (State = "running" /\ State' = "crashed")
  BY DEF State
<1> QED
  BY <1>1, <1>2 DEF PromiseKeeps

LEMMA PromiseStep ==
  ASSUME TypeOK, Accounting, LineInv, SkipInv, Writer # "pipe", errors = 0, NoLineAtLimit, Next
  PROVE  PromiseKeeps /\ input' = input
<1>0. /\ Len(input) \in Nat /\ input \in Seq(Bytes) /\ rpos \in Nat /\ rpos <= written
      /\ written \in Nat /\ written <= Len(input) /\ MAX_STR_LEN \in Nat
  BY InputType, InputAssumption DEF TypeOK
<1>a. \A n : ~LimitAt(n)
  BY DEF LimitAt, NoLineAtLimit
<1>1. CASE Write
  BY <1>1, PromiseStill DEF Write
<1>2. CASE Close
  BY <1>2, PromiseStill DEF Close
<1>3. CASE DisplayPrompt
  BY <1>3, PromiseStill DEF DisplayPrompt, stdin
<1>4. CASE ReadEof
  <2>1. rpos = Len(input) /\ Answered(rpos)
    BY <1>4 DEF ReadEof, AtEof, LineInv, SkipInv
  <2>2. LinesOf(input) \subseteq commands \cup Rejected
    BY <1>0, <2>1 DEF Answered, Rejected, LinesOf
  <2>3. State = "running" /\ State' = "ended" /\ commands' = commands /\ Rejected' = Rejected
        /\ input' = input
    BY <1>4 DEF ReadEof, State, Rejected, BytesOf, stdin
  <2> QED
    BY <2>2, <2>3 DEF PromiseKeeps
<1>5. CASE ReadFails
  BY <1>5, PromiseStill DEF ReadFails, stdin
<1>6. CASE ReadCommand
  BY <1>6, PromiseStill DEF ReadCommand, stdin
<1>7. CASE ReadTooLong
  <2>1. PICK n \in rpos+1 .. written :
          /\ Takes(MAX_STR_LEN + 1, n) /\ n - rpos > MAX_STR_LEN
          /\ discarded' = discarded \cup (rpos+1 .. n)
    BY <1>7 DEF ReadTooLong
  <2>2. n = rpos + MAX_STR_LEN + 1 /\ n \in rpos+1 .. Len(input)
    BY <1>0, <2>1 DEF Takes
  <2>3. LineStart(input, rpos) /\ Answered(rpos)
    BY <1>0, <1>7, <2>2 DEF ReadTooLong, LineInv, SkipInv, Boundary
  <2>4. OneLineAtMost(input, rpos, n)
    BY <1>0, <2>1, InputAssumption DEF Takes, LineInv, OneLineAtMost
  <2>5. input[n] # Newline
    <3> SUFFICES ASSUME input[n] = Newline PROVE FALSE
      OBVIOUS
    <3>1. IsLine(input, rpos, n) /\ ExactLine(rpos, n)
      BY <1>0, <2>2, <2>3, <2>4 DEF IsLine, LineEnd, ExactLine
    <3>2. <<rpos, n>> \in LinesOf(input)
      BY <1>0, <2>2, <3>1 DEF LinesOf
    <3> QED
      BY <3>1, <3>2 DEF NoLineAtLimit
  <2>6. TextLen(input, rpos, n) > MAX_STR_LEN
    BY <1>0, <2>2, <2>5 DEF TextLen
  <2>7. (rpos+1 .. n) \cap Executed = {}
    <3>1. Executed \subseteq 1 .. rpos
      BY <1>7 DEF ReadTooLong, Accounting
    <3> QED
      BY <1>0, <2>2, <3>1
  <2>8. State = "running" /\ State' = "running" /\ UNCHANGED <<input, commands>>
    BY <1>7 DEF ReadTooLong, State, stdin
  <2>9. PromiseKeeps
    BY <1>0, <2>1, <2>2, <2>3, <2>4, <2>6, <2>7, <2>8, Rejects
  <2> QED
    BY <2>8, <2>9
<1>8. CASE FillStdio
  BY <1>8, PromiseStill DEF FillStdio, stdin
<1>9. CASE SkipByte
  <2>1. PICK s \in 0 .. Len(input) : Skips(s)
    BY <1>9 DEF SkipByte, SkipInv
  <2>2. /\ slo \in Nat /\ shi \in Nat /\ slo < shi /\ shi <= rpos /\ pc = "drain"
        /\ discarded' = discarded \cup {slo + 1}
        /\ UNCHANGED <<input, commands>> /\ pc' \in {"prompt", "drain"}
    BY <1>0, <1>9 DEF SkipByte, TypeOK, stdin
  <2>3. PICK e \in 1 .. Len(input) : e = slo + 1
    BY <1>0, <2>2
  <2>4. /\ LineStart(input, s) /\ s <= slo /\ OneLineAtMost(input, s, e) /\ Answered(s)
        /\ slo - s > MAX_STR_LEN
    BY <1>a, <2>1, <2>2, <2>3 DEF Skips, Upto
  <2>5. s \in Nat /\ e \in s+1 .. Len(input) /\ {e} \subseteq s+1 .. e
    BY <1>0, <2>2, <2>3, <2>4
  <2>6. TextLen(input, s, e) > MAX_STR_LEN
    BY <1>0, <2>2, <2>3, <2>4, <2>5 DEF TextLen
  <2>7. {e} \cap Executed = {}
    BY <1>0, <2>2, <2>3 DEF Accounting, InStdio
  <2>8. State = "running" /\ State' = "running"
    BY <2>2 DEF State
  <2>9. PromiseKeeps
    BY <2>2, <2>3, <2>4, <2>5, <2>6, <2>7, <2>8, Rejects
  <2> QED
    BY <2>2, <2>9
<1>10. CASE SkipEnds
  BY <1>10, PromiseStill DEF SkipEnds, stdin
<1>11. CASE DispatchNothing
  BY <1>11, RunsLine DEF DispatchNothing, stdin
<1>12. CASE DispatchExit
  BY <1>12, RunsLine DEF DispatchExit, stdin
<1>13. CASE DispatchAssignment
  BY <1>13, RunsLine DEF DispatchAssignment, stdin
<1>14. CASE DispatchCommand
  BY <1>14, RunsLine DEF DispatchCommand, stdin
<1>15. CASE FreeTokens
  BY <1>15, PromiseStill DEF FreeTokens, stdin
<1>16. CASE Sigint
  <2>1. pc \in {"prompt", "read", "drain", "dispatch", "free"}
    BY <1>16 DEF Sigint, TypeOK, Places
  <2> QED
    BY <1>16, <2>1, PromiseStill DEF Sigint, stdin
<1> QED
  BY <1>1, <1>2, <1>3, <1>4, <1>5, <1>6, <1>7, <1>8, <1>9, <1>10, <1>11,
     <1>12, <1>13, <1>14, <1>15, <1>16
     DEF Next, WriterStep, Shell, GetInput, Dispatch

(***************************************************************************)
(* With a terminal or a lock-step script at the other end, get_input and   *)
(* the main loop, which read blocks, keep the promise of LineShell, which  *)
(* is told in lines: each is answered once, in order, and the long ones    *)
(* are rejected, in a session without a line at the limit and until read   *)
(* fails.                                                                  *)
(***************************************************************************)
THEOREM LineShellImplemented ==
  ASSUME Writer # "pipe"
  PROVE  Spec => ImplementsLineShell
<1>1. Init => Promise!Init
  <2> SUFFICES ASSUME Init PROVE Promise!Init
    OBVIOUS
  <2>1. ASSUME NEW l \in LinesOf(input) PROVE ~(BytesOf(l) \subseteq discarded)
    <3>1. input \in Seq(Bytes) /\ Len(input) \in Nat
      BY InputAssumption DEF Init
    <3>2. l[2] \in BytesOf(l)
      BY <3>1 DEF LinesOf, IsLine, BytesOf
    <3> QED
      BY <3>2 DEF Init
  <2> QED
    BY <2>1 DEF Init, Promise!Init
<1>2. TypeOK /\ Accounting /\ LineInv /\ SkipInv /\ [Next]_vars
        => [NoLineAtLimit /\ errors = 0 => Promise!Next]_(Promise!vars)
  <2> SUFFICES ASSUME TypeOK, Accounting, LineInv, SkipInv, [Next]_vars, NoLineAtLimit, errors = 0
               PROVE  [Promise!Next]_(Promise!vars)
    OBVIOUS
  <2>1. CASE Next
    BY <2>1, PromiseStep, PromiseIs
  <2>2. CASE UNCHANGED vars
    BY <2>2 DEF vars, Promise!vars, BytesOf
  <2> QED
    BY <2>1, <2>2
<1> QED
  BY <1>1, <1>2, SkipInvHolds, PTL DEF Spec, ImplementsLineShell

=============================================================================
