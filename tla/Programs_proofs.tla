---------------------------- MODULE Programs_proofs ----------------------------
(***************************************************************************)
(* Theorems on the exercises that run to their end, for all inputs, limits *)
(* and interleavings: for each of them an inductive invariant of its own   *)
(* steps, which a run of Programs keeps while that program runs.           *)
(***************************************************************************)
EXTENDS Programs, SeqFacts

-----------------------------------------------------------------------------
(* A run of Programs is a run of one program.                              *)

LEMMA ProgramStays == [ProgramsNext]_program_vars => program' = program
BY DEF ProgramsNext, Runs, WcRuns, WcFails, ForksStep, TimeReadsMain, TimeReadsTimer, TimeReadsStep,
       ValidateStep, ChatClientStep, ListSumStep, Wc, program_vars

LEMMA ReadsRuns ==
  /\ ProgramsInit /\ program = "time_reads" => Reads!Init
  /\ program = "time_reads" /\ [ProgramsNext]_program_vars => [Reads!Next]_(Reads!vars)
<1>1. ProgramsInit /\ program = "time_reads" => Reads!Init
  BY DEF ProgramsInit
<1>2. program = "time_reads" /\ [ProgramsNext]_program_vars => [Reads!Next]_(Reads!vars)
  BY DEF ProgramsNext, Runs, WcRuns, WcFails, ForksStep, TimeReadsMain, TimeReadsTimer, TimeReadsStep,
         ValidateStep, ChatClientStep, ListSumStep, Wc, program_vars, time_vars, Reads!Next, Reads!vars
<1> QED
  BY <1>1, <1>2

-----------------------------------------------------------------------------
(* time_reads.                                                             *)

(***************************************************************************)
(* The count is behind by one exactly from a read to its count, and what   *)
(* was reported is the count at that moment: after it nothing is counted.  *)
(***************************************************************************)
Uncounted == IF place \in {"print", "count"} THEN 1 ELSE 0

CountInv ==
  /\ got \in Int /\ num_reads \in Int
  /\ place \in {"start", "setitimer", "fopen", "failed", "read", "print", "count", "done"}
  /\ place # "done" => reported = Reads!None /\ (whole => got = num_reads + Uncounted)
  /\ place = "done" => num_reads \in Nat /\ reported = num_reads /\ (whole => got \in {num_reads, num_reads + 1})
  /\ num_reads >= 0

LEMMA ReadsStep ==
  /\ Reads!Init => CountInv
  /\ CountInv /\ [Reads!Next]_(Reads!vars) => CountInv'
<1>1. Reads!Init => CountInv
  BY DEF Reads!Init, CountInv, Uncounted, Reads!None
<1>2. CountInv /\ [Reads!Next]_(Reads!vars) => CountInv'
  <2> SUFFICES ASSUME CountInv, [Reads!Next]_(Reads!vars) PROVE CountInv'
    OBVIOUS
  <2> USE DEF CountInv, Uncounted, Reads!Go, Reads!None
  <2>1. CASE Reads!InstallHandler
    BY <2>1 DEF Reads!InstallHandler
  <2>2. CASE Reads!SetTimer
    BY <2>2 DEF Reads!SetTimer
  <2>3. CASE Reads!Opens
    BY <2>3 DEF Reads!Opens, Reads!LoopFrom
  <2>4. CASE Reads!OpenFails
    BY <2>4 DEF Reads!OpenFails
  <2>5. CASE Reads!Read
    BY <2>5 DEF Reads!Read
  <2>6. CASE Reads!PrintVal
    BY <2>6 DEF Reads!PrintVal
  <2>7. CASE Reads!CountRead
    BY <2>7 DEF Reads!CountRead
  <2>8. CASE Reads!HandleSigprof
    BY <2>8 DEF Reads!HandleSigprof
  <2>9. CASE UNCHANGED Reads!vars
    BY <2>9 DEF Reads!vars
  <2> QED
    BY <2>1, <2>2, <2>3, <2>4, <2>5, <2>6, <2>7, <2>8, <2>9 DEF Reads!Next, Reads!Main
<1> QED
  BY <1>1, <1>2

(***************************************************************************)
(* CountWithinOne: however far the loop has come, the handler reports a    *)
(* count, and it is that of the integers read, or one less.                *)
(***************************************************************************)
THEOREM CountWithinOneHolds == ProgramsSpec => []CountWithinOne
<1> DEFINE Inv == program = "time_reads" => CountInv
<1>1. ProgramsInit => Inv
  BY ReadsRuns, ReadsStep
<1>2. Inv /\ [ProgramsNext]_program_vars => Inv'
  BY ProgramStays, ReadsRuns, ReadsStep
<1>3. Inv => CountWithinOne
  BY DEF CountWithinOne, CountInv, Reads!CountWithinOne, Reads!None
<1> QED
  BY <1>1, <1>2, <1>3, PTL DEF ProgramsSpec

-----------------------------------------------------------------------------
(* The chat client.                                                        *)

LEMMA ClientRuns ==
  /\ ProgramsInit /\ program = "chat_client" => ChatUser!Init
  /\ program = "chat_client" /\ [ProgramsNext]_program_vars => [ChatUser!Next]_(ChatUser!vars)
<1>1. ProgramsInit /\ program = "chat_client" => ChatUser!Init
  BY DEF ProgramsInit
<1>2. program = "chat_client" /\ [ProgramsNext]_program_vars => [ChatUser!Next]_(ChatUser!vars)
  BY DEF ProgramsNext, Runs, WcRuns, WcFails, ForksStep, TimeReadsMain, TimeReadsTimer, TimeReadsStep,
         ValidateStep, ChatClientStep, ListSumStep, Wc, program_vars, client_vars, ChatUser!vars
<1> QED
  BY <1>1, <1>2

(* What precedes the newline that ends a line. *)
LEMMA TextOfLine ==
  ASSUME NEW line \in Seq(STRING), line # << >>,
         \A i \in 1 .. Len(line) - 1 : line[i] # "newline"
  PROVE  line[Len(line)] = "newline" =>
           /\ ChatUser!TextOf(line) = SubSeq(line, 1, Len(line) - 1)
           /\ Len(ChatUser!TextOf(line)) = Len(line) - 1
<1> DEFINE stops == {j \in 1 .. Len(line) + 1 : j = Len(line) + 1 \/ line[j] = "newline"}
           stop == CHOOSE j \in stops : \A k \in stops : j <= k
<1>1. Len(line) \in Nat /\ Len(line) > 0
  OBVIOUS
<1>2. ChatUser!TextOf(line) = SubSeq(line, 1, stop - 1)
  BY DEF ChatUser!TextOf, ChatUser!UpToNext
<1>3. ASSUME line[Len(line)] = "newline" PROVE stop = Len(line)
  <2>1. \A j \in stops : Len(line) <= j
    BY <1>1
  <2>2. Len(line) \in stops
    BY <1>1, <1>3
  <2> QED
    BY <1>1, <2>1, <2>2
<1> HIDE DEF stop
<1>4. Len(SubSeq(line, 1, Len(line) - 1)) = Len(line) - 1
  <2> DEFINE n == Len(line) - 1
  <2>1. n \in Nat /\ 1 <= n + 1 /\ n <= Len(line) /\ 1 \in Nat /\ 1 <= 1
    BY <1>1
  <2> HIDE DEF n
  <2>2. Len(SubSeq(line, 1, n)) = n + 1 - 1
    BY <2>1, Part
  <2> QED
    BY <1>1, <2>2 DEF n
<1> QED
  BY <1>2, <1>3, <1>4

(***************************************************************************)
(* The line that was read last is the first that may be a name; none of    *)
(* those before it was.  A line without its newline is the last.           *)
(***************************************************************************)
Terminated == \A k \in DOMAIN typed_lines : typed_lines[k][Len(typed_lines[k])] = "newline"

ClientInv ==
  /\ typed_lines \in TypedLines
  /\ line_no \in 0 .. Len(typed_lines)
  /\ place \in {"start", "ask", "check", "close", "exit0", "exit1"}
  /\ place = "exit1" => call_failed
  /\ place = "check" => name_len = SIZE_MAX \/ (line_no > 0 /\ name_len = Len(typed_lines[line_no]))
  /\ Terminated =>
       /\ place \in {"start", "ask"} => \A i \in 1 .. line_no : ~ChatUser!IsName(i)
       /\ place = "check" =>
            /\ \A i \in 1 .. line_no - 1 : ~ChatUser!IsName(i)
            /\ name_len = SIZE_MAX => \A i \in 1 .. line_no : ~ChatUser!IsName(i)
       /\ place \in {"close", "exit0"} =>
            /\ line_no > 0
            /\ ChatUser!IsName(line_no)
            /\ \A i \in 1 .. line_no - 1 : ~ChatUser!IsName(i)
            /\ sent_name = ChatUser!TextOf(typed_lines[line_no]) \o <<"CR", "LF">>

LEMMA ClientStep ==
  /\ ChatUser!Init => ClientInv
  /\ ClientInv /\ [ChatUser!Next]_(ChatUser!vars) => ClientInv'
<1>1. ChatUser!Init => ClientInv
  BY ClientAssumption DEF ChatUser!Init, ClientInv
<1>2. CASE ClientInv /\ [ChatUser!Next]_(ChatUser!vars)
  <2> DEFINE n == Len(typed_lines)
  <2>0. /\ n \in Nat /\ DOMAIN typed_lines = 1 .. n
        /\ \A k \in 1 .. n : /\ typed_lines[k] \in Seq(STRING) /\ typed_lines[k] # << >>
                            /\ Len(typed_lines[k]) \in Nat /\ Len(typed_lines[k]) < SIZE_MAX
                            /\ \A i \in 1 .. Len(typed_lines[k]) - 1 : typed_lines[k][i] # "newline"
    BY <1>2, ClientAssumption DEF ClientInv
  <2>1. /\ typed_lines' = typed_lines
        /\ Terminated' = Terminated
        /\ \A i : ChatUser!IsName(i)' = ChatUser!IsName(i)
    BY <1>2 DEF ChatUser!Next, ChatUser!vars, ChatUser!Connects, ChatUser!ConnectFails, ChatUser!GetLine,
         ChatUser!GetLineEnds, ChatUser!AskAgain, ChatUser!SendName, ChatUser!SendFails,
         ChatUser!CloseSocket, Terminated, ChatUser!IsName
  <2>2. CASE ChatUser!Connects \/ ChatUser!ConnectFails
    BY <1>2, <2>0, <2>1, <2>2, ClientAssumption DEF ClientInv, ChatUser!Connects, ChatUser!ConnectFails
  <2>3. CASE ChatUser!GetLine
    BY <1>2, <2>0, <2>1, <2>3, ClientAssumption DEF ClientInv, ChatUser!GetLine
  <2>4. CASE ChatUser!GetLineEnds
    BY <1>2, <2>0, <2>1, <2>4, ClientAssumption DEF ClientInv, ChatUser!GetLineEnds
  <2>5. ASSUME line_no > 0, line_no <= n, Terminated
        PROVE  /\ ChatUser!TextOf(typed_lines[line_no]) = ChatUser!Front(typed_lines[line_no])
               /\ ChatUser!IsName(line_no) <=> Len(typed_lines[line_no]) - 1 <= MAX_NAME
    <3> DEFINE line == typed_lines[line_no]
    <3>1. /\ line \in Seq(STRING) /\ line # << >> /\ Len(line) \in Nat
          /\ \A i \in 1 .. Len(line) - 1 : line[i] # "newline"
          /\ line[Len(line)] = "newline"
      BY <2>0, <2>5, <1>2 DEF Terminated, ClientInv
    <3> HIDE DEF line
    <3>2. /\ ChatUser!TextOf(line) = SubSeq(line, 1, Len(line) - 1)
          /\ Len(ChatUser!TextOf(line)) = Len(line) - 1
      BY <3>1, TextOfLine
    <3> QED
      BY <3>2 DEF ChatUser!IsName, ChatUser!Front, line
  <2>6. CASE ChatUser!AskAgain
    BY <1>2, <2>0, <2>1, <2>5, <2>6, ClientAssumption DEF ClientInv, ChatUser!AskAgain, ChatUser!TooLong
  <2>7. CASE ChatUser!SendName
    <3>1. line_no > 0 /\ line_no <= n /\ line_no \in Nat /\ name_len = Len(typed_lines[line_no])
      BY <1>2, <2>0, <2>7, ClientAssumption DEF ClientInv, ChatUser!SendName, ChatUser!TooLong
    <3>2. Terminated => ChatUser!IsName(line_no)
      BY <2>0, <2>5, <2>7, <3>1, ClientAssumption DEF ChatUser!SendName, ChatUser!TooLong
    <3>3. Terminated => sent_name' = ChatUser!TextOf(typed_lines[line_no]) \o <<"CR", "LF">>
      BY <2>5, <2>7, <3>1 DEF ChatUser!SendName
    <3>4. /\ place = "check" /\ place' = "close" /\ line_no' = line_no
          /\ call_failed' = call_failed
      BY <2>7 DEF ChatUser!SendName
    <3> QED
      BY <1>2, <2>1, <3>1, <3>2, <3>3, <3>4 DEF ClientInv
  <2>8. CASE ChatUser!SendFails
    BY <1>2, <2>0, <2>1, <2>8, ClientAssumption DEF ClientInv, ChatUser!SendFails, ChatUser!TooLong
  <2>9. CASE ChatUser!CloseSocket
    BY <1>2, <2>0, <2>1, <2>9, ClientAssumption DEF ClientInv, ChatUser!CloseSocket
  <2>10. CASE UNCHANGED ChatUser!vars
    BY <1>2, <2>0, <2>1, <2>10 DEF ClientInv, ChatUser!vars
  <2> QED
    BY <1>2, <2>2, <2>3, <2>4, <2>6, <2>7, <2>8, <2>9, <2>10 DEF ChatUser!Next
<1> QED
  BY <1>1, <1>2

(***************************************************************************)
(* NameSent: a client that exits with 0 has sent the first line that is    *)
(* short enough to be a name and has read no further, whatever is typed.   *)
(***************************************************************************)
THEOREM NameSentHolds == ProgramsSpec => []NameSent
<1> DEFINE Inv == program = "chat_client" => ClientInv
<1>1. ProgramsInit => Inv
  BY ClientRuns, ClientStep
<1>2. Inv /\ [ProgramsNext]_program_vars => Inv'
  BY ProgramStays, ClientRuns, ClientStep
<1>3. Inv => NameSent
  BY DEF NameSent, ClientInv, ChatUser!NameSent, ChatUser!Last, Terminated
<1> QED
  BY <1>1, <1>2, <1>3, PTL DEF ProgramsSpec

-----------------------------------------------------------------------------
(* ll_sum.                                                                 *)

LEMMA ListRuns ==
  /\ ProgramsInit /\ program = "ll_sum" => Sum!Init
  /\ program = "ll_sum" /\ [ProgramsNext]_program_vars => [Sum!Next]_(Sum!vars)
<1>1. ProgramsInit /\ program = "ll_sum" => Sum!Init
  BY DEF ProgramsInit
<1>2. program = "ll_sum" /\ [ProgramsNext]_program_vars => [Sum!Next]_(Sum!vars)
  BY DEF ProgramsNext, Runs, WcRuns, WcFails, ForksStep, TimeReadsMain, TimeReadsTimer, TimeReadsStep,
         ValidateStep, ChatClientStep, ListSumStep, Wc, program_vars, list_vars, Sum!vars,
         Sum!scan_vars, Sum!sum_vars
<1> QED
  BY <1>1, <1>2

(* The sums of the first numbers, with the value of the dummy in front.    *)
IsTotal(total, v, t) == total[0] = v /\ \A k \in 1..Len(t) : total[k] = total[k-1] + t[k]

LEMMA PartialSums ==
  ASSUME NEW t \in Seq(Int), NEW v \in Int
  PROVE  \E total \in [0..Len(t) -> Int] :
           /\ IsTotal(total, v, t)
           /\ Sum!FoldLeft(LAMBDA x, y : x + y, v, t) = total[Len(t)]
<1> DEFINE n == Len(t)
           D == DOMAIN t
           Eq(f) == f = [S \in SUBSET D |-> IF S = {} THEN v ELSE f[S \ {Sum!Max(S)}] + t[Sum!Max(S)]]
           iter == CHOOSE f : Eq(f)
           step == [p \in Int \X Nat |-> IF p[2] \in 1..n THEN p[1] + t[p[2]] ELSE v]
<1>1. Sum!FoldLeft(LAMBDA x, y : x + y, v, t) = iter[D]
  BY Zenon DEF Sum!FoldLeft, Sum!MapThenFoldSet
<1>2. D = 1..n /\ n \in Nat
  OBVIOUS
<1>3. step \in [Int \X Nat -> Int]
  OBVIOUS
<1> HIDE DEF step
<1>10. PICK f : IsFold(f, Int, v, step, n)
  BY <1>2, <1>3, FoldExists
<1>4. /\ f \in [SUBSET (1..n) -> Int]
      /\ \A S \in SUBSET (1..n) :
             f[S] = IF S = {} THEN v ELSE step[<<f[S \ {Greatest(S)}], Greatest(S)>>]
  BY <1>10 DEF IsFold
<1>5. Eq(f)
  <2>1. ASSUME NEW S \in SUBSET D
        PROVE  f[S] = IF S = {} THEN v ELSE f[S \ {Sum!Max(S)}] + t[Sum!Max(S)]
    <3>1. CASE S = {}
      BY <1>2, <1>4, <3>1
    <3>2. CASE S # {}
      <4>1. Greatest(S) = Sum!Max(S)
        BY DEF Greatest, Sum!Max
      <4>2. Sum!Max(S) \in 1..n
        BY <1>2, <3>2, <4>1, GreatestExists
      <4>3. f[S \ {Sum!Max(S)}] \in Int
        BY <1>2, <1>4
      <4> QED
        <5>1. step[<<f[S \ {Sum!Max(S)}], Sum!Max(S)>>] = f[S \ {Sum!Max(S)}] + t[Sum!Max(S)]
          BY <4>2, <4>3, <1>2 DEF step
        <5> QED
          BY <1>2, <1>4, <3>2, <4>1, <5>1
    <3> QED
      BY <3>1, <3>2
  <2>2. f = [S \in SUBSET D |-> f[S]]
    BY <1>2, <1>4
  <2> QED
    BY <2>1, <2>2
<1>6. Eq(iter)
  BY <1>5, Zenon
<1> HIDE DEF iter
<1> DEFINE total == [k \in 0..n |-> iter[1..k]]
<1>7. total[0] = v
  BY <1>2, <1>6
<1>8. ASSUME NEW k \in 1..n PROVE iter[1..k] = iter[1..(k-1)] + t[k]
  <2>1. 1..k # {} /\ (1..k) \ {k} = 1..(k-1) /\ Sum!Max(1..k) = k /\ 1..k \in SUBSET D
    <3>1. k \in Nat /\ k > 0 /\ 1..k \in SUBSET D
      BY <1>2
    <3>2. Sum!Max(1..k) = Greatest(1..k)
      BY DEF Greatest, Sum!Max
    <3> QED
      BY <3>1, <3>2, UpTo
  <2> QED
    BY <1>6, <2>1
<1>9. \A k \in 0..n : iter[1..k] \in Int
  <2> DEFINE P == {k \in Nat : k <= n => iter[1..k] \in Int}
  <2>1. 0 \in P
    BY <1>2, <1>6
  <2>2. \A k \in Nat : k \in P => k + 1 \in P
    BY <1>2, <1>8
  <2> HIDE DEF P
  <2>3. \A k \in Nat : k \in P
    BY <2>1, <2>2, NatSetInduction
  <2> QED
    BY <2>3, <1>2 DEF P
<1> QED
  <2>1. total \in [0..n -> Int] /\ \A k \in 1..n : total[k] = total[k-1] + t[k]
    BY <1>2, <1>8, <1>9
  <2>2. Sum!FoldLeft(LAMBDA x, y : x + y, v, t) = total[n]
    <3>1. total[n] = iter[1..n]
      BY <1>2
    <3> QED
      BY <1>1, <1>2, <3>1
  <2> HIDE DEF total
  <2> QED
    BY <1>7, <2>1, <2>2 DEF IsTotal

UpToNode(n) == [i \in 1..n |-> i]

(* How many nodes were summed up. *)
Summed == IF front \in DOMAIN value THEN front - 1 ELSE Len(value)

(* Every number was read into the node behind the one before, unless the   *)
(* next one is none and is read again and again.                           *)
NumbersRead ==
  \/ /\ tokens_read = Len(value) - 1
     /\ \A i \in 1..tokens_read : value[i + 1] = tokens[i]
  \/ /\ tokens_read < Len(tokens)
     /\ tokens[tokens_read + 1] = Junk

Linked ==
  /\ Len(next) = Len(value)
  /\ \A i \in 1 .. Len(value) - 1 : next[i] = i + 1
  /\ Len(value) > 1 => next[Len(value)] = Sum!Null
  /\ Len(value) = 1 => next[1] \in {Sum!Null, Sum!Dangling}

(***************************************************************************)
(* The nodes are linked in the order of malloc; the walk has freed all     *)
(* behind it but the last, and the sum is that of what it has passed.      *)
(***************************************************************************)
ListInv ==
  /\ tokens \in TokenLists
  /\ value \in Seq(Int) /\ next \in Seq(Int) /\ Len(value) >= 1
  /\ user_inp \in Int
  /\ tokens_read \in 0 .. Len(tokens)
  /\ place \in {"scanf", "sum", "done", "crash"}
  /\ Linked
  /\ NumbersRead
  /\ place = "scanf" => front = 1 /\ current = Len(value) /\ sum = 0 /\ freed = << >>
  /\ place \in {"sum", "done"} => tokens_read = Len(tokens)
  /\ place = "sum" =>
       /\ front \in DOMAIN value \cup {Sum!Null, Sum!Dangling}
       /\ front = Sum!Dangling => tokens = << >>
       /\ current = Summed
       /\ freed = UpToNode(IF Summed = 0 THEN 0 ELSE Summed - 1)
       /\ Summed = 0 => sum = 0
       /\ Summed > 0 => \A total : IsTotal(total, value[1], tokens) => sum = total[Summed - 1]
  /\ place = "done" =>
       /\ freed = UpToNode(Len(value))
       /\ \A total : IsTotal(total, value[1], tokens) => sum = total[Len(tokens)]
  /\ place = "crash" => tokens = << >> \/ Junk \in Sum!Range(tokens)
  /\ \E n \in Nat : freed = UpToNode(n)

LEMMA NodesBehind ==
  ASSUME NEW n \in Nat
  PROVE  /\ UpToNode(n) \in Seq(Int) /\ Len(UpToNode(n)) = n /\ \A i \in 1..n : UpToNode(n)[i] = i
         /\ Append(UpToNode(n), n + 1) = UpToNode(n + 1)
<1>1. UpToNode(n) \in Seq(Int) /\ Len(UpToNode(n)) = n /\ \A i \in 1..n : UpToNode(n)[i] = i
  BY DEF UpToNode
<1>2. UpToNode(n + 1) \in Seq(Int) /\ Len(UpToNode(n + 1)) = n + 1 /\ \A i \in 1..n+1 : UpToNode(n + 1)[i] = i
  BY DEF UpToNode
<1> DEFINE up == UpToNode(n)
           more == Append(up, n + 1)
<1>3. more \in Seq(Int) /\ Len(more) = n + 1 /\ \A i \in 1..n+1 : more[i] = i
  <2> HIDE DEF up
  <2>1. n + 1 \in Int
    OBVIOUS
  <2>2. up \in Seq(Int) /\ Len(up) = n /\ \A i \in 1..n : up[i] = i
    BY <1>1 DEF up
  <2> QED
    BY <2>1, <2>2
<1> HIDE DEF more
<1>4. more = UpToNode(n + 1)
  BY <1>2, <1>3
<1> QED
  BY <1>1, <1>4 DEF more

LEMMA NoNode == UpToNode(0) = << >>
BY DEF UpToNode

LEMMA ListStep ==
  /\ Sum!Init => ListInv
  /\ ListInv /\ [Sum!Next]_(Sum!vars) => ListInv'
<1>1. ASSUME Sum!Init PROVE ListInv
  <2>1. PICK v \in Garbage : value = <<v>>
    BY <1>1 DEF Sum!Init
  <2>2. PICK p \in {Sum!Null, Sum!Dangling} : next = <<p>>
    BY <1>1 DEF Sum!Init
  <2>3. /\ value \in Seq(Int) /\ next \in Seq(Int) /\ Len(value) = 1 /\ Len(next) = 1 /\ next[1] = p
        /\ user_inp \in Int /\ tokens \in Seq(Int)
    BY <1>1, <2>1, <2>2, ListAssumption DEF Sum!Init, Sum!Null, Sum!Dangling
  <2>4. freed = UpToNode(0)
    BY <1>1, NoNode DEF Sum!Init
  <2> QED
    BY <1>1, <2>2, <2>3, <2>4 DEF Sum!Init, ListInv, Linked, NumbersRead
<1>2. ASSUME ListInv, [Sum!Next]_(Sum!vars) PROVE ListInv'
  <2>0. /\ tokens' = tokens /\ tokens \in Seq(Int) /\ Len(tokens) \in Nat /\ Len(tokens) < MaxNodes
        /\ MaxNodes \in Nat /\ Junk \in Int
    BY <1>2, ListAssumption DEF ListInv, Sum!Next, Sum!vars, Sum!Scan, Sum!ScanCrashes, Sum!ScanEnds,
         Sum!SumNode, Sum!SumCrashes, Sum!SumEnds
  <2> DEFINE token == tokens[tokens_read + 1]
  <2>8. PICK k \in Nat :
             /\ k = Len(value) /\ k >= 1 /\ DOMAIN value = 1..k /\ value \in Seq(Int)
             /\ next \in Seq(Int) /\ Len(next) = k /\ DOMAIN next = 1..k
             /\ tokens_read \in 0 .. Len(tokens) /\ user_inp \in Int
    <3>1. value \in Seq(Int) /\ next \in Seq(Int) /\ Len(next) = Len(value) /\ Len(value) >= 1
          /\ tokens_read \in 0 .. Len(tokens) /\ user_inp \in Int
      BY <1>2 DEF ListInv, Linked
    <3> QED
      BY <3>1
  <2>1. CASE Sum!Scan
    <3> DEFINE new == IF token = Junk THEN user_inp ELSE token
               linked == [next EXCEPT ![k] = k + 1]
    <3>0. /\ place = "scanf" /\ tokens_read < Len(tokens)
          /\ front = 1 /\ current = k /\ sum = 0 /\ freed = << >> /\ Linked /\ NumbersRead
      BY <2>8, <1>2, <2>1 DEF ListInv, Sum!Scan
    <3>1. /\ value' = Append(value, new) /\ user_inp' = new
          /\ next' = Append(linked, Sum!Null)
          /\ tokens_read' = IF token = Junk THEN tokens_read ELSE tokens_read + 1
          /\ current' = k + 1 /\ UNCHANGED <<front, sum, freed, place>>
      BY <2>8, <2>1, <3>0 DEF Sum!Scan, Sum!sum_vars
    <3>2. new \in Int
      BY <2>0, <2>8, <3>0
    <3>7. token = Junk => new = user_inp
      OBVIOUS
    <3>8. token # Junk => new = token
      OBVIOUS
    <3> HIDE DEF new
    <3>3. /\ value' \in Seq(Int) /\ Len(value') = k + 1 /\ value'[k + 1] = new
          /\ \A i \in 1..k : value'[i] = value[i]
      BY <2>8, <3>1, <3>2
    <3>4. /\ next' \in Seq(Int) /\ Len(next') = k + 1 /\ next'[k + 1] = Sum!Null /\ next'[k] = k + 1
          /\ \A i \in 1 .. k - 1 : next'[i] = next[i]
      <4>1. linked \in Seq(Int) /\ Len(linked) = k
        <5>1. k \in DOMAIN next /\ k + 1 \in Int
          BY <2>8
        <5> QED
          BY <2>8, <5>1, ExceptSeq
      <4>2. linked[k] = k + 1 /\ \A i \in 1 .. k - 1 : linked[i] = next[i]
        BY <2>8
      <4> HIDE DEF linked
      <4>3. next' = Append(linked, 0) /\ Sum!Null = 0
        BY <3>1 DEF Sum!Null
      <4>4. /\ Append(linked, 0) \in Seq(Int) /\ Len(Append(linked, 0)) = k + 1
            /\ Append(linked, 0)[k + 1] = 0 /\ \A i \in 1..k : Append(linked, 0)[i] = linked[i]
        <5>1. k \in Nat /\ 0 \in Int /\ linked \in Seq(Int) /\ Len(linked) = k
          BY <2>8, <4>1
        <5> QED
          BY <5>1
      <4> QED
        BY <2>8, <4>2, <4>3, <4>4
    <3>5. Linked'
      <4>1. /\ Linked' <=> /\ Len(next') = Len(value')
                           /\ \A i \in 1 .. Len(value') - 1 : next'[i] = i + 1
                           /\ Len(value') > 1 => next'[Len(value')] = Sum!Null
                           /\ Len(value') = 1 => next'[1] \in {Sum!Null, Sum!Dangling}
        BY DEF Linked, Sum!Null, Sum!Dangling
      <4>2. \A i \in 1 .. k - 1 : next[i] = i + 1
        BY <2>8, <3>0 DEF Linked
      <4>3. \A i \in 1..k : i = k \/ i \in 1 .. k - 1
        BY <2>8
      <4>4. \A i \in 1..k : next'[i] = i + 1
        BY <3>4, <4>2, <4>3
      <4> QED
        BY <2>8, <3>3, <3>4, <4>1, <4>4
    <3>6. NumbersRead'
      <4>1. CASE token = Junk
        BY <2>0, <3>0, <3>1, <4>1 DEF NumbersRead
      <4>2. CASE token # Junk
        <5>1. tokens_read = k - 1 /\ \A i \in 1..tokens_read : value[i + 1] = tokens[i]
          BY <2>8, <3>0, <4>2 DEF NumbersRead
        <5>2. tokens_read' = k /\ k \in Nat /\ Len(value') = k + 1
          BY <2>8, <3>1, <3>3, <4>2, <5>1
        <5>3. ASSUME NEW i \in 1..k PROVE value'[i + 1] = tokens[i]
          <6>1. CASE i = k
            BY <2>8, <3>3, <3>8, <4>2, <5>1, <6>1
          <6>2. CASE i # k
            <7>1. i \in 1..tokens_read /\ i + 1 \in 1..k
              BY <2>8, <5>1, <6>2
            <7> QED
              BY <3>3, <5>1, <7>1
          <6> QED
            BY <6>1, <6>2
        <5>4. tokens_read' = Len(value') - 1 /\ \A i \in 1..tokens_read' : value'[i + 1] = tokens'[i]
          BY <2>0, <5>2, <5>3
        <5> QED
          BY <5>4 DEF NumbersRead
      <4> QED
        BY <4>1, <4>2
    <3> QED
      <4>1. tokens_read' \in 0 .. Len(tokens') /\ tokens' \in TokenLists /\ user_inp' \in Int
        BY <1>2, <2>0, <2>8, <3>0, <3>1, <3>2 DEF ListInv
      <4>2. front' = 1 /\ current' = Len(value') /\ sum' = 0 /\ freed' = << >> /\ place' = "scanf"
        BY <3>0, <3>1, <3>3
      <4>3. freed' = UpToNode(0) /\ 0 \in Nat
        BY <4>2, NoNode
      <4>4. value' \in Seq(Int) /\ next' \in Seq(Int) /\ Len(value') >= 1
        BY <2>8, <3>3, <3>4
      <4>5. \E n \in Nat : freed' = UpToNode(n)
        BY <4>3
      <4> HIDE DEF token
      <4> QED
        BY <3>5, <3>6, <4>1, <4>2, <4>4, <4>5 DEF ListInv
  <2>2. CASE Sum!ScanCrashes
    <3>1. Junk \in Sum!Range(tokens)
      <4>1. tokens_read < Len(tokens) /\ tokens[tokens_read + 1] = Junk /\ tokens_read + 1 \in DOMAIN tokens
        BY <1>2, <2>0, <2>2, <2>8 DEF ListInv, NumbersRead, Sum!ScanCrashes
      <4> QED
        BY <4>1 DEF Sum!Range
    <3> QED
      BY <1>2, <2>0, <2>2, <3>1 DEF ListInv, Linked, NumbersRead, Sum!ScanCrashes, Sum!scan_vars, Sum!sum_vars
  <2>9. ASSUME UNCHANGED <<value, next, tokens_read, user_inp>>
        PROVE  /\ Linked' /\ NumbersRead' /\ value' \in Seq(Int) /\ next' \in Seq(Int) /\ Len(value') >= 1
               /\ user_inp' \in Int /\ tokens_read' \in 0 .. Len(tokens') /\ tokens' \in TokenLists
    BY <1>2, <2>0, <2>9 DEF ListInv, Linked, NumbersRead
  <2>3. CASE Sum!ScanEnds
    <3>1. /\ front' = 1 /\ current' = 0 /\ place' = "sum" /\ sum' = 0 /\ freed' = << >>
          /\ tokens_read' = Len(tokens') /\ UNCHANGED <<value, next, tokens_read, user_inp>>
      BY <1>2, <2>0, <2>3 DEF ListInv, Sum!ScanEnds, Sum!scan_vars, Sum!sum_vars, Sum!Null
    <3>2. front' \in DOMAIN value' /\ Summed' = 0
      BY <2>8, <3>1 DEF Summed
    <3>3. freed' = UpToNode(0) /\ 0 \in Nat
      BY <3>1, NoNode
    <3>4. \E n \in Nat : freed' = UpToNode(n)
      BY <3>3
    <3>5. front' # Sum!Dangling
      BY <3>1 DEF Sum!Dangling
    <3> HIDE DEF token
    <3> QED
      BY <2>9, <3>1, <3>2, <3>3, <3>4, <3>5 DEF ListInv
  <2>10. ASSUME place = "sum"
         PROVE  /\ tokens_read = Len(tokens) /\ k = Len(tokens) + 1
                /\ \A i \in 1 .. Len(tokens) : value[i + 1] = tokens[i]
    BY <1>2, <2>0, <2>8, <2>10 DEF ListInv, NumbersRead
  <2>4. CASE Sum!SumNode
    <3>1. /\ place = "sum" /\ front \in 1..k /\ Summed = front - 1 /\ current = front - 1
          /\ freed = UpToNode(IF front = 1 THEN 0 ELSE front - 2)
          /\ front = 1 => sum = 0
          /\ front > 1 => \A total : IsTotal(total, value[1], tokens) => sum = total[front - 2]
      BY <1>2, <2>4, <2>8 DEF ListInv, Sum!SumNode, Summed
    <3>2. /\ freed' = IF current = 0 THEN freed ELSE Append(freed, current)
          /\ sum' = sum + value[front] /\ current' = front /\ front' = next[front] /\ place' = "sum"
          /\ UNCHANGED <<value, next, tokens_read, user_inp>>
      BY <2>4, <3>1 DEF Sum!SumNode, Sum!Behind, Sum!scan_vars, Sum!Null
    <3>3. /\ front' \in DOMAIN value' \cup {Sum!Null, Sum!Dangling}
          /\ front' = Sum!Dangling => tokens' = << >>
          /\ Summed' = front
      <4>1. CASE front < k
        <5>1. next[front] = front + 1 /\ front + 1 \in 1..k
          <6>1. front \in 1 .. k - 1
            BY <2>8, <3>1, <4>1
          <6> QED
            BY <1>2, <2>8, <6>1 DEF ListInv, Linked
        <5> QED
          BY <2>8, <3>1, <3>2, <5>1 DEF Summed, Sum!Null, Sum!Dangling
      <4>2. CASE front = k
        <5>1. next[k] \in {Sum!Null, Sum!Dangling} /\ (next[k] = Sum!Dangling => k = 1)
          BY <1>2, <2>8 DEF ListInv, Linked, Sum!Null, Sum!Dangling
        <5>2. k = 1 => tokens = << >>
          BY <2>0, <2>10, <3>1
        <5> QED
          <6>1. front' \in {0, -1} /\ value' = value /\ tokens' = tokens
            BY <2>0, <3>2, <4>2, <5>1 DEF Sum!Null, Sum!Dangling
          <6>2. front' \notin DOMAIN value'
            BY <2>8, <6>1
          <6>3. Summed' = k
            BY <2>8, <6>1, <6>2 DEF Summed
          <6> QED
            BY <3>2, <4>2, <5>1, <5>2, <6>1, <6>3 DEF Sum!Null, Sum!Dangling
      <4> QED
        BY <2>8, <3>1, <4>1, <4>2
    <3>4. freed' = UpToNode(front - 1) /\ front - 1 \in Nat
      <4>1. CASE front = 1
        BY <3>1, <3>2, <4>1
      <4>2. CASE front # 1
        <5> DEFINE n == front - 2
        <5>1. n \in Nat /\ n + 1 = front - 1 /\ freed = UpToNode(n) /\ current = n + 1 /\ current # 0
          BY <2>8, <3>1, <4>2
        <5>2. freed' = Append(UpToNode(n), n + 1)
          BY <3>2, <5>1
        <5> HIDE DEF n
        <5>3. freed' = UpToNode(n + 1)
          BY <5>1, <5>2, NodesBehind
        <5> QED
          BY <5>1, <5>3
      <4> QED
        BY <4>1, <4>2
    <3>5. ASSUME NEW total, IsTotal(total, value[1], tokens) PROVE sum' = total[front - 1]
      <4>1. CASE front = 1
        BY <2>8, <3>1, <3>2, <3>5, <4>1 DEF IsTotal
      <4>2. CASE front # 1
        <5>1. front - 1 \in 1 .. Len(tokens) /\ front > 1
          BY <2>0, <2>8, <2>10, <3>1, <4>2
        <5>2. value[front] = tokens[front - 1]
          <6>1. value[(front - 1) + 1] = tokens[front - 1]
            BY <2>10, <3>1, <5>1
          <6> QED
            BY <3>1, <2>8, <6>1
        <5>3. sum = total[front - 2]
          BY <3>1, <3>5, <5>1
        <5>4. total[front - 1] = total[front - 2] + tokens[front - 1]
          <6>1. total[front - 1] = total[(front - 1) - 1] + tokens[front - 1]
            BY <3>5, <5>1 DEF IsTotal
          <6>2. (front - 1) - 1 = front - 2
            BY <2>8, <3>1
          <6> QED
            BY <6>1, <6>2
        <5> QED
          BY <3>2, <5>2, <5>3, <5>4
      <4> QED
        BY <4>1, <4>2
    <3>6. front > 0 /\ front # 0 /\ (IF front = 0 THEN 0 ELSE front - 1) = front - 1
      BY <2>8, <3>1
    <3>7. \E n \in Nat : freed' = UpToNode(n)
      BY <3>4
    <3>8. Summed' # 0 /\ freed' = UpToNode(IF Summed' = 0 THEN 0 ELSE Summed' - 1) /\ current' = Summed'
      BY <3>2, <3>3, <3>4, <3>6
    <3>9. \A total : IsTotal(total, value'[1], tokens') => sum' = total[Summed' - 1]
      BY <2>0, <3>2, <3>3, <3>5
    <3>10. tokens_read' = Len(tokens')
      BY <2>0, <2>10, <3>1, <3>2
    <3> HIDE DEF token
    <3> QED
      BY <2>9, <3>2, <3>3, <3>7, <3>8, <3>9, <3>10 DEF ListInv
  <2>5. CASE Sum!SumCrashes
    BY <1>2, <2>0, <2>5 DEF ListInv, Linked, NumbersRead, Sum!SumCrashes, Sum!scan_vars, Sum!sum_vars
  <2>6. CASE Sum!SumEnds
    <3>1. /\ place = "sum" /\ front = 0 /\ front \notin DOMAIN value /\ Summed = k /\ current = k
          /\ freed = UpToNode(k - 1)
          /\ \A total : IsTotal(total, value[1], tokens) => sum = total[k - 1]
      <4>1. place = "sum" /\ front = 0 /\ front \notin DOMAIN value
        BY <2>6, <2>8 DEF Sum!SumEnds, Sum!Null
      <4>2. Summed = k
        BY <2>8, <4>1 DEF Summed
      <4> QED
        BY <1>2, <2>8, <4>1, <4>2 DEF ListInv
    <3>2. /\ freed' = Append(freed, current) /\ place' = "done" /\ sum' = sum
          /\ UNCHANGED <<value, next, tokens_read, user_inp>>
      BY <2>6 DEF Sum!SumEnds, Sum!scan_vars
    <3>3. freed' = UpToNode(k)
      <4> DEFINE n == k - 1
      <4>1. n \in Nat /\ n + 1 = k
        BY <2>8
      <4>2. freed' = Append(UpToNode(n), n + 1)
        BY <3>1, <3>2, <4>1
      <4> HIDE DEF n
      <4>3. freed' = UpToNode(n + 1)
        BY <4>1, <4>2, NodesBehind
      <4> QED
        BY <4>1, <4>3
    <3>4. k - 1 = Len(tokens) /\ tokens_read' = Len(tokens')
      BY <2>0, <2>8, <2>10, <3>1, <3>2
    <3>5. \A total : IsTotal(total, value'[1], tokens') => sum' = total[Len(tokens')]
      BY <2>0, <3>1, <3>2, <3>4
    <3>6. \E n \in Nat : freed' = UpToNode(n)
      BY <2>8, <3>3
    <3>7. freed' = UpToNode(Len(value'))
      BY <2>8, <3>2, <3>3
    <3> HIDE DEF token
    <3> QED
      BY <2>9, <3>2, <3>4, <3>5, <3>6, <3>7 DEF ListInv
  <2>7. CASE UNCHANGED Sum!vars
    BY <1>2, <2>7 DEF ListInv, Linked, NumbersRead, Summed, Sum!vars, Sum!scan_vars, Sum!sum_vars
  <2> QED
    BY <1>2, <2>1, <2>2, <2>3, <2>4, <2>5, <2>6, <2>7 DEF Sum!Next
<1> QED
  BY <1>1, <1>2

LEMMA FreedOnce ==
  ASSUME NEW n \in Nat
  PROVE  Sum!Range(UpToNode(n)) = 1..n /\ Sum!IsInjective(UpToNode(n))
<1>1. DOMAIN UpToNode(n) = 1..n /\ \A i \in 1..n : UpToNode(n)[i] = i
  BY DEF UpToNode
<1> QED
  BY <1>1 DEF Sum!Range, Sum!IsInjective

LEMMA ListInvSuffices == ListInv => Sum!NodesFreed
<1> SUFFICES ASSUME ListInv PROVE Sum!NodesFreed
  OBVIOUS
<1>1. value \in Seq(Int) /\ tokens \in Seq(Int) /\ value[1] \in Int /\ Len(value) \in Nat /\ Len(value) >= 1
      /\ DOMAIN value = 1 .. Len(value)
  BY ListAssumption DEF ListInv
<1>2. Sum!IsInjective(freed)
  BY FreedOnce DEF ListInv
<1>3. ASSUME place = "sum" PROVE {front, current} \cap Sum!Range(freed) = {}
  <2>1. /\ Summed \in Nat /\ current = Summed /\ front \notin 1 .. Summed
        /\ freed = UpToNode(IF Summed = 0 THEN 0 ELSE Summed - 1)
    <3>1. /\ front \in DOMAIN value \cup {Sum!Null, Sum!Dangling} /\ current = Summed
          /\ freed = UpToNode(IF Summed = 0 THEN 0 ELSE Summed - 1)
      BY <1>3 DEF ListInv
    <3>2. Summed \in Nat /\ front \notin 1 .. Summed
      <4>1. CASE front \in DOMAIN value
        <5>1. Summed = front - 1 /\ front \in 1 .. Len(value)
          BY <1>1, <4>1 DEF Summed
        <5> QED
          BY <1>1, <5>1
      <4>2. CASE front \notin DOMAIN value
        <5>1. Summed = Len(value) /\ front \in {0, -1}
          BY <3>1, <4>2 DEF Summed, Sum!Null, Sum!Dangling
        <5> QED
          BY <1>1, <5>1
      <4> QED
        BY <4>1, <4>2
    <3> QED
      BY <3>1, <3>2
  <2> DEFINE n == IF Summed = 0 THEN 0 ELSE Summed - 1
  <2>2. n \in Nat /\ current \notin 1..n /\ front \notin 1..n /\ freed = UpToNode(n)
    BY <2>1
  <2> HIDE DEF n
  <2>3. Sum!Range(freed) = 1..n
    BY <2>2, FreedOnce
  <2> QED
    BY <2>2, <2>3
<1>4. ASSUME place = "done"
      PROVE  Sum!Range(freed) = DOMAIN value /\ sum = Sum!FoldLeft(LAMBDA x, y : x + y, value[1], tokens)
  <2>1. freed = UpToNode(Len(value)) /\ \A total : IsTotal(total, value[1], tokens) => sum = total[Len(tokens)]
    BY <1>4 DEF ListInv
  <2>2. Sum!Range(freed) = DOMAIN value
    BY <1>1, <2>1, FreedOnce
  <2>3. PICK total \in [0 .. Len(tokens) -> Int] :
          /\ IsTotal(total, value[1], tokens)
          /\ Sum!FoldLeft(LAMBDA x, y : x + y, value[1], tokens) = total[Len(tokens)]
    BY <1>1, PartialSums
  <2> QED
    BY <2>1, <2>2, <2>3
<1> QED
  BY <1>2, <1>3, <1>4 DEF ListInv, Sum!NodesFreed

(***************************************************************************)
(* NodesFreed: however many numbers are typed, the loop uses no node that  *)
(* it freed and frees none twice, the last free leaves none, and the sum   *)
(* is that of the numbers and the dummy's.                                 *)
(***************************************************************************)
THEOREM NodesFreedHolds == ProgramsSpec => []NodesFreed
<1> DEFINE Inv == program = "ll_sum" => ListInv
<1>1. ProgramsInit => Inv
  BY ListRuns, ListStep
<1>2. Inv /\ [ProgramsNext]_program_vars => Inv'
  BY ProgramStays, ListRuns, ListStep
<1>3. Inv => NodesFreed
  BY ListInvSuffices DEF NodesFreed
<1> QED
  BY <1>1, <1>2, <1>3, PTL DEF ProgramsSpec

-----------------------------------------------------------------------------
(* validate.                                                               *)

(* The characters of a line, with those that have a meaning.               *)
Char == STRING \cup {"nul", "newline", "colon"}

LEMMA Chars ==
  /\ STRING \subseteq Char /\ Seq(STRING) \subseteq Seq(Char)
  /\ "nul" \in Char /\ "newline" \in Char /\ "colon" \in Char
<1>1. STRING \subseteq Char /\ "nul" \in Char /\ "newline" \in Char /\ "colon" \in Char
  BY Zenon DEF Char
<1> QED
  BY <1>1, SeqMonotonic

IsWord(w) == w \in Seq(Char) /\ \A i \in DOMAIN w : w[i] \notin {"nul", "newline", "colon"}

(* A user, a colon and a password. *)
Pair(a, b) == a \o <<"colon">> \o b

LEMMA PairIs ==
  ASSUME NEW a \in Seq(Char), NEW b \in Seq(Char)
  PROVE  /\ Pair(a, b) \in Seq(Char) /\ Len(Pair(a, b)) = Len(a) + 1 + Len(b)
         /\ \A i \in 1 .. Len(a) : Pair(a, b)[i] = a[i]
         /\ Pair(a, b)[Len(a) + 1] = "colon"
         /\ Pair(a, b) = Append(a, "colon") \o b
<1> DEFINE c == <<"colon">>
<1>1. c \in Seq(Char) /\ Len(c) = 1 /\ c[1] = "colon" /\ Len(a) \in Nat /\ Len(b) \in Nat
  <2>1. "colon" \in Char
    BY Chars
  <2> HIDE DEF Char
  <2> QED
    BY <2>1
<1>2. a \o c = Append(a, "colon")
  BY <1>1, Chars, AppendIsConcat
<1> HIDE DEF c
<1>3. /\ a \o c \in Seq(Char) /\ Len(a \o c) = Len(a) + 1 /\ (a \o c)[Len(a) + 1] = "colon"
      /\ \A i \in 1 .. Len(a) : (a \o c)[i] = a[i]
  <2>1. /\ a \o c \in Seq(Char) /\ Len(a \o c) = Len(a) + Len(c)
        /\ \A i \in 1 .. Len(a) : (a \o c)[i] = a[i]
        /\ \A i \in 1 .. Len(c) : (a \o c)[Len(a) + i] = c[i]
    <3>1. c \in Seq(Char)
      BY <1>1
    <3> QED
      BY <3>1, Joined
  <2>2. 1 \in 1 .. Len(c)
    BY <1>1
  <2> QED
    BY <1>1, <2>1, <2>2
<1> DEFINE ac == a \o c
<1> HIDE DEF ac
<1>4. /\ ac \o b \in Seq(Char) /\ Len(ac \o b) = Len(ac) + Len(b)
      /\ \A i \in 1 .. Len(ac) : (ac \o b)[i] = ac[i]
  <2>1. ac \in Seq(Char) /\ Len(ac) \in Nat
    BY <1>3 DEF ac
  <2> QED
    BY <1>1, <2>1, ConcatProperties
<1>5. Pair(a, b) = ac \o b
  BY DEF Pair, ac, c
<1> QED
  BY <1>1, <1>2, <1>3, <1>4, <1>5 DEF ac

(* A user with the colon begins no other user's line. *)
LEMMA UserBegins ==
  ASSUME NEW u, NEW a, NEW b, IsWord(u), IsWord(a), b \in Seq(Char)
  PROVE  Verdict!IsPrefix(Append(u, "colon"), Pair(a, b)) <=> a = u
<1> DEFINE x == Pair(a, b)
           y == Append(u, "colon")
<1>1. /\ u \in Seq(Char) /\ a \in Seq(Char) /\ Len(u) \in Nat /\ Len(a) \in Nat /\ Len(b) \in Nat
      /\ \A i \in 1 .. Len(u) : u[i] # "colon"
      /\ \A i \in 1 .. Len(a) : a[i] # "colon"
  BY DEF IsWord
<1>2. /\ x \in Seq(Char) /\ Len(x) = Len(a) + 1 + Len(b) /\ x[Len(a) + 1] = "colon"
      /\ \A i \in 1 .. Len(a) : x[i] = a[i]
      /\ x = Append(a, "colon") \o b
  BY <1>1, PairIs
<1>3. /\ y \in Seq(Char) /\ Len(y) = Len(u) + 1 /\ y[Len(u) + 1] = "colon"
      /\ \A i \in 1 .. Len(u) : y[i] = u[i]
  BY <1>1, Chars, AppendProperties
<1> HIDE DEF x, y
<1>4. ASSUME Verdict!IsPrefix(y, x) PROVE a = u
  <2> DEFINE n == Len(y)
  <2>1. n \in Nat /\ n = Len(u) + 1 /\ n <= Len(x)
    BY <1>1, <1>2, <1>3, <1>4 DEF Verdict!IsPrefix
  <2>2. SubSeq(y, 1, n) = SubSeq(x, 1, n)
    BY <1>4 DEF Verdict!IsPrefix
  <2> HIDE DEF n
  <2>3. \A i \in 1..n : SubSeq(x, 1, n)[i] = x[i]
    <3>1. \A i \in 1 .. n + 1 - 1 : SubSeq(x, 1, n)[i] = x[1 + i - 1]
      BY <1>2, <2>1, Part
    <3> QED
      BY <2>1, <3>1
  <2>4. n <= Len(y)
    BY <1>3, <2>1
  <2>5. \A i \in 1..n : SubSeq(y, 1, n)[i] = y[i]
    <3>1. \A i \in 1 .. n + 1 - 1 : SubSeq(y, 1, n)[i] = y[1 + i - 1]
      BY <1>3, <2>1, <2>4, Part
    <3> QED
      BY <2>1, <3>1
  <2>6. \A i \in 1..n : x[i] = y[i]
    BY <2>2, <2>3, <2>5
  <2>7. ~ (Len(a) < Len(u))
    <3> SUFFICES ASSUME Len(a) < Len(u) PROVE FALSE
      OBVIOUS
    <3>1. Len(a) + 1 \in 1..n /\ Len(a) + 1 \in 1 .. Len(u)
      BY <1>1, <2>1
    <3> QED
      BY <1>1, <1>2, <1>3, <2>6, <3>1
  <2>8. ~ (Len(u) < Len(a))
    <3> SUFFICES ASSUME Len(u) < Len(a) PROVE FALSE
      OBVIOUS
    <3>1. Len(u) + 1 \in 1..n /\ Len(u) + 1 \in 1 .. Len(a)
      BY <1>1, <2>1
    <3> QED
      BY <1>1, <1>2, <1>3, <2>6, <3>1
  <2>9. Len(a) = Len(u)
    BY <1>1, <2>7, <2>8
  <2>10. \A i \in 1 .. Len(u) : a[i] = u[i]
    BY <1>1, <1>2, <1>3, <2>1, <2>6, <2>9
  <2> QED
    BY <1>1, <2>9, <2>10, SeqEqual
<1>5. ASSUME a = u PROVE Verdict!IsPrefix(y, x)
  <2> DEFINE n == Len(y)
  <2>1. x = y \o b /\ n \in Nat /\ n <= Len(x)
    BY <1>1, <1>2, <1>3, <1>5 DEF y
  <2>2. SubSeq(x, 1, n) = y
    <3>1. SubSeq(y \o b, 1, n) = y
      BY <1>3, <2>1, TakeApart
    <3> QED
      BY <2>1, <3>1
  <2>3. SubSeq(y, 1, n) = y
    BY <1>3, SubSeqFull
  <2> QED
    BY <2>1, <2>2, <2>3 DEF Verdict!IsPrefix
<1> QED
  BY <1>4, <1>5 DEF x, y

(* A pair is that of one user and one password. *)
LEMMA PairsDiffer ==
  ASSUME NEW u, NEW a, NEW b, NEW p, IsWord(u), IsWord(a), b \in Seq(Char), p \in Seq(Char)
  PROVE  Pair(a, b) = Pair(u, p) <=> a = u /\ b = p
<1>1. u \in Seq(Char) /\ a \in Seq(Char)
  BY DEF IsWord
<1>3. ASSUME Pair(a, b) = Pair(u, p) PROVE a = u /\ b = p
  <2>1. Verdict!IsPrefix(Append(u, "colon"), Pair(u, p))
    BY UserBegins
  <2>2. a = u
    BY <1>3, <2>1, UserBegins
  <2> DEFINE y == Append(u, "colon")
             n == Len(y)
  <2>3. y \in Seq(Char) /\ n \in Nat
    BY <1>1, Chars, AppendProperties
  <2>4. Pair(u, b) = y \o b
    BY <1>1, PairIs
  <2>8. Pair(u, p) = y \o p
    BY <1>1, PairIs
  <2> HIDE DEF y
  <2>5. y \o b = y \o p
    BY <1>3, <2>2, <2>4, <2>8 DEF y
  <2>6. SubSeq(y \o b, n + 1, Len(y \o b)) = b
    BY <2>3, TakeApart
  <2>7. SubSeq(y \o p, n + 1, Len(y \o p)) = p
    BY <2>3, TakeApart
  <2> QED
    BY <2>2, <2>5, <2>6, <2>7
<1> QED
  BY <1>3

LEMMA EntryIs ==
  ASSUME NEW a \in Seq(Char), NEW b \in Seq(Char)
  PROVE  Verdict!Front(Verdict!Entry(a, b)) = Pair(a, b)
<1> DEFINE x == Pair(a, b)
           n == Len(x)
           c == <<"newline">>
<1>1. x \in Seq(Char) /\ n \in Nat /\ c \in Seq(Char) /\ Len(c) = 1
  BY PairIs, Chars
<1>2. Verdict!Entry(a, b) = x \o c
  BY DEF Verdict!Entry, Pair
<1> HIDE DEF x, c
<1>3. Len(x \o c) = n + 1
  <2>1. Len(x \o c) = Len(x) + Len(c)
    BY <1>1, Joined, Zenon
  <2> QED
    BY <1>1, <2>1
<1>4. SubSeq(x \o c, 1, n) = x
  BY <1>1, TakeApart
<1>5. Len(x \o c) - 1 = n
  BY <1>1, <1>3
<1> HIDE DEF n
<1> QED
  BY <1>2, <1>4, <1>5 DEF Verdict!Front, x

(* What is written for a word. *)
LEMMA PieceIs ==
  ASSUME NEW w, IsWord(w), MAX_PASSWORD \in Nat \ {0}, Len(w) <= MAX_PASSWORD, writer \in {"chunks", "terminal"}
  PROVE  /\ Verdict!Piece(w) \in Seq(Char)
         /\ Len(Verdict!Piece(w)) = IF writer = "chunks" THEN MAX_PASSWORD ELSE Len(w) + 1
         /\ \A i \in 1 .. Len(w) : Verdict!Piece(w)[i] = w[i]
         /\ \A i \in 1 .. Len(Verdict!Piece(w)) :
              i > Len(w) => Verdict!Piece(w)[i] = IF writer = "chunks" THEN "nul" ELSE "newline"
<1>1. w \in Seq(Char) /\ Len(w) \in Nat /\ "nul" \in Char /\ "newline" \in Char
  BY Chars DEF IsWord
<1>2. CASE writer = "chunks"
  <2> DEFINE m == MAX_PASSWORD - Len(w)
             pad == [i \in 1..m |-> "nul"]
  <2>1. m \in Nat /\ Len(w) + m = MAX_PASSWORD
    BY <1>1
  <2>2. Verdict!Piece(w) = w \o pad
    BY <1>2 DEF Verdict!Piece
  <2> HIDE DEF m
  <2>3. pad \in Seq(Char) /\ Len(pad) = m /\ \A i \in 1..m : pad[i] = "nul"
    <3>1. pad \in [1..m -> Char]
      BY <1>1
    <3>2. pad \in Seq(Char)
      BY <2>1, <3>1
    <3> QED
      BY <2>1, <3>2
  <2> HIDE DEF pad
  <2>4. /\ w \o pad \in Seq(Char) /\ Len(w \o pad) = Len(w) + Len(pad)
        /\ \A i \in 1 .. Len(w) : (w \o pad)[i] = w[i]
        /\ \A i \in 1 .. Len(pad) : (w \o pad)[Len(w) + i] = pad[i]
    <3>1. pad \in Seq(Char)
      BY <2>3
    <3> QED
      BY <1>1, <3>1, Joined
  <2>5. ASSUME NEW i \in 1 .. MAX_PASSWORD, i > Len(w) PROVE (w \o pad)[i] = "nul"
    <3>1. i - Len(w) \in 1..m /\ Len(w) + (i - Len(w)) = i
      BY <1>1, <2>1, <2>5
    <3> QED
      BY <2>3, <2>4, <3>1
  <2> QED
    BY <1>2, <2>1, <2>2, <2>3, <2>4, <2>5
<1>3. CASE writer # "chunks"
  <2>1. Verdict!Piece(w) = Append(w, "newline")
    BY <1>3 DEF Verdict!Piece
  <2> QED
    BY <1>1, <1>3, <2>1, AppendProperties
<1> QED
  BY <1>2, <1>3

(* The string that is read back. *)
LEMMA CutPiece ==
  ASSUME NEW w, IsWord(w), MAX_PASSWORD \in Nat \ {0}, Len(w) <= MAX_PASSWORD, writer \in {"chunks", "terminal"}
  PROVE  Verdict!Cut(Verdict!Piece(w)) = w
<1> DEFINE s == Verdict!Piece(w)
           end == IF writer = "chunks" THEN "nul" ELSE "newline"
           ends == {i \in DOMAIN s : s[i] \in {"nul", "newline"}}
           n == Len(w)
<1>1. w \in Seq(Char) /\ n \in Nat /\ \A i \in 1..n : w[i] \notin {"nul", "newline"}
  BY DEF IsWord
<1>2. /\ s \in Seq(Char)
      /\ Len(s) = IF writer = "chunks" THEN MAX_PASSWORD ELSE n + 1
      /\ \A i \in 1..n : s[i] = w[i]
      /\ \A i \in 1 .. Len(s) : i > n => s[i] = end
  BY PieceIs
<1>3. end \in {"nul", "newline"} /\ Len(s) \in Nat /\ DOMAIN s = 1 .. Len(s) /\ n <= Len(s)
  BY <1>1, <1>2
<1> HIDE DEF s, n, end
<1>4. SubSeq(s, 1, n) = w
  <2>1. 1 \in Nat /\ 1 <= 1 /\ 1 <= n + 1 /\ n <= Len(s)
    BY <1>1, <1>3
  <2>2. /\ SubSeq(s, 1, n) \in Seq(Char) /\ Len(SubSeq(s, 1, n)) = n + 1 - 1
        /\ \A i \in 1 .. n + 1 - 1 : SubSeq(s, 1, n)[i] = s[1 + i - 1]
    BY <1>1, <1>2, <2>1, Part
  <2> DEFINE part == SubSeq(s, 1, n)
  <2>3. part \in Seq(Char) /\ Len(part) = Len(w) /\ \A i \in 1 .. Len(w) : part[i] = w[i]
    BY <1>1, <1>2, <2>2 DEF n
  <2> HIDE DEF part
  <2>4. part = w
    BY <1>1, <2>3, SeqEqual
  <2> QED
    BY <2>4 DEF part
<1>5. CASE Len(s) = n
  <2>1. ends = {}
    BY <1>1, <1>2, <1>3, <1>5
  <2>2. SubSeq(s, 1, Len(s)) = s
    BY <1>2, SubSeqFull
  <2> QED
    BY <1>4, <1>5, <2>1, <2>2 DEF Verdict!Cut, s
<1>6. CASE Len(s) # n
  <2> DEFINE m == n + 1
  <2>1. m \in Nat /\ m \in ends /\ ends \subseteq Nat /\ \A i \in ends : m <= i
    BY <1>1, <1>2, <1>3, <1>6
  <2> HIDE DEF m, ends
  <2>2. Verdict!Min(ends) = m
    <3>1. Least(ends) = m
      BY <2>1, LeastIs
    <3> QED
      BY <3>1 DEF Least, Verdict!Min
  <2>3. ends # {} /\ m - 1 = n
    BY <1>1, <2>1 DEF m
  <2> QED
    BY <1>4, <2>2, <2>3 DEF Verdict!Cut, s, ends
<1> QED
  BY <1>5, <1>6

(* One read takes what is written for one word, and leaves the rest.       *)
LEMMA PieceTaken ==
  ASSUME NEW w, IsWord(w), MAX_PASSWORD \in Nat \ {0},
         \/ writer = "chunks" /\ Len(w) <= MAX_PASSWORD
         \/ writer = "terminal" /\ Len(w) < MAX_PASSWORD,
         NEW rest \in Seq(Char), stdin = Verdict!Piece(w) \o rest
  PROVE  /\ Verdict!Cut(SubSeq(stdin, 1, Verdict!Taken)) = w
         /\ SubSeq(stdin, Verdict!Taken + 1, Len(stdin)) = rest
<1> DEFINE s == Verdict!Piece(w)
           n == Len(s)
<1>1. /\ w \in Seq(Char) /\ Len(w) \in Nat /\ Len(w) <= MAX_PASSWORD /\ writer \in {"chunks", "terminal"}
      /\ \A i \in 1 .. Len(w) : w[i] # "newline"
  BY DEF IsWord
<1>2. /\ s \in Seq(Char)
      /\ Len(s) = IF writer = "chunks" THEN MAX_PASSWORD ELSE Len(w) + 1
      /\ \A i \in 1 .. Len(w) : s[i] = w[i]
      /\ \A i \in 1 .. Len(s) : i > Len(w) => s[i] = IF writer = "chunks" THEN "nul" ELSE "newline"
  BY <1>1, PieceIs
<1>3. n \in Nat /\ Verdict!Cut(s) = w
  BY <1>1, <1>2, CutPiece
<1> HIDE DEF s
<1>4. /\ stdin \in Seq(Char) /\ Len(stdin) = n + Len(rest) /\ Len(rest) \in Nat
      /\ \A i \in 1..n : stdin[i] = s[i]
  <2>1. stdin = s \o rest
    BY DEF s
  <2>2. s \in Seq(Char)
    BY <1>2
  <2> QED
    BY <2>1, <2>2, Joined
<1>5. Verdict!Taken = n
  <2> DEFINE newlines == {i \in DOMAIN stdin : stdin[i] = "newline"}
             stops == {MAX_PASSWORD, Len(stdin)} \cup IF writer = "terminal" THEN newlines ELSE {}
  <2>1. DOMAIN stdin = 1 .. Len(stdin) /\ Len(stdin) \in Nat
    BY <1>4
  <2>2. stops \subseteq Nat
    BY <2>1
  <2>3. n \in stops /\ \A i \in stops : n <= i
    <3>1. CASE writer = "chunks"
      BY <1>2, <1>3, <1>4, <3>1
    <3>2. CASE writer = "terminal"
      <4>1. n = Len(w) + 1 /\ n <= MAX_PASSWORD /\ n \in 1..n
        BY <1>1, <1>2, <3>2
      <4>2. stdin[n] = "newline" /\ \A i \in 1 .. Len(w) : stdin[i] # "newline"
        <5>1. s[n] = "newline"
          BY <1>1, <1>2, <3>2, <4>1
        <5>2. \A i \in 1 .. Len(w) : i \in 1..n /\ s[i] # "newline"
          BY <1>1, <1>2, <4>1
        <5> QED
          BY <1>4, <4>1, <5>1, <5>2
      <4>3. n \in newlines
        BY <1>3, <1>4, <2>1, <4>1, <4>2
      <4>4. ASSUME NEW i \in newlines PROVE n <= i
        <5>1. i \in Nat /\ i \notin 1 .. Len(w) /\ i > 0
          BY <2>1, <4>2
        <5> QED
          BY <1>1, <4>1, <5>1
      <4> HIDE DEF newlines
      <4> QED
        BY <1>3, <1>4, <3>2, <4>1, <4>3, <4>4
    <3> QED
      BY <1>1, <3>1, <3>2
  <2> HIDE DEF stops
  <2>4. Verdict!Min(stops) = n
    BY <1>3, <2>2, <2>3, LeastIs DEF Least, Verdict!Min
  <2> QED
    BY <2>4 DEF Verdict!Taken, stops
<1>6. SubSeq(s \o rest, 1, n) = s /\ SubSeq(s \o rest, n + 1, Len(s \o rest)) = rest
  <2>1. s \in Seq(Char) /\ n = Len(s)
    BY <1>2
  <2> HIDE DEF n
  <2> QED
    BY <1>3, <2>1, TakeApart
<1> QED
  BY <1>3, <1>5, <1>6 DEF s

(* The line that decides, if there is one, is the user's. *)
LEMMA LookupRight ==
  ASSUME \A w \in Words : IsWord(w), Verdict!WellFormed, DOMAIN pass_txt \subseteq Nat,
         asked[1] \in Words, asked[2] \in Words, userid = asked[1], typed = asked[2], Verdict!Lookup
  PROVE  place' = Verdict!Expected
<1> DEFINE u == asked[1]
           p == asked[2]
           hits == {i \in DOMAIN pass_txt : Verdict!Matches(pass_txt[i]) \/ Verdict!SameUser(pass_txt[i])}
<1>1. place' = IF hits = {} THEN "exit3" ELSE IF Verdict!Matches(pass_txt[Verdict!Min(hits)]) THEN "exit0" ELSE "exit2"
  BY DEF Verdict!Lookup
<1>2. ASSUME NEW i \in DOMAIN pass_txt, NEW a \in Words, NEW b \in Words, pass_txt[i] = Verdict!Entry(a, b)
      PROVE  /\ Verdict!Matches(pass_txt[i]) <=> a = u /\ b = p
             /\ Verdict!SameUser(pass_txt[i]) <=> a = u
  <2>1. Verdict!Front(pass_txt[i]) = Pair(a, b)
    BY <1>2, EntryIs DEF IsWord
  <2>2. Pair(a, b) = Pair(u, p) <=> a = u /\ b = p
    <3>1. IsWord(u) /\ IsWord(a) /\ b \in Seq(Char) /\ p \in Seq(Char)
      BY DEF IsWord
    <3> QED
      BY <3>1, PairsDiffer
  <2>4. Pair(u, p) = Append(u, "colon") \o p
    <3>1. u \in Seq(Char) /\ p \in Seq(Char)
      BY DEF IsWord
    <3> HIDE DEF u, p
    <3> QED
      BY <3>1, PairIs
  <2>3. Verdict!IsPrefix(Append(u, "colon"), Pair(a, b)) <=> a = u
    BY UserBegins DEF IsWord
  <2> QED
    BY <2>1, <2>2, <2>3, <2>4 DEF Verdict!Matches, Verdict!SameUser, Verdict!Compared
<1>3. \A i \in DOMAIN pass_txt : \E a, b \in Words : pass_txt[i] = Verdict!Entry(a, b)
  BY DEF Verdict!WellFormed
<1>4. ASSUME NEW i \in hits, NEW j \in hits PROVE i = j
  <2>1. PICK a, b \in Words :
          /\ pass_txt[i] = Verdict!Entry(a, b)
          /\ \A k \in DOMAIN pass_txt : (\E q \in Words : pass_txt[k] = Verdict!Entry(a, q)) => i = k
    BY DEF Verdict!WellFormed
  <2>2. PICK c, d \in Words : pass_txt[j] = Verdict!Entry(c, d)
    BY <1>3
  <2>3. a = u
    <3>1. Verdict!Matches(pass_txt[i]) \/ Verdict!SameUser(pass_txt[i])
      OBVIOUS
    <3> QED
      BY <1>2, <2>1, <3>1
  <2>4. c = u
    <3>1. Verdict!Matches(pass_txt[j]) \/ Verdict!SameUser(pass_txt[j])
      OBVIOUS
    <3> QED
      BY <1>2, <2>2, <3>1
  <2> QED
    BY <2>1, <2>2, <2>3, <2>4
<1>5. CASE \E b \in Words : \E i \in DOMAIN pass_txt : pass_txt[i] = Verdict!Entry(u, b)
  <2>1. PICK b \in Words, i \in DOMAIN pass_txt : pass_txt[i] = Verdict!Entry(u, b)
    BY <1>5
  <2>2. i \in hits
    BY <1>2, <2>1
  <2>3. Verdict!Min(hits) = i
    <3>1. hits \subseteq Nat /\ i \in Nat
      OBVIOUS
    <3>2. \A j \in hits : i <= j
      BY <1>4, <2>2, <3>1
    <3> HIDE DEF hits
    <3>3. Least(hits) = i
      BY <2>2, <3>1, <3>2, LeastIs
    <3> QED
      BY <3>3 DEF Least, Verdict!Min
  <2>4. place' = IF b = p THEN "exit0" ELSE "exit2"
    <3>1. Verdict!Matches(pass_txt[i]) <=> b = p
      BY <1>2, <2>1
    <3>2. hits # {}
      BY <2>2
    <3> HIDE DEF hits
    <3> QED
      BY <1>1, <2>3, <3>1, <3>2
  <2>5. Verdict!Entry(u, b) \in Verdict!Range(pass_txt)
    BY <2>1 DEF Verdict!Range
  <2>6. u \in Verdict!Users
    BY <2>5 DEF Verdict!Users
  <2>7. ASSUME Verdict!Entry(u, p) \in Verdict!Range(pass_txt) PROVE b = p
    <3>1. PICK j \in DOMAIN pass_txt : pass_txt[j] = Verdict!Entry(u, p)
      BY <2>7 DEF Verdict!Range
    <3>2. j \in hits /\ Verdict!Matches(pass_txt[j])
      BY <1>2, <3>1
    <3>3. j = i
      BY <1>4, <2>2, <3>2
    <3> QED
      BY <1>2, <2>1, <3>2, <3>3
  <2> HIDE DEF hits
  <2> QED
    BY <2>4, <2>5, <2>6, <2>7 DEF Verdict!Expected
<1>6. CASE ~ \E b \in Words : \E i \in DOMAIN pass_txt : pass_txt[i] = Verdict!Entry(u, b)
  <2>1. hits = {}
    <3> SUFFICES ASSUME NEW i \in hits PROVE FALSE
      OBVIOUS
    <3>1. PICK a, b \in Words : pass_txt[i] = Verdict!Entry(a, b)
      BY <1>3
    <3>2. Verdict!Matches(pass_txt[i]) \/ Verdict!SameUser(pass_txt[i])
      OBVIOUS
    <3>3. a = u
      BY <1>2, <3>1, <3>2
    <3> QED
      BY <1>6, <3>1, <3>3
  <2>2. Verdict!Entry(u, p) \notin Verdict!Range(pass_txt) /\ u \notin Verdict!Users
    BY <1>6 DEF Verdict!Range, Verdict!Users
  <2> HIDE DEF hits
  <2> QED
    BY <1>1, <2>1, <2>2 DEF Verdict!Expected
<1> QED
  BY <1>5, <1>6

(* Whose writes the comment of validate.c speaks of. *)
WritesRight ==
  \/ writer = "chunks"
  \/ writer = "terminal" /\ Len(asked[1]) < MAX_PASSWORD /\ Len(asked[2]) < MAX_PASSWORD

(***************************************************************************)
(* What is unread is whole pieces, those of the words that were written    *)
(* and not yet read; and each read got its word.                           *)
(***************************************************************************)
NothingRead ==
  \/ unwritten = <<asked[1], asked[2]>> /\ stdin = << >>
  \/ unwritten = <<asked[2]>> /\ stdin = Verdict!Piece(asked[1])
  \/ unwritten = << >> /\ stdin = Verdict!Piece(asked[1]) \o Verdict!Piece(asked[2])

UserRead ==
  /\ userid = asked[1]
  /\ \/ unwritten = <<asked[2]>> /\ stdin = << >>
     \/ unwritten = << >> /\ stdin = Verdict!Piece(asked[2])

BothRead == userid = asked[1] /\ typed = asked[2] /\ unwritten = << >>

VerdictInv ==
  /\ asked \in Words \X Words
  /\ pass_txt \in PasswordFiles
  /\ place \in {"user", "password", "lookup", "exit0", "exit1", "exit2", "exit3"}
  /\ call_failed => place = "exit1"
  /\ WritesRight =>
       /\ place = "exit1" => call_failed
       /\ place = "user" => NothingRead
       /\ place = "password" => UserRead
       /\ place = "lookup" => BothRead
       /\ place \in {"exit0", "exit2", "exit3"} => BothRead /\ (Verdict!WellFormed => place = Verdict!Expected)

LEMMA VerdictStep ==
  /\ Verdict!Init => VerdictInv
  /\ VerdictInv /\ [Verdict!Next]_(Verdict!vars) => VerdictInv'
<1> DEFINE u == asked[1]
           p == asked[2]
<1>0. MAX_PASSWORD \in Nat \ {0} /\ \A w \in Words : IsWord(w) /\ Len(w) <= MAX_PASSWORD
  <2>1. \A w \in Words : w \in Seq(Char)
    BY ValidateAssumption, Chars
  <2> QED
    BY <2>1, ValidateAssumption DEF IsWord
<1>1. ASSUME Verdict!Init PROVE VerdictInv
  <2>1. asked = <<asked[1], asked[2]>> /\ asked[1] \in Words /\ asked[2] \in Words
    BY <1>1 DEF Verdict!Init
  <2> QED
    BY <1>1, <2>1 DEF Verdict!Init, VerdictInv, NothingRead
<1>2. ASSUME VerdictInv, [Verdict!Next]_(Verdict!vars) PROVE VerdictInv'
  <2>1. asked' = asked /\ writer' = writer /\ pass_txt' = pass_txt
    BY <1>2 DEF Verdict!Next, Verdict!vars, Verdict!Write, Verdict!Read, Verdict!ReadEnd, Verdict!Fails,
         Verdict!Lookup, Verdict!input
  <2>2. /\ WritesRight' = WritesRight /\ Verdict!WellFormed' = Verdict!WellFormed
        /\ Verdict!Expected' = Verdict!Expected
        /\ Verdict!Piece(u)' = Verdict!Piece(u) /\ Verdict!Piece(p)' = Verdict!Piece(p)
    BY <2>1 DEF WritesRight, Verdict!WellFormed, Verdict!Expected, Verdict!Users, Verdict!Range, Verdict!Piece,
         Verdict!Entry
  <2>3. u \in Words /\ p \in Words /\ IsWord(u) /\ IsWord(p) /\ pass_txt \in PasswordFiles
    BY <1>0, <1>2 DEF VerdictInv
  <2>4. ASSUME WritesRight
        PROVE  /\ Verdict!Piece(u) \in Seq(Char) /\ Verdict!Piece(u) # << >>
               /\ Verdict!Piece(p) \in Seq(Char) /\ Verdict!Piece(p) # << >>
    <3>1. writer \in {"chunks", "terminal"}
      BY <2>4 DEF WritesRight
    <3>2. ASSUME NEW w \in Words PROVE Verdict!Piece(w) \in Seq(Char) /\ Verdict!Piece(w) # << >>
      <4>1. /\ Verdict!Piece(w) \in Seq(Char)
            /\ Len(Verdict!Piece(w)) = IF writer = "chunks" THEN MAX_PASSWORD ELSE Len(w) + 1
        BY <1>0, <3>1, PieceIs
      <4>2. Len(w) \in Nat
        BY <1>0 DEF IsWord
      <4>3. Len(Verdict!Piece(w)) # 0
        BY <1>0, <4>1, <4>2
      <4> QED
        BY <4>1, <4>3
    <3> QED
      BY <2>3, <3>2
  <2>5. ASSUME WritesRight, NEW w \in {u, p}, NEW rest \in Seq(Char), stdin = Verdict!Piece(w) \o rest
        PROVE  /\ Verdict!Cut(SubSeq(stdin, 1, Verdict!Taken)) = w
               /\ SubSeq(stdin, Verdict!Taken + 1, Len(stdin)) = rest
    BY <1>0, <2>3, <2>5, PieceTaken DEF WritesRight
  <2>6. CASE Verdict!Write
    <3>1. /\ unwritten # << >> /\ stdin' = stdin \o Verdict!Piece(Head(unwritten)) /\ unwritten' = Tail(unwritten)
          /\ UNCHANGED <<userid, typed, call_failed, place>>
      BY <2>6 DEF Verdict!Write
    <3>2. ASSUME WritesRight, place = "user" PROVE NothingRead'
      <4>1. NothingRead
        BY <1>2, <3>2 DEF VerdictInv
      <4>2. CASE unwritten = <<u, p>> /\ stdin = << >>
        <5>1. unwritten' = <<p>> /\ stdin' = << >> \o Verdict!Piece(u)
          BY <3>1, <4>2
        <5>2. stdin' = Verdict!Piece(u)
          BY <2>4, <3>2, <5>1, ConcatEmptySeq
        <5> QED
          BY <2>1, <2>2, <5>1, <5>2 DEF NothingRead
      <4>3. CASE unwritten = <<p>> /\ stdin = Verdict!Piece(u)
        <5>1. unwritten' = << >> /\ stdin' = Verdict!Piece(u) \o Verdict!Piece(p)
          BY <3>1, <4>3
        <5> QED
          BY <2>1, <2>2, <5>1 DEF NothingRead
      <4> QED
        BY <3>1, <4>1, <4>2, <4>3 DEF NothingRead
    <3>3. ASSUME WritesRight, place = "password" PROVE UserRead'
      <4>1. userid = u /\ unwritten = <<p>> /\ stdin = << >>
        BY <1>2, <3>1, <3>3 DEF VerdictInv, UserRead
      <4>2. unwritten' = << >> /\ stdin' = << >> \o Verdict!Piece(p)
        BY <3>1, <4>1
      <4>3. stdin' = Verdict!Piece(p)
        BY <2>4, <3>3, <4>2, ConcatEmptySeq
      <4> QED
        BY <2>1, <2>2, <3>1, <4>1, <4>2, <4>3 DEF UserRead
    <3>4. WritesRight => place \notin {"lookup", "exit0", "exit2", "exit3"}
      BY <1>2, <3>1 DEF VerdictInv, BothRead
    <3> QED
      BY <1>2, <2>1, <2>2, <3>1, <3>2, <3>3, <3>4 DEF VerdictInv
  <2>7. CASE Verdict!Read
    <3>1. /\ stdin # << >> /\ unwritten' = unwritten /\ call_failed' = call_failed
          /\ stdin' = SubSeq(stdin, Verdict!Taken + 1, Len(stdin))
          /\ \/ /\ place = "user" /\ userid' = Verdict!Cut(SubSeq(stdin, 1, Verdict!Taken))
                /\ place' = "password" /\ typed' = typed
             \/ /\ place = "password" /\ typed' = Verdict!Cut(SubSeq(stdin, 1, Verdict!Taken))
                /\ place' = "lookup" /\ userid' = userid
      BY <2>7 DEF Verdict!Read
    <3>2. ASSUME WritesRight, place = "user" PROVE UserRead'
      <4>1. NothingRead
        BY <1>2, <3>2 DEF VerdictInv
      <4>2. CASE unwritten = <<p>> /\ stdin = Verdict!Piece(u)
        <5>1. stdin = Verdict!Piece(u) \o << >> /\ << >> \in Seq(Char)
          BY <2>4, <3>2, <4>2, ConcatEmptySeq
        <5>2. userid' = u /\ stdin' = << >>
          BY <2>5, <3>1, <3>2, <5>1
        <5> QED
          BY <2>1, <3>1, <4>2, <5>2 DEF UserRead
      <4>3. CASE unwritten = << >> /\ stdin = Verdict!Piece(u) \o Verdict!Piece(p)
        <5>1. userid' = u /\ stdin' = Verdict!Piece(p)
          BY <2>4, <2>5, <3>1, <3>2, <4>3
        <5> QED
          BY <2>1, <2>2, <3>1, <4>3, <5>1 DEF UserRead
      <4> QED
        BY <3>1, <4>1, <4>2, <4>3 DEF NothingRead
    <3>3. ASSUME WritesRight, place = "password" PROVE BothRead'
      <4>1. userid = u /\ unwritten = << >> /\ stdin = Verdict!Piece(p)
        BY <1>2, <3>1, <3>3 DEF VerdictInv, UserRead
      <4>2. stdin = Verdict!Piece(p) \o << >> /\ << >> \in Seq(Char)
        BY <2>4, <3>3, <4>1, ConcatEmptySeq
      <4>3. typed' = p
        BY <2>5, <3>1, <3>3, <4>2
      <4> QED
        BY <2>1, <3>1, <3>3, <4>1, <4>3 DEF BothRead
    <3> QED
      BY <1>2, <2>1, <2>2, <3>1, <3>2, <3>3 DEF VerdictInv
  <2>8. CASE Verdict!ReadEnd
    <3>1. place \in {"user", "password"} /\ stdin = << >> /\ unwritten = << >> /\ place' = "exit1"
      BY <2>8 DEF Verdict!ReadEnd
    <3>2. ~WritesRight
      <4> SUFFICES ASSUME WritesRight PROVE FALSE
        OBVIOUS
      <4>1. Verdict!Piece(u) # << >> /\ Verdict!Piece(p) # << >> /\ Verdict!Piece(u) \o Verdict!Piece(p) # << >>
        BY <2>4, ConcatEqualIffEmpty
      <4> QED
        BY <1>2, <3>1, <4>1 DEF VerdictInv, NothingRead, UserRead
    <3> QED
      BY <1>2, <2>1, <2>2, <2>8, <3>1, <3>2 DEF VerdictInv, Verdict!ReadEnd
  <2>9. CASE Verdict!Fails
    BY <1>2, <2>1, <2>2, <2>9 DEF VerdictInv, Verdict!Fails
  <2>10. CASE Verdict!Lookup
    <3>1. /\ place = "lookup" /\ place' \in {"exit0", "exit2", "exit3"}
          /\ UNCHANGED <<unwritten, stdin, userid, typed, call_failed>>
      BY <2>10 DEF Verdict!Lookup
    <3>2. ASSUME WritesRight, Verdict!WellFormed PROVE place' = Verdict!Expected
      <4>1. BothRead
        BY <1>2, <3>1, <3>2 DEF VerdictInv
      <4>2. DOMAIN pass_txt \subseteq Nat
        BY <2>3, ValidateAssumption
      <4> QED
        BY <1>0, <2>3, <2>10, <3>2, <4>1, <4>2, LookupRight DEF BothRead
    <3>3. WritesRight => BothRead'
      BY <1>2, <2>1, <3>1 DEF VerdictInv, BothRead
    <3> QED
      BY <1>2, <2>1, <2>2, <3>1, <3>2, <3>3 DEF VerdictInv
  <2>11. CASE UNCHANGED Verdict!vars
    <3>1. UNCHANGED <<unwritten, stdin, userid, typed, call_failed, place>>
      BY <2>11 DEF Verdict!vars
    <3>2. NothingRead' = NothingRead /\ UserRead' = UserRead /\ BothRead' = BothRead
      BY <2>1, <2>2, <3>1 DEF NothingRead, UserRead, BothRead
    <3> QED
      BY <1>2, <2>1, <2>2, <3>1, <3>2 DEF VerdictInv
  <2> QED
    BY <1>2, <2>6, <2>7, <2>8, <2>9, <2>10, <2>11 DEF Verdict!Next
<1> QED
  BY <1>1, <1>2

LEMMA ValidateRuns ==
  /\ ProgramsInit /\ program = "validate" => Verdict!Init
  /\ program = "validate" /\ [ProgramsNext]_program_vars => [Verdict!Next]_(Verdict!vars)
<1>1. ProgramsInit /\ program = "validate" => Verdict!Init
  BY DEF ProgramsInit
<1>2. program = "validate" /\ [ProgramsNext]_program_vars => [Verdict!Next]_(Verdict!vars)
  BY DEF ProgramsNext, Runs, WcRuns, WcFails, ForksStep, TimeReadsMain, TimeReadsTimer, TimeReadsStep,
         ValidateStep, ChatClientStep, ListSumStep, Wc, program_vars, validate_vars, Verdict!vars
<1> QED
  BY <1>1, <1>2

(***************************************************************************)
(* VerdictRight: for any file, words and limit, validate exits with the    *)
(* status its comment names, however the writes of the two words and the   *)
(* two reads interleave, as long as a line from a terminal fits one read.  *)
(***************************************************************************)
THEOREM VerdictRightHolds == ProgramsSpec => []VerdictRight
<1> DEFINE Inv == program = "validate" => VerdictInv
<1>1. ProgramsInit => Inv
  BY ValidateRuns, VerdictStep
<1>2. Inv /\ [ProgramsNext]_program_vars => Inv'
  BY ProgramStays, ValidateRuns, VerdictStep
<1>3. VerdictInv => Verdict!VerdictRight
  <2> SUFFICES ASSUME VerdictInv, Verdict!WellFormed,
                      \/ writer = "chunks"
                      \/ writer = "terminal" /\ \A w \in Verdict!Range(asked) : Len(w) < MAX_PASSWORD,
                      place \in {"exit0", "exit1", "exit2", "exit3"}
               PROVE  place = IF call_failed THEN "exit1" ELSE Verdict!Expected
    BY DEF Verdict!VerdictRight
  <2>1. asked[1] \in Verdict!Range(asked) /\ asked[2] \in Verdict!Range(asked)
    BY DEF VerdictInv, Verdict!Range
  <2>2. WritesRight
    BY <2>1 DEF WritesRight
  <2> QED
    BY <2>2 DEF VerdictInv
<1>4. Inv => VerdictRight
  BY <1>3 DEF VerdictRight
<1> QED
  BY <1>1, <1>2, <1>4, PTL DEF ProgramsSpec

-----------------------------------------------------------------------------
(***************************************************************************)
(* The fork exercises.  What all processes will still show of a line is    *)
(* the sum over the bag of processes of what each will show, and a step    *)
(* only moves it: a fork divides it, a print moves it to the buffer or to  *)
(* what is shown, an exit writes the buffer.                               *)
(***************************************************************************)

(* The bags of elements of P. *)
BagsOf(P) == UNION {[S -> Nat \ {0}] : S \in SUBSET P}

LEMMA BagIs ==
  ASSUME NEW P, NEW B
  PROVE  B \in BagsOf(P) <=> B \in [DOMAIN B -> Nat \ {0}] /\ DOMAIN B \subseteq P
BY DEF BagsOf

LEMMA EmptyIs ==
  ASSUME NEW P
  PROVE  Forks!EmptyBag \in BagsOf(P) /\ DOMAIN Forks!EmptyBag = {}
<1>1. Forks!EmptyBag \in [{} -> Nat \ {0}] /\ DOMAIN Forks!EmptyBag = {}
  BY DEF Forks!EmptyBag, Forks!SetToBag
<1> QED
  BY <1>1 DEF BagsOf

(* C is B with a q more, or with a q less. *)
IsMore(C, B, q) ==
  /\ DOMAIN C = DOMAIN B \cup {q}
  /\ q \in DOMAIN B => C[q] = B[q] + 1
  /\ q \notin DOMAIN B => C[q] = 1
  /\ \A p \in DOMAIN B : p # q => C[p] = B[p]

IsLess(C, B, q) ==
  /\ B[q] = 1 => DOMAIN C = DOMAIN B \ {q}
  /\ B[q] # 1 => DOMAIN C = DOMAIN B /\ C[q] = B[q] - 1
  /\ \A p \in DOMAIN B : p # q => C[p] = B[p]

LEMMA Added ==
  ASSUME NEW P, NEW B \in BagsOf(P), NEW q \in P
  PROVE  Forks!BagAdd(B, q) \in BagsOf(P) /\ IsMore(Forks!BagAdd(B, q), B, q)
<1>1. B \in [DOMAIN B -> Nat \ {0}] /\ DOMAIN B \subseteq P
  BY BagIs
<1>2. CASE q \in DOMAIN B
  <2> DEFINE C == [e \in DOMAIN B |-> IF e = q THEN B[e] + 1 ELSE B[e]]
  <2>1. Forks!BagAdd(B, q) = C
    BY <1>2 DEF Forks!BagAdd
  <2>2. C \in [DOMAIN B -> Nat \ {0}] /\ DOMAIN C = DOMAIN B
    BY <1>1
  <2>3. C \in BagsOf(P)
    BY <1>1, <2>2, BagIs
  <2> QED
    BY <1>1, <1>2, <2>1, <2>2, <2>3 DEF IsMore
<1>3. CASE q \notin DOMAIN B
  <2> DEFINE C == [e \in DOMAIN B \cup {q} |-> IF e = q THEN 1 ELSE B[e]]
  <2>1. Forks!BagAdd(B, q) = C
    BY <1>3 DEF Forks!BagAdd
  <2>2. C \in [DOMAIN B \cup {q} -> Nat \ {0}] /\ DOMAIN C = DOMAIN B \cup {q}
    BY <1>1
  <2>3. C \in BagsOf(P)
    BY <1>1, <2>2, BagIs
  <2> QED
    BY <1>1, <1>3, <2>1, <2>2, <2>3 DEF IsMore
<1> QED
  BY <1>2, <1>3

LEMMA Removed ==
  ASSUME NEW P, NEW B \in BagsOf(P), NEW q \in DOMAIN B
  PROVE  Forks!BagRemove(B, q) \in BagsOf(P) /\ IsLess(Forks!BagRemove(B, q), B, q)
<1>1. B \in [DOMAIN B -> Nat \ {0}] /\ DOMAIN B \subseteq P
  BY BagIs
<1>2. CASE B[q] = 1
  <2> DEFINE C == [e \in DOMAIN B \ {q} |-> B[e]]
  <2>1. Forks!BagRemove(B, q) = C
    BY <1>2 DEF Forks!BagRemove
  <2>2. C \in [DOMAIN B \ {q} -> Nat \ {0}] /\ DOMAIN C = DOMAIN B \ {q}
    BY <1>1
  <2>3. C \in BagsOf(P)
    BY <1>1, <2>2, BagIs
  <2> QED
    BY <1>1, <1>2, <2>1, <2>2, <2>3 DEF IsLess
<1>3. CASE B[q] # 1
  <2> DEFINE C == [e \in DOMAIN B |-> IF e = q THEN B[e] - 1 ELSE B[e]]
  <2>1. Forks!BagRemove(B, q) = C
    BY <1>3 DEF Forks!BagRemove
  <2>2. C \in [DOMAIN B -> Nat \ {0}] /\ DOMAIN C = DOMAIN B
    BY <1>1, <1>3
  <2>3. C \in BagsOf(P)
    BY <1>1, <2>2, BagIs
  <2> QED
    BY <1>1, <1>3, <2>1, <2>2, <2>3 DEF IsLess
<1> QED
  BY <1>2, <1>3

LEMMA SameBag ==
  ASSUME NEW P, NEW B \in BagsOf(P), NEW C \in BagsOf(P), DOMAIN B = DOMAIN C, \A e \in DOMAIN B : B[e] = C[e]
  PROVE  B = C
<1>1. B \in [DOMAIN B -> Nat \ {0}] /\ C \in [DOMAIN C -> Nat \ {0}]
  BY BagIs
<1> QED
  BY <1>1

LEMMA AddRemove ==
  ASSUME NEW P, NEW B \in BagsOf(P), NEW q \in P
  PROVE  Forks!BagRemove(Forks!BagAdd(B, q), q) = B
<1> DEFINE C == Forks!BagAdd(B, q)
           D == Forks!BagRemove(C, q)
<1>0. B \in [DOMAIN B -> Nat \ {0}] /\ DOMAIN B \subseteq P
  BY BagIs
<1>1. C \in BagsOf(P) /\ IsMore(C, B, q)
  BY Added
<1> HIDE DEF C
<1>2. q \in DOMAIN C
  BY <1>1 DEF IsMore
<1>3. D \in BagsOf(P) /\ IsLess(D, C, q)
  BY <1>1, <1>2, Removed
<1> HIDE DEF D
<1>4. DOMAIN D = DOMAIN B
  BY <1>0, <1>1, <1>3 DEF IsMore, IsLess
<1>5. \A p \in DOMAIN D : D[p] = B[p]
  BY <1>0, <1>1, <1>3, <1>4 DEF IsMore, IsLess
<1>6. D = B
  BY <1>3, <1>4, <1>5, SameBag
<1> QED
  BY <1>6 DEF C, D

LEMMA AddRemoveOther ==
  ASSUME NEW P, NEW B \in BagsOf(P), NEW q \in P, NEW p \in DOMAIN B, p # q
  PROVE  Forks!BagRemove(Forks!BagAdd(B, q), p) = Forks!BagAdd(Forks!BagRemove(B, p), q)
<1> DEFINE C == Forks!BagAdd(B, q)
           D == Forks!BagRemove(C, p)
           E == Forks!BagRemove(B, p)
           F == Forks!BagAdd(E, q)
<1>0. B \in [DOMAIN B -> Nat \ {0}] /\ DOMAIN B \subseteq P
  BY BagIs
<1>1. C \in BagsOf(P) /\ IsMore(C, B, q)
  BY Added
<1>2. E \in BagsOf(P) /\ IsLess(E, B, p)
  BY Removed
<1> HIDE DEF C, E
<1>3. D \in BagsOf(P) /\ IsLess(D, C, p)
  <2>1. p \in DOMAIN C
    BY <1>1 DEF IsMore
  <2> QED
    BY <1>1, <2>1, Removed
<1>4. F \in BagsOf(P) /\ IsMore(F, E, q)
  BY <1>2, Added
<1> HIDE DEF D, F
<1>5. C[p] = B[p]
  BY <1>1 DEF IsMore
<1>6. DOMAIN D = DOMAIN F
  BY <1>0, <1>1, <1>2, <1>3, <1>4, <1>5 DEF IsMore, IsLess
<1>7. ASSUME NEW r \in DOMAIN D PROVE D[r] = F[r]
  <2>1. CASE r = p
    BY <1>0, <1>1, <1>2, <1>3, <1>4, <1>5, <2>1 DEF IsMore, IsLess
  <2>2. CASE r = q
    BY <1>0, <1>1, <1>2, <1>3, <1>4, <1>5, <2>2 DEF IsMore, IsLess
  <2>3. CASE r # p /\ r # q
    BY <1>0, <1>1, <1>2, <1>3, <1>4, <1>5, <2>3 DEF IsMore, IsLess
  <2> QED
    BY <2>1, <2>2, <2>3
<1>8. D = F
  BY <1>3, <1>4, <1>6, <1>7, SameBag
<1> QED
  BY <1>8 DEF C, D, E, F

(***************************************************************************)
(* The weight of a bag, w[p] for each p in it: the least relation that     *)
(* gives the empty bag 0 and grows with the bag.                           *)
(***************************************************************************)
IsClosed(R, P, w) ==
  /\ <<Forks!EmptyBag, 0>> \in R
  /\ \A B, t, p : <<B, t>> \in R /\ p \in P => <<Forks!BagAdd(B, p), t + w[p]>> \in R

Weighs(B, t, P, w) == \A R : IsClosed(R, P, w) => <<B, t>> \in R

LEMMA WeightOfNone ==
  ASSUME NEW P, NEW w
  PROVE  Weighs(Forks!EmptyBag, 0, P, w)
BY DEF Weighs, IsClosed

LEMMA WeightOfMore ==
  ASSUME NEW P, NEW w, NEW B, NEW t, NEW p \in P, Weighs(B, t, P, w)
  PROVE  Weighs(Forks!BagAdd(B, p), t + w[p], P, w)
<1> SUFFICES ASSUME NEW R, IsClosed(R, P, w) PROVE <<Forks!BagAdd(B, p), t + w[p]>> \in R
  BY DEF Weighs
<1>1. <<B, t>> \in R
  BY DEF Weighs
<1> QED
  BY <1>1 DEF IsClosed

(* What holds of the empty bag, and goes from a bag to the next, holds of  *)
(* every bag that has a weight.                                            *)
LEMMA Weighed ==
  ASSUME NEW P, NEW w, NEW R, IsClosed(R, P, w), NEW B, NEW t, Weighs(B, t, P, w)
  PROVE  <<B, t>> \in R
BY DEF Weighs

LEMMA WeightType ==
  ASSUME NEW P, NEW w \in [P -> Nat], NEW B, NEW t, Weighs(B, t, P, w)
  PROVE  B \in BagsOf(P) /\ t \in Nat
<1> DEFINE R == BagsOf(P) \X Nat
<1>1. <<Forks!EmptyBag, 0>> \in R
  BY EmptyIs
<1>2. ASSUME NEW C, NEW s, NEW p, <<C, s>> \in R, p \in P PROVE <<Forks!BagAdd(C, p), s + w[p]>> \in R
  <2>1. C \in BagsOf(P) /\ s \in Nat
    BY <1>2
  <2>2. Forks!BagAdd(C, p) \in BagsOf(P)
    BY <1>2, <2>1, Added
  <2>3. s + w[p] \in Nat
    BY <1>2, <2>1
  <2> QED
    BY <2>2, <2>3
<1> HIDE DEF R
<1>3. IsClosed(R, P, w)
  BY <1>1, <1>2 DEF IsClosed
<1>4. <<B, t>> \in R
  BY <1>3, Weighed
<1> QED
  BY <1>4 DEF R

(* Only the empty bag's weight is needed here. *)
LEMMA NoWeight ==
  ASSUME NEW P, NEW w \in [P -> Nat], NEW t, Weighs(Forks!EmptyBag, t, P, w)
  PROVE  t = 0
<1> DEFINE R == {x \in BagsOf(P) \X Nat : x[1] = Forks!EmptyBag => x[2] = 0}
<1>1. <<Forks!EmptyBag, 0>> \in R
  BY EmptyIs
<1>2. ASSUME NEW C, NEW s, NEW p, <<C, s>> \in R, p \in P PROVE <<Forks!BagAdd(C, p), s + w[p]>> \in R
  <2>1. C \in BagsOf(P) /\ s \in Nat
    BY <1>2
  <2>2. Forks!BagAdd(C, p) \in BagsOf(P) /\ IsMore(Forks!BagAdd(C, p), C, p)
    BY <1>2, <2>1, Added
  <2>3. Forks!BagAdd(C, p) # Forks!EmptyBag
    BY <2>2, EmptyIs DEF IsMore
  <2>4. s + w[p] \in Nat
    BY <1>2, <2>1
  <2> QED
    BY <2>2, <2>3, <2>4
<1> HIDE DEF R
<1>3. IsClosed(R, P, w)
  BY <1>1, <1>2 DEF IsClosed
<1>4. <<Forks!EmptyBag, t>> \in R
  BY <1>3, Weighed
<1> QED
  BY <1>4 DEF R

LEMMA WeightOfLess ==
  ASSUME NEW P, NEW w \in [P -> Nat], NEW B, NEW t, Weighs(B, t, P, w), NEW q \in DOMAIN B
  PROVE  \E s \in Nat : Weighs(Forks!BagRemove(B, q), s, P, w) /\ t = s + w[q]
<1> DEFINE Less(C, s) == \A p \in DOMAIN C : \E r \in Nat : Weighs(Forks!BagRemove(C, p), r, P, w) /\ s = r + w[p]
           R == {x \in BagsOf(P) \X Nat : Weighs(x[1], x[2], P, w) /\ Less(x[1], x[2])}
<1>1. <<Forks!EmptyBag, 0>> \in R
  BY EmptyIs, WeightOfNone
<1>2. ASSUME NEW C, NEW s, NEW p, <<C, s>> \in R, p \in P PROVE <<Forks!BagAdd(C, p), s + w[p]>> \in R
  <2> DEFINE D == Forks!BagAdd(C, p)
             u == s + w[p]
  <2>1. C \in BagsOf(P) /\ s \in Nat /\ Weighs(C, s, P, w) /\ Less(C, s)
    BY <1>2
  <2>2. D \in BagsOf(P) /\ IsMore(D, C, p)
    BY <1>2, <2>1, Added
  <2>3. u \in Nat /\ w[p] \in Nat
    BY <1>2, <2>1
  <2>4. Weighs(D, u, P, w)
    BY <1>2, <2>1, WeightOfMore
  <2>5. ASSUME NEW r \in DOMAIN D PROVE \E v \in Nat : Weighs(Forks!BagRemove(D, r), v, P, w) /\ u = v + w[r]
    <3>1. CASE r = p
      <4>1. Forks!BagRemove(D, r) = C
        BY <1>2, <2>1, <3>1, AddRemove
      <4> QED
        BY <2>1, <3>1, <4>1
    <3>2. CASE r # p
      <4>1. r \in DOMAIN C
        BY <2>2, <3>2 DEF IsMore
      <4>2. PICK v \in Nat : Weighs(Forks!BagRemove(C, r), v, P, w) /\ s = v + w[r]
        BY <2>1, <4>1
      <4>3. Forks!BagRemove(D, r) = Forks!BagAdd(Forks!BagRemove(C, r), p)
        BY <1>2, <2>1, <3>2, <4>1, AddRemoveOther
      <4>4. Weighs(Forks!BagRemove(D, r), v + w[p], P, w)
        <5>1. Weighs(Forks!BagAdd(Forks!BagRemove(C, r), p), v + w[p], P, w)
          BY <1>2, <4>2, WeightOfMore
        <5> QED
          BY <4>3, <5>1
      <4>5. v + w[p] \in Nat /\ u = (v + w[p]) + w[r]
        <5>1. w[r] \in Nat
          <6>1. r \in P
            BY <2>1, <4>1, BagIs
          <6> QED
            BY <6>1
        <5> QED
          BY <2>3, <4>2, <5>1
      <4> HIDE DEF u
      <4> QED
        BY <4>4, <4>5
    <3> QED
      BY <3>1, <3>2
  <2> HIDE DEF D, u
  <2> QED
    BY <2>2, <2>3, <2>4, <2>5 DEF D, u
<1> HIDE DEF R
<1>3. IsClosed(R, P, w)
  BY <1>1, <1>2 DEF IsClosed
<1>4. <<B, t>> \in R
  BY <1>3, Weighed
<1> QED
  BY <1>4 DEF R

LEMMA Powers ==
  /\ Forks!PowerOf2[0] = 1
  /\ \A n \in Nat : Forks!PowerOf2[n + 1] = 2 * Forks!PowerOf2[n]
  /\ \A n \in Nat : Forks!PowerOf2[n] \in Nat \ {0}
<1> DEFINE Eq(f) == f = [n \in Nat |-> IF n = 0 THEN 1 ELSE 2 * f[n - 1]]
           Pos == Nat \ {0}
           step == [x \in Pos \X Nat |-> 2 * x[1]]
           power == CHOOSE f : Eq(f)
<1>1. Forks!PowerOf2 = power
  BY Zenon DEF Forks!PowerOf2
<1>2. step \in [Pos \X Nat -> Pos] /\ 1 \in Pos
  OBVIOUS
<1>3. PICK f : IsRecursion(f, Pos, 1, step)
  <2> HIDE DEF step, Pos
  <2> QED
    BY <1>2, IteratesOn
<1>4. Eq(f)
  <2>1. f \in [Nat -> Pos] /\ f[0] = 1 /\ \A k \in Nat \ {0} : f[k] = step[<<f[k-1], k>>]
    <3> HIDE DEF step, Pos
    <3> QED
      BY <1>3 DEF IsRecursion
  <2>2. ASSUME NEW k \in Nat \ {0} PROVE f[k] = 2 * f[k - 1]
    <3>1. <<f[k-1], k>> \in Pos \X Nat
      BY <2>1
    <3> QED
      BY <2>1, <3>1
  <2>3. \A k \in Nat : f[k] = IF k = 0 THEN 1 ELSE 2 * f[k - 1]
    BY <2>1, <2>2
  <2> HIDE DEF step
  <2> QED
    BY <2>1, <2>3
<1>5. Eq(power)
  BY <1>4, Zenon
<1> HIDE DEF power
<1> DEFINE P == {n \in Nat : power[n] \in Nat \ {0}}
<1>6. 0 \in P
  BY <1>5
<1>7. \A n \in Nat : n \in P => n + 1 \in P
  BY <1>5
<1> HIDE DEF P
<1>8. \A n \in Nat : n \in P
  BY <1>6, <1>7, NatSetInduction
<1> QED
  BY <1>1, <1>5, <1>8 DEF P

LEMMA HowManyMore ==
  ASSUME NEW P, NEW B \in BagsOf(P), NEW q \in P, NEW l
  PROVE  /\ Forks!HowMany(l, B) \in Nat
         /\ Forks!HowMany(l, Forks!BagAdd(B, q)) = Forks!HowMany(l, B) + IF l = q THEN 1 ELSE 0
<1> DEFINE C == Forks!BagAdd(B, q)
<1>1. B \in [DOMAIN B -> Nat \ {0}]
  BY BagIs
<1>2. C \in BagsOf(P) /\ IsMore(C, B, q)
  BY Added
<1> HIDE DEF C
<1>3. Forks!HowMany(l, B) = (IF l \in DOMAIN B THEN B[l] ELSE 0) /\ Forks!HowMany(l, C) = (IF l \in DOMAIN C THEN C[l] ELSE 0)
  BY DEF Forks!HowMany, Forks!BagIn, Forks!BagToSet
<1>4. Forks!HowMany(l, B) \in Nat
  BY <1>1, <1>3
<1>5. ASSUME l = q PROVE Forks!HowMany(l, C) = Forks!HowMany(l, B) + IF l = q THEN 1 ELSE 0
  <2>1. l \in DOMAIN C /\ (l \in DOMAIN B => C[l] = B[l] + 1) /\ (l \notin DOMAIN B => C[l] = 1)
    BY <1>2, <1>5 DEF IsMore
  <2>2. Forks!HowMany(l, C) = Forks!HowMany(l, B) + 1
    BY <1>1, <1>3, <2>1
  <2> QED
    BY <1>4, <1>5, <2>2
<1>6. ASSUME l # q PROVE Forks!HowMany(l, C) = Forks!HowMany(l, B) + IF l = q THEN 1 ELSE 0
  <2>1. (l \in DOMAIN C <=> l \in DOMAIN B) /\ (l \in DOMAIN B => C[l] = B[l])
    BY <1>2, <1>6 DEF IsMore
  <2>2. Forks!HowMany(l, C) = Forks!HowMany(l, B)
    BY <1>3, <2>1
  <2> QED
    BY <1>4, <1>6, <2>2
<1> QED
  BY <1>4, <1>5, <1>6 DEF C

(* What (+) of Bags is. *)
Both(B, C) ==
  [e \in DOMAIN B \cup DOMAIN C |-> (IF e \in DOMAIN B THEN B[e] ELSE 0) + (IF e \in DOMAIN C THEN C[e] ELSE 0)]

LEMMA HowManyTogether ==
  ASSUME NEW P, NEW B \in BagsOf(P), NEW C \in BagsOf(P)
  PROVE  /\ Both(B, C) \in BagsOf(P)
         /\ \A l : Forks!HowMany(l, Both(B, C)) = Forks!HowMany(l, B) + Forks!HowMany(l, C)
<1> DEFINE D == Both(B, C)
<1>1. /\ B \in [DOMAIN B -> Nat \ {0}] /\ DOMAIN B \subseteq P
      /\ C \in [DOMAIN C -> Nat \ {0}] /\ DOMAIN C \subseteq P
  BY BagIs
<1>2. ASSUME NEW X, NEW l PROVE Forks!HowMany(l, X) = IF l \in DOMAIN X THEN X[l] ELSE 0
  BY DEF Forks!HowMany, Forks!BagIn, Forks!BagToSet
<1>3. D = [e \in DOMAIN B \cup DOMAIN C |-> Forks!HowMany(e, B) + Forks!HowMany(e, C)]
  BY DEF Forks!HowMany, Forks!BagIn, Forks!BagToSet, Both
<1> HIDE DEF D
<1>4. DOMAIN D = DOMAIN B \cup DOMAIN C /\ \A e \in DOMAIN D : D[e] = Forks!HowMany(e, B) + Forks!HowMany(e, C)
  BY <1>3
<1>5. D \in [DOMAIN D -> Nat \ {0}]
  <2>1. \A e \in DOMAIN D : D[e] \in Nat \ {0}
    BY <1>1, <1>2, <1>4
  <2> QED
    BY <1>3, <2>1
<1>6. D \in BagsOf(P)
  BY <1>1, <1>4, <1>5, BagIs
<1>7. ASSUME NEW l PROVE Forks!HowMany(l, D) = Forks!HowMany(l, B) + Forks!HowMany(l, C)
  BY <1>1, <1>2, <1>4
<1> QED
  BY <1>6, <1>7 DEF D

LEMMA HowManyNone == \A l : Forks!HowMany(l, Forks!EmptyBag) = 0
BY EmptyIs DEF Forks!HowMany, Forks!BagIn, Forks!BagToSet

(***************************************************************************)
(* The processes there are, by where they are, their turn and what fork    *)
(* has returned.                                                           *)
(***************************************************************************)
IsPlace(at, i, n) ==
  /\ at \in {"start", "fork", "forked", "test", "last", "exit"}
  /\ i \in 0..num_kids
  /\ n \in {"none", "child", "parent", "failed"}
  /\ at \in {"start", "fork"} => n = "none"
  /\ at \in {"forked", "test"} => n # "none"
  /\ at \in {"last", "exit"} => n \in {"child", "parent"}
  /\ exercise = "simplefork" => i = 0
  /\ exercise # "simplefork" =>
       /\ at \in {"fork", "forked", "exit"}
       /\ at = "forked" => i < num_kids
       /\ at = "exit" => exercise = "parentcreates" /\ n = "child"

Processes ==
  {p \in [at : {"start", "fork", "forked", "test", "last", "exit"}, i : Nat,
          n : {"none", "child", "parent", "failed"}, buf : BagsOf(Forks!Lines)] :
     IsPlace(p.at, p.i, p.n) /\ (tty => p.buf = Forks!EmptyBag)}

If(c, n) == IF c THEN n ELSE 0

(***************************************************************************)
(* How often a process, with all that it forks, will show a line, if it    *)
(* has it many times in its buffer and no fork fails.                      *)
(***************************************************************************)
SimpleComing(at, n, many, l) ==
  many + If(at \in {"start", "fork"}, many) +
  CASE l = "A" -> If(at = "start", IF tty THEN 1 ELSE 2)
    [] l = "B" -> If(at \in {"start", "fork"}, 2) + If(at = "forked", 1)
    [] l = "C" -> If(at \in {"start", "fork"} \/ (at \in {"forked", "test"} /\ n = "child"), 1)
    [] l = "D" -> If(at \in {"start", "fork"} \/ (at \in {"forked", "test"} /\ n = "parent"), 1)
    [] l = "E" -> If(at \in {"start", "fork"}, 2) + If(at \in {"forked", "test", "last"} /\ n # "failed", 1)

Turns(at, i) == IF at = "fork" THEN i ELSE i + 1

LoopComing(at, i, n, many, l) ==
  IF n = "failed" THEN many
  ELSE many * Forks!PowerOf2[num_kids - Turns(at, i)] +
       If(i <= l, Forks!PowerOf2[(IF tty THEN l + 1 ELSE num_kids) - Turns(at, i)])

ParentComing(at, i, n, many, l) ==
  many + If(at = "fork", many * (num_kids - i)) + If(at = "forked" /\ n = "parent", many * (num_kids - (i + 1))) +
  IF l[1] = "parent"
    THEN If(i <= l[2] /\ (at = "fork" \/ (at = "forked" /\ n = "parent")), IF tty THEN 1 ELSE num_kids - l[2])
    ELSE If(\/ at = "fork" /\ i <= l[2]
            \/ at = "forked" /\ n = "child" /\ i = l[2]
            \/ at = "forked" /\ n = "parent" /\ i < l[2], 1)

Coming(at, i, n, many, l) ==
  IF exercise = "simplefork" THEN SimpleComing(at, n, many, l)
  ELSE IF exercise = "forkloop" THEN LoopComing(at, i, n, many, l)
  ELSE ParentComing(at, i, n, many, l)

IsExercise == exercise \in {"simplefork", "forkloop", "parentcreates"} /\ num_kids \in Nat /\ tty \in BOOLEAN

LEMMA ComingType ==
  ASSUME IsExercise, NEW at, NEW i, NEW n, IsPlace(at, i, n), NEW many \in Nat, NEW l \in Forks!Lines
  PROVE  Coming(at, i, n, many, l) \in Nat
<1>1. CASE exercise = "simplefork"
  <2>1. l \in {"A", "B", "C", "D", "E"}
    BY <1>1 DEF Forks!Lines
  <2>2. SimpleComing(at, n, many, l) \in Nat
    BY <1>1, <2>1 DEF SimpleComing, If
  <2> QED
    BY <1>1, <2>2 DEF Coming
<1>2. CASE exercise = "forkloop"
  <2>1. l \in 0 .. num_kids - 1 /\ num_kids \in Nat /\ i \in 0..num_kids
    BY <1>2 DEF Forks!Lines, IsExercise, IsPlace
  <2>2. Turns(at, i) \in 0..num_kids
    BY <1>2, <2>1 DEF IsPlace, Turns
  <2>3. i <= l => (IF tty THEN l + 1 ELSE num_kids) - Turns(at, i) \in Nat
    BY <1>2, <2>1 DEF IsPlace, Turns
  <2>4. num_kids - Turns(at, i) \in Nat
    BY <2>1, <2>2
  <2> DEFINE a == Forks!PowerOf2[num_kids - Turns(at, i)]
             b == Forks!PowerOf2[(IF tty THEN l + 1 ELSE num_kids) - Turns(at, i)]
  <2>5. a \in Nat /\ (i <= l => b \in Nat)
    BY <2>3, <2>4, Powers
  <2>6. many * a \in Nat
    BY <2>5
  <2>7. LoopComing(at, i, n, many, l) = IF n = "failed" THEN many ELSE many * a + If(i <= l, b)
    BY DEF LoopComing
  <2> HIDE DEF a, b
  <2> QED
    BY <1>2, <2>5, <2>6, <2>7 DEF Coming, If
<1>3. CASE exercise = "parentcreates"
  <2>1. l[1] \in {"parent", "child"} /\ l[2] \in 0 .. num_kids - 1 /\ num_kids \in Nat /\ i \in 0..num_kids
    BY <1>3 DEF Forks!Lines, IsExercise, IsPlace
  <2>2. num_kids - i \in Nat /\ (at = "forked" => num_kids - (i + 1) \in Nat)
    BY <1>3, <2>1 DEF IsPlace
  <2>3. many * (num_kids - i) \in Nat /\ (at = "forked" => many * (num_kids - (i + 1)) \in Nat)
    BY <2>2
  <2>4. ParentComing(at, i, n, many, l) \in Nat
    BY <2>1, <2>2, <2>3 DEF ParentComing, If
  <2> QED
    BY <1>3, <2>4 DEF Coming
<1> QED
  BY <1>1, <1>2, <1>3 DEF IsExercise

(* A fork that does not fail divides what is to come, one that fails may   *)
(* lose some of it.                                                        *)
LEMMA ForkDivides ==
  ASSUME IsExercise, NEW i, IsPlace("fork", i, "none"), exercise # "simplefork" => i < num_kids,
         NEW many \in Nat, NEW l \in Forks!Lines
  PROVE  /\ IsPlace("forked", i, "child") /\ IsPlace("forked", i, "parent") /\ IsPlace("forked", i, "failed")
         /\ Coming("forked", i, "child", many, l) + Coming("forked", i, "parent", many, l)
              = Coming("fork", i, "none", many, l)
         /\ Coming("forked", i, "failed", many, l) <= Coming("fork", i, "none", many, l)
<1>0. IsPlace("forked", i, "child") /\ IsPlace("forked", i, "parent") /\ IsPlace("forked", i, "failed")
  BY DEF IsPlace
<1>1. CASE exercise = "simplefork"
  <2>1. l \in {"A", "B", "C", "D", "E"}
    BY <1>1 DEF Forks!Lines
  <2> QED
    BY <1>0, <1>1, <2>1 DEF Coming, SimpleComing, If
<1>2. CASE exercise = "forkloop"
  <2>1. l \in 0 .. num_kids - 1 /\ num_kids \in Nat /\ i \in 0..num_kids /\ i < num_kids
    BY <1>2 DEF Forks!Lines, IsExercise, IsPlace
  <2> DEFINE k == num_kids - (i + 1)
             m == (IF tty THEN l + 1 ELSE num_kids) - (i + 1)
             a == Forks!PowerOf2[k]
             b == Forks!PowerOf2[m]
  <2>2. k \in Nat /\ k + 1 = num_kids - i
    BY <2>1
  <2>3. i <= l => m \in Nat
    BY <2>1
  <2>4. m + 1 = (IF tty THEN l + 1 ELSE num_kids) - i
    BY <2>1
  <2>5. a \in Nat \ {0} /\ Forks!PowerOf2[num_kids - i] = 2 * a
    <3> HIDE DEF k
    <3>1. a \in Nat \ {0} /\ Forks!PowerOf2[k + 1] = 2 * a
      BY <2>2, Powers
    <3> QED
      BY <2>2, <3>1
  <2>6. i <= l => b \in Nat /\ Forks!PowerOf2[(IF tty THEN l + 1 ELSE num_kids) - i] = 2 * b
    <3> HIDE DEF m
    <3>1. i <= l => b \in Nat /\ Forks!PowerOf2[m + 1] = 2 * b
      BY <2>3, Powers
    <3> QED
      BY <2>4, <3>1
  <2>7. \A n : LoopComing("forked", i, n, many, l) = IF n = "failed" THEN many ELSE many * a + If(i <= l, b)
    BY DEF LoopComing, Turns
  <2>8. LoopComing("fork", i, "none", many, l) = many * (2 * a) + If(i <= l, 2 * b)
    BY <2>5, <2>6 DEF LoopComing, Turns, If
  <2> HIDE DEF a, b
  <2>9. many * (2 * a) = many * a + many * a /\ many * a \in Nat /\ many <= many * a
    <3>1. a \in Nat /\ a >= 1
      BY <2>5
    <3> QED
      BY <3>1
  <2>10. /\ LoopComing("forked", i, "child", many, l) + LoopComing("forked", i, "parent", many, l)
              = LoopComing("fork", i, "none", many, l)
         /\ LoopComing("forked", i, "failed", many, l) <= LoopComing("fork", i, "none", many, l)
    BY <2>6, <2>7, <2>8, <2>9 DEF If
  <2> QED
    BY <1>0, <1>2, <2>10 DEF Coming
<1>3. CASE exercise = "parentcreates"
  <2>1. l[1] \in {"parent", "child"} /\ l[2] \in 0 .. num_kids - 1 /\ num_kids \in Nat /\ i \in 0..num_kids /\ i < num_kids
    BY <1>3 DEF Forks!Lines, IsExercise, IsPlace
  <2> DEFINE k == num_kids - (i + 1)
  <2>2. k \in Nat /\ num_kids - i = k + 1
    BY <2>1
  <2>3. many * (num_kids - i) = many * k + many /\ many * k \in Nat
    <3> HIDE DEF k
    <3>1. many * (k + 1) = many * k + many /\ many * k \in Nat
      BY <2>2
    <3> QED
      BY <2>2, <3>1
  <2>4. /\ ParentComing("forked", i, "child", many, l) + ParentComing("forked", i, "parent", many, l)
             = ParentComing("fork", i, "none", many, l)
        /\ ParentComing("forked", i, "failed", many, l) <= ParentComing("fork", i, "none", many, l)
    BY <2>1, <2>3 DEF ParentComing, If
  <2> QED
    BY <1>0, <1>3, <2>4 DEF Coming
<1> QED
  BY <1>1, <1>2, <1>3 DEF IsExercise

(* The statements that print. *)
PrintStep(at, i, n, at2, i2, n2, line) ==
  \/ /\ exercise = "simplefork" /\ i2 = i /\ n2 = n
     /\ \/ at = "start" /\ at2 = "fork" /\ line = "A"
        \/ at = "forked" /\ at2 = "test" /\ line = "B"
        \/ at = "test" /\ n = "child" /\ at2 = "last" /\ line = "C"
        \/ at = "test" /\ n = "parent" /\ at2 = "last" /\ line = "D"
        \/ at = "last" /\ at2 = "exit" /\ line = "E"
  \/ /\ exercise = "forkloop" /\ at = "forked" /\ n # "failed"
     /\ at2 = "fork" /\ i2 = i + 1 /\ n2 = "none" /\ line = i
  \/ /\ exercise = "parentcreates" /\ at = "forked"
     /\ \/ n = "child" /\ at2 = "exit" /\ i2 = i /\ n2 = n /\ line = <<"child", i>>
        \/ n = "parent" /\ at2 = "fork" /\ i2 = i + 1 /\ n2 = "none" /\ line = <<"parent", i>>

One(c) == IF c THEN 1 ELSE 0

LEMMA PrintPlace ==
  ASSUME IsExercise, NEW at, NEW i, NEW n, NEW at2, NEW i2, NEW n2, NEW line,
         IsPlace(at, i, n), PrintStep(at, i, n, at2, i2, n2, line)
  PROVE  IsPlace(at2, i2, n2) /\ line \in Forks!Lines
<1>1. IsPlace(at2, i2, n2)
  BY DEF IsPlace, PrintStep, IsExercise
<1>2. line \in Forks!Lines
  BY DEF IsPlace, PrintStep, IsExercise, Forks!Lines
<1> QED
  BY <1>1, <1>2

(* What is printed is no longer to come; on a pipe it is in the buffer.    *)
LEMMA PrintMoves ==
  ASSUME IsExercise, NEW at, NEW i, NEW n, NEW at2, NEW i2, NEW n2, NEW line,
         IsPlace(at, i, n), PrintStep(at, i, n, at2, i2, n2, line), NEW l \in Forks!Lines, NEW many \in Nat
  PROVE  /\ tty => Coming(at2, i2, n2, 0, l) + One(l = line) = Coming(at, i, n, 0, l)
         /\ ~tty => Coming(at2, i2, n2, many + One(l = line), l) = Coming(at, i, n, many, l)
<1> DEFINE one == One(l = line)
<1>0. one \in {0, 1} /\ (one = 1 <=> l = line)
  BY DEF One
<1>1. CASE exercise = "simplefork"
  <2>1. l \in {"A", "B", "C", "D", "E"}
    BY <1>1 DEF Forks!Lines
  <2>2. ASSUME NEW m \in Nat, NEW a, NEW b PROVE Coming(a, i, b, m, l) = SimpleComing(a, b, m, l)
    BY <1>1 DEF Coming
  <2>3. i2 = i /\ n2 = n /\ many + one \in Nat
    BY <1>0, <1>1 DEF PrintStep
  <2> HIDE DEF one
  <2>4. CASE at = "start" /\ at2 = "fork" /\ line = "A"
    <3>1. /\ Coming(at, i, n, 0, l) = SimpleComing("start", n, 0, l)
          /\ Coming(at2, i2, n2, 0, l) = SimpleComing("fork", n, 0, l)
          /\ Coming(at, i, n, many, l) = SimpleComing("start", n, many, l)
          /\ Coming(at2, i2, n2, many + one, l) = SimpleComing("fork", n, many + one, l)
      BY <2>2, <2>3, <2>4
    <3>2. CASE l = "A"
      <4>1. one = 1
        BY <1>0, <2>4, <3>2
      <4> QED
        BY <1>1, <2>3, <2>4, <3>1, <3>2, <4>1 DEF SimpleComing, If, IsPlace, one
    <3>3. CASE l # "A"
      <4>1. one = 0
        BY <1>0, <2>4, <3>3
      <4> QED
        BY <1>1, <2>1, <2>3, <2>4, <3>1, <3>3, <4>1 DEF SimpleComing, If, IsPlace, one
    <3> QED
      BY <3>2, <3>3
  <2>5. CASE at = "forked" /\ at2 = "test" /\ line = "B"
    <3>1. /\ Coming(at, i, n, 0, l) = SimpleComing("forked", n, 0, l)
          /\ Coming(at2, i2, n2, 0, l) = SimpleComing("test", n, 0, l)
          /\ Coming(at, i, n, many, l) = SimpleComing("forked", n, many, l)
          /\ Coming(at2, i2, n2, many + one, l) = SimpleComing("test", n, many + one, l)
      BY <2>2, <2>3, <2>5
    <3>2. CASE l = "B"
      <4>1. one = 1
        BY <1>0, <2>5, <3>2
      <4> QED
        BY <1>1, <2>3, <2>5, <3>1, <3>2, <4>1 DEF SimpleComing, If, IsPlace, one
    <3>3. CASE l # "B"
      <4>1. one = 0
        BY <1>0, <2>5, <3>3
      <4> QED
        BY <1>1, <2>1, <2>3, <2>5, <3>1, <3>3, <4>1 DEF SimpleComing, If, IsPlace, one
    <3> QED
      BY <3>2, <3>3
  <2>6. CASE at = "test" /\ n = "child" /\ at2 = "last" /\ line = "C"
    <3>1. /\ Coming(at, i, n, 0, l) = SimpleComing("test", n, 0, l)
          /\ Coming(at2, i2, n2, 0, l) = SimpleComing("last", n, 0, l)
          /\ Coming(at, i, n, many, l) = SimpleComing("test", n, many, l)
          /\ Coming(at2, i2, n2, many + one, l) = SimpleComing("last", n, many + one, l)
      BY <2>2, <2>3, <2>6
    <3>2. CASE l = "C"
      <4>1. one = 1
        BY <1>0, <2>6, <3>2
      <4> QED
        BY <1>1, <2>3, <2>6, <3>1, <3>2, <4>1 DEF SimpleComing, If, IsPlace, one
    <3>3. CASE l # "C"
      <4>1. one = 0
        BY <1>0, <2>6, <3>3
      <4> QED
        BY <1>1, <2>1, <2>3, <2>6, <3>1, <3>3, <4>1 DEF SimpleComing, If, IsPlace, one
    <3> QED
      BY <3>2, <3>3
  <2>7. CASE at = "test" /\ n = "parent" /\ at2 = "last" /\ line = "D"
    <3>1. /\ Coming(at, i, n, 0, l) = SimpleComing("test", n, 0, l)
          /\ Coming(at2, i2, n2, 0, l) = SimpleComing("last", n, 0, l)
          /\ Coming(at, i, n, many, l) = SimpleComing("test", n, many, l)
          /\ Coming(at2, i2, n2, many + one, l) = SimpleComing("last", n, many + one, l)
      BY <2>2, <2>3, <2>7
    <3>2. CASE l = "D"
      <4>1. one = 1
        BY <1>0, <2>7, <3>2
      <4> QED
        BY <1>1, <2>3, <2>7, <3>1, <3>2, <4>1 DEF SimpleComing, If, IsPlace, one
    <3>3. CASE l # "D"
      <4>1. one = 0
        BY <1>0, <2>7, <3>3
      <4> QED
        BY <1>1, <2>1, <2>3, <2>7, <3>1, <3>3, <4>1 DEF SimpleComing, If, IsPlace, one
    <3> QED
      BY <3>2, <3>3
  <2>8. CASE at = "last" /\ at2 = "exit" /\ line = "E"
    <3>1. /\ Coming(at, i, n, 0, l) = SimpleComing("last", n, 0, l)
          /\ Coming(at2, i2, n2, 0, l) = SimpleComing("exit", n, 0, l)
          /\ Coming(at, i, n, many, l) = SimpleComing("last", n, many, l)
          /\ Coming(at2, i2, n2, many + one, l) = SimpleComing("exit", n, many + one, l)
      BY <2>2, <2>3, <2>8
    <3>2. CASE l = "E"
      <4>1. one = 1
        BY <1>0, <2>8, <3>2
      <4> QED
        BY <1>1, <2>3, <2>8, <3>1, <3>2, <4>1 DEF SimpleComing, If, IsPlace, one
    <3>3. CASE l # "E"
      <4>1. one = 0
        BY <1>0, <2>8, <3>3
      <4> QED
        BY <1>1, <2>1, <2>3, <2>8, <3>1, <3>3, <4>1 DEF SimpleComing, If, IsPlace, one
    <3> QED
      BY <3>2, <3>3
  <2> QED
    BY <1>1, <2>4, <2>5, <2>6, <2>7, <2>8 DEF PrintStep
<1>2. CASE exercise = "forkloop"
  <2>1. /\ at = "forked" /\ n # "failed" /\ at2 = "fork" /\ i2 = i + 1 /\ n2 = "none" /\ line = i
        /\ l \in 0 .. num_kids - 1 /\ num_kids \in Nat /\ i \in 0 .. num_kids - 1
    BY <1>2 DEF Forks!Lines, IsExercise, IsPlace, PrintStep
  <2> DEFINE k == num_kids - (i + 1)
             m == (IF tty THEN l + 1 ELSE num_kids) - (i + 1)
             a == Forks!PowerOf2[k]
             b == Forks!PowerOf2[m]
  <2>2. ASSUME NEW h \in Nat
        PROVE  /\ Coming(at, i, n, h, l) = h * a + If(i <= l, b)
               /\ Coming(at2, i2, n2, h, l) = h * a + If(i + 1 <= l, b)
    BY <1>2, <2>1 DEF Coming, LoopComing, Turns
  <2>3. k \in Nat /\ (i <= l => m \in Nat)
    BY <2>1
  <2>4. a \in Nat /\ (i <= l => b \in Nat)
    BY <2>3, Powers
  <2>5. i = l /\ tty => b = 1
    BY <2>1, Powers
  <2>6. ~tty => a = b
    OBVIOUS
  <2> HIDE DEF a, b
  <2>7. (many + one) * a = many * a + one * a /\ many * a \in Nat /\ one * a = (IF one = 1 THEN a ELSE 0) /\ 0 * a = 0
    <3>1. one \in Nat
      BY <1>0
    <3> HIDE DEF one
    <3>2. (many + one) * a = many * a + one * a /\ many * a \in Nat /\ 0 * a = 0
      BY <2>4, <3>1
    <3>3. one = 0 \/ one = 1
      BY <1>0
    <3>4. one * a = (IF one = 1 THEN a ELSE 0)
      BY <2>4, <3>3
    <3> QED
      BY <3>2, <3>4
  <2>8. many + one \in Nat
    BY <1>0
  <2>9. i <= l <=> (i + 1 <= l \/ i = l)
    BY <2>1
  <2>10. one = 1 <=> l = i
    BY <1>0, <2>1
  <2> HIDE DEF one
  <2>11. ASSUME tty PROVE Coming(at2, i2, n2, 0, l) + one = Coming(at, i, n, 0, l)
    <3>1. Coming(at, i, n, 0, l) = If(i <= l, b) /\ Coming(at2, i2, n2, 0, l) = If(i + 1 <= l, b)
      <4>1. Coming(at, i, n, 0, l) = 0 * a + If(i <= l, b) /\ Coming(at2, i2, n2, 0, l) = 0 * a + If(i + 1 <= l, b)
        BY <2>2
      <4>2. If(i <= l, b) \in Nat /\ If(i + 1 <= l, b) \in Nat
        BY <2>4, <2>9 DEF If
      <4> QED
        BY <2>7, <4>1, <4>2
    <3> QED
      BY <1>0, <2>1, <2>4, <2>5, <2>9, <2>10, <2>11, <3>1 DEF If
  <2>12. ASSUME ~tty PROVE Coming(at2, i2, n2, many + one, l) = Coming(at, i, n, many, l)
    <3>1. /\ Coming(at, i, n, many, l) = many * a + If(i <= l, a)
          /\ Coming(at2, i2, n2, many + one, l) = many * a + (IF one = 1 THEN a ELSE 0) + If(i + 1 <= l, a)
      BY <2>2, <2>6, <2>7, <2>8, <2>12 DEF If
    <3> QED
      BY <2>1, <2>4, <2>7, <2>9, <2>10, <3>1 DEF If
  <2> QED
    BY <2>11, <2>12 DEF one
<1>3. CASE exercise = "parentcreates"
  <2>1. /\ at = "forked" /\ l[1] \in {"parent", "child"} /\ l[2] \in 0 .. num_kids - 1
        /\ num_kids \in Nat /\ i \in 0 .. num_kids - 1 /\ l = <<l[1], l[2]>>
    BY <1>3 DEF Forks!Lines, IsExercise, IsPlace, PrintStep
  <2>2. ASSUME NEW h \in Nat, NEW a, NEW j, NEW b PROVE Coming(a, j, b, h, l) = ParentComing(a, j, b, h, l)
    BY <1>3 DEF Coming
  <2>3. many + one \in Nat
    BY <1>0
  <2>4. CASE n = "child" /\ at2 = "exit" /\ i2 = i /\ n2 = n /\ line = <<"child", i>>
    <3>1. one = 1 <=> l[1] = "child" /\ l[2] = i
      BY <1>0, <2>1, <2>4
    <3> HIDE DEF one
    <3> QED
      BY <1>0, <1>3, <2>1, <2>2, <2>3, <2>4, <3>1 DEF ParentComing, If, one
  <2>5. CASE n = "parent" /\ at2 = "fork" /\ i2 = i + 1 /\ n2 = "none" /\ line = <<"parent", i>>
    <3> DEFINE k == num_kids - (i + 1)
    <3>1. one = 1 <=> l[1] = "parent" /\ l[2] = i
      BY <1>0, <2>1, <2>5
    <3>2. k \in Nat /\ (many + one) * k = many * k + (IF one = 1 THEN k ELSE 0) /\ many * k \in Nat /\ 0 * k = 0
      <4>1. k \in Nat
        BY <2>1
      <4> HIDE DEF k
      <4>2. (many + one) * k = many * k + (IF one = 1 THEN k ELSE 0) /\ many * k \in Nat /\ 0 * k = 0
        BY <1>0, <4>1
      <4> QED
        BY <4>1, <4>2
    <3> HIDE DEF one
    <3>3. \A h \in Nat : ParentComing("forked", i, "parent", h, l) =
             h + h * k + IF l[1] = "parent" THEN If(i <= l[2], IF tty THEN 1 ELSE num_kids - l[2])
                         ELSE If(i < l[2], 1)
      BY <2>1 DEF ParentComing, If
    <3>4. \A h \in Nat : ParentComing("fork", i + 1, "none", h, l) =
             h + h * k + IF l[1] = "parent" THEN If(i + 1 <= l[2], IF tty THEN 1 ELSE num_kids - l[2])
                         ELSE If(i + 1 <= l[2], 1)
      BY <2>1 DEF ParentComing, If
    <3>5. k = num_kids - (i + 1)
      OBVIOUS
    <3> HIDE DEF k
    <3> DEFINE c == IF l[1] = "parent" THEN If(i <= l[2], IF tty THEN 1 ELSE num_kids - l[2]) ELSE If(i < l[2], 1)
               d == IF l[1] = "parent" THEN If(i + 1 <= l[2], IF tty THEN 1 ELSE num_kids - l[2])
                    ELSE If(i + 1 <= l[2], 1)
    <3>6. c \in Nat /\ d \in Nat /\ one \in {0, 1} /\ k \in Nat
      BY <1>0, <2>1, <3>2 DEF If, one
    <3>7. ASSUME tty PROVE d + one = c
      BY <1>0, <2>1, <3>1, <3>6, <3>7 DEF If
    <3>8. ASSUME ~tty PROVE d + one + (IF one = 1 THEN k ELSE 0) = c
      BY <1>0, <2>1, <3>1, <3>5, <3>6, <3>8 DEF If
    <3>9. ASSUME NEW h \in Nat PROVE Coming(at, i, n, h, l) = h + h * k + c /\ Coming(at2, i2, n2, h, l) = h + h * k + d
      BY <2>1, <2>2, <2>5, <3>3, <3>4
    <3> HIDE DEF c, d
    <3>10. ASSUME tty PROVE Coming(at2, i2, n2, 0, l) + one = Coming(at, i, n, 0, l)
      <4>1. Coming(at, i, n, 0, l) = 0 + 0 * k + c /\ Coming(at2, i2, n2, 0, l) = 0 + 0 * k + d
        BY <3>9
      <4> QED
        BY <3>2, <3>6, <3>7, <3>10, <4>1
    <3>11. ASSUME ~tty PROVE Coming(at2, i2, n2, many + one, l) = Coming(at, i, n, many, l)
      <4>1. /\ Coming(at, i, n, many, l) = many + many * k + c
            /\ Coming(at2, i2, n2, many + one, l) = (many + one) + (many + one) * k + d
        BY <2>3, <3>9
      <4> QED
        BY <3>2, <3>6, <3>8, <3>11, <4>1
    <3> QED
      BY <3>10, <3>11 DEF one
  <2> QED
    BY <1>3, <2>4, <2>5 DEF PrintStep
<1> QED
  BY <1>1, <1>2, <1>3 DEF IsExercise

LEMMA EndComes ==
  ASSUME IsExercise, NEW at, NEW i, NEW n, IsPlace(at, i, n), NEW l \in Forks!Lines, NEW many \in Nat,
         \/ at = "exit"
         \/ n = "failed" /\ at = (IF exercise # "simplefork" THEN "forked" ELSE "test")
         \/ exercise # "simplefork" /\ at = "fork" /\ i >= num_kids
  PROVE  Coming(at, i, n, many, l) = many
<1>1. CASE exercise = "simplefork"
  <2>0. l \in {"A", "B", "C", "D", "E"}
    BY <1>1 DEF Forks!Lines
  <2>1. at = "exit" \/ (at = "test" /\ n = "failed")
    BY <1>1
  <2>2. Coming(at, i, n, many, l) = SimpleComing(at, n, many, l)
    BY <1>1 DEF Coming
  <2>3. CASE at = "exit"
    BY <2>0, <2>2, <2>3 DEF SimpleComing, If
  <2>4. CASE at = "test" /\ n = "failed"
    BY <2>0, <2>2, <2>4 DEF SimpleComing, If
  <2> QED
    BY <2>1, <2>3, <2>4
<1>2. CASE exercise = "forkloop"
  <2>1. l \in 0 .. num_kids - 1 /\ num_kids \in Nat /\ i \in 0..num_kids
    BY <1>2 DEF Forks!Lines, IsExercise, IsPlace
  <2>2. CASE n = "failed"
    BY <1>2, <2>2 DEF Coming, LoopComing
  <2>3. CASE n # "failed"
    <3>1. at = "fork" /\ i = num_kids /\ num_kids - i = 0 /\ ~(i <= l)
      BY <1>2, <2>1, <2>3 DEF IsPlace
    <3> QED
      BY <1>2, <2>1, <2>3, <3>1, Powers DEF Coming, LoopComing, Turns, If
  <2> QED
    BY <2>2, <2>3
<1>3. CASE exercise = "parentcreates"
  <2>1. l[1] \in {"parent", "child"} /\ l[2] \in 0 .. num_kids - 1 /\ num_kids \in Nat /\ i \in 0..num_kids
    BY <1>3 DEF Forks!Lines, IsExercise, IsPlace
  <2> QED
    BY <1>3, <2>1 DEF Coming, ParentComing, If, IsPlace
<1> QED
  BY <1>1, <1>2, <1>3 DEF IsExercise

LEMMA StartComes ==
  ASSUME IsExercise, NEW at, at = (IF exercise # "simplefork" THEN "fork" ELSE "start"), NEW l \in Forks!Lines
  PROVE  IsPlace(at, 0, "none") /\ Coming(at, 0, "none", 0, l) = Forks!Copies(l)
<1>0. IsPlace(at, 0, "none")
  BY DEF IsPlace, IsExercise
<1>1. CASE exercise = "simplefork"
  <2>1. l \in {"A", "B", "C", "D", "E"} /\ at = "start"
    BY <1>1 DEF Forks!Lines
  <2> QED
    BY <1>0, <1>1, <2>1 DEF Coming, SimpleComing, If, Forks!Copies
<1>2. CASE exercise = "forkloop"
  <2>1. l \in 0 .. num_kids - 1 /\ num_kids \in Nat /\ at = "fork"
    BY <1>2 DEF Forks!Lines, IsExercise
  <2> DEFINE k == num_kids - 0
             m == IF tty THEN l + 1 ELSE num_kids
             a == Forks!PowerOf2[k]
             b == Forks!PowerOf2[m]
  <2>2. k \in Nat /\ m \in Nat /\ m - 0 = m /\ 0 <= l
    BY <2>1
  <2>3. a \in Nat /\ b \in Nat
    BY <2>2, Powers
  <2>4. Coming(at, 0, "none", 0, l) = 0 * a + b
    BY <1>2, <2>1, <2>2 DEF Coming, LoopComing, Turns, If
  <2>5. Forks!Copies(l) = b
    BY <1>2 DEF Forks!Copies
  <2> HIDE DEF a, b
  <2> QED
    BY <1>0, <2>3, <2>4, <2>5
<1>3. CASE exercise = "parentcreates"
  <2>1. l[1] \in {"parent", "child"} /\ l[2] \in 0 .. num_kids - 1 /\ num_kids \in Nat /\ at = "fork"
    BY <1>3 DEF Forks!Lines, IsExercise
  <2> QED
    BY <1>0, <1>3, <2>1 DEF Coming, ParentComing, If, Forks!Copies
<1> QED
  BY <1>1, <1>2, <1>3 DEF IsExercise

LEMMA HowManyType ==
  ASSUME NEW P, NEW B \in BagsOf(P), NEW l
  PROVE  Forks!HowMany(l, B) \in Nat
BY BagIs DEF Forks!HowMany, Forks!BagIn, Forks!BagToSet

LEMMA CopiesType ==
  ASSUME IsExercise, NEW l \in Forks!Lines
  PROVE  Forks!Copies(l) \in Nat
BY StartComes, ComingType

(* What each process, by its state, will show of a line. *)
ComingOf(l) == [p \in Processes |-> Coming(p.at, p.i, p.n, Forks!HowMany(l, p.buf), l)]

(* The processes B and the lines S shown make up what is to be shown of l. *)
Owes(l, B, S, lost) ==
  \E t \in Nat :
     /\ Weighs(B, t, Processes, ComingOf(l))
     /\ t + Forks!HowMany(l, S) <= Forks!Copies(l)
     /\ ~lost => t + Forks!HowMany(l, S) = Forks!Copies(l)

IsState(B, S, lost) ==
  /\ B \in BagsOf(Processes)
  /\ S \in BagsOf(Forks!Lines)
  /\ lost \in BOOLEAN
  /\ \A l \in Forks!Lines : Owes(l, B, S, lost)

ForkInv == IsExercise /\ IsState(procs, shown, fork_failed)

LEMMA NewProcess ==
  ASSUME NEW at, NEW i, NEW n, NEW buf \in BagsOf(Forks!Lines),
         IsExercise, IsPlace(at, i, n), tty => buf = Forks!EmptyBag
  PROVE  /\ [at |-> at, i |-> i, n |-> n, buf |-> buf] \in Processes
         /\ \A l : ComingOf(l)[[at |-> at, i |-> i, n |-> n, buf |-> buf]] = Coming(at, i, n, Forks!HowMany(l, buf), l)
<1> DEFINE p == [at |-> at, i |-> i, n |-> n, buf |-> buf]
<1>1. at \in {"start", "fork", "forked", "test", "last", "exit"} /\ n \in {"none", "child", "parent", "failed"}
  BY DEF IsPlace
<1>2. i \in Nat
  BY DEF IsPlace, IsExercise
<1>3. p \in Processes
  BY <1>1, <1>2 DEF Processes
<1>4. p.at = at /\ p.i = i /\ p.n = n /\ p.buf = buf
  OBVIOUS
<1> HIDE DEF p
<1>5. ASSUME NEW l PROVE ComingOf(l)[p] = Coming(at, i, n, Forks!HowMany(l, buf), l)
  BY <1>3, <1>4 DEF ComingOf
<1> QED
  BY <1>3, <1>5 DEF p

LEMMA ProcessIs ==
  ASSUME NEW p \in Processes
  PROVE  /\ p = [at |-> p.at, i |-> p.i, n |-> p.n, buf |-> p.buf]
         /\ \A m : [p EXCEPT !.at = "forked", !.n = m] = [at |-> "forked", i |-> p.i, n |-> m, buf |-> p.buf]
         /\ IsPlace(p.at, p.i, p.n) /\ p.buf \in BagsOf(Forks!Lines) /\ (tty => p.buf = Forks!EmptyBag)
         /\ \A l : Forks!HowMany(l, p.buf) \in Nat
         /\ \A l : ComingOf(l)[p] = Coming(p.at, p.i, p.n, Forks!HowMany(l, p.buf), l)
<1>1. p \in [at : {"start", "fork", "forked", "test", "last", "exit"}, i : Nat,
             n : {"none", "child", "parent", "failed"}, buf : BagsOf(Forks!Lines)] /\ IsPlace(p.at, p.i, p.n)
      /\ (tty => p.buf = Forks!EmptyBag)
  BY DEF Processes
<1>2. p = [at |-> p.at, i |-> p.i, n |-> p.n, buf |-> p.buf] /\ p.buf \in BagsOf(Forks!Lines)
  BY <1>1
<1>3. \A l : Forks!HowMany(l, p.buf) \in Nat
  BY <1>2, HowManyType
<1>4. \A l : ComingOf(l)[p] = Coming(p.at, p.i, p.n, Forks!HowMany(l, p.buf), l)
  BY DEF ComingOf
<1>5. ASSUME NEW m
      PROVE  [p EXCEPT !.at = "forked", !.n = m] = [at |-> "forked", i |-> p.i, n |-> m, buf |-> p.buf]
  <2> DEFINE y == [p EXCEPT !.at = "forked", !.n = m]
             z == [at |-> "forked", i |-> p.i, n |-> m, buf |-> p.buf]
  <2>1. DOMAIN p = {"at", "i", "n", "buf"}
    BY <1>1
  <2>2. DOMAIN z = {"at", "i", "n", "buf"} /\ z.at = "forked" /\ z.i = p.i /\ z.n = m /\ z.buf = p.buf
    OBVIOUS
  <2>3. y = [f \in DOMAIN p |-> IF f = "n" THEN m ELSE IF f = "at" THEN "forked" ELSE p[f]]
    BY <2>1
  <2>4. z = [f \in {"at", "i", "n", "buf"} |-> z[f]]
    OBVIOUS
  <2> HIDE DEF y, z
  <2>5. \A f \in DOMAIN z : y[f] = z[f]
    BY <2>1, <2>2, <2>3
  <2>6. y = [f \in {"at", "i", "n", "buf"} |-> y[f]]
    BY <2>1, <2>3
  <2>7. y = z
    BY <2>2, <2>4, <2>5, <2>6
  <2> QED
    BY <2>7 DEF y, z
<1> QED
  BY <1>1, <1>2, <1>3, <1>4, <1>5

LEMMA ComingOfType ==
  ASSUME IsExercise, NEW l \in Forks!Lines
  PROVE  ComingOf(l) \in [Processes -> Nat]
<1>1. ASSUME NEW p \in Processes PROVE Coming(p.at, p.i, p.n, Forks!HowMany(l, p.buf), l) \in Nat
  BY ProcessIs, ComingType
<1> QED
  BY <1>1 DEF ComingOf

LEMMA Traded ==
  ASSUME NEW P, NEW w \in [P -> Nat], NEW B, NEW t, Weighs(B, t, P, w), NEW p \in DOMAIN B, NEW q \in P
  PROVE  \E s \in Nat : Weighs(Forks!BagAdd(Forks!BagRemove(B, p), q), s, P, w) /\ s + w[p] = t + w[q]
<1>0. p \in P /\ B \in BagsOf(P) /\ t \in Nat
  BY WeightType, BagIs
<1>1. PICK r \in Nat : Weighs(Forks!BagRemove(B, p), r, P, w) /\ t = r + w[p]
  BY WeightOfLess
<1>2. Weighs(Forks!BagAdd(Forks!BagRemove(B, p), q), r + w[q], P, w)
  BY <1>1, WeightOfMore
<1>3. w[p] \in Nat /\ w[q] \in Nat
  BY <1>0
<1>4. r + w[q] \in Nat /\ (r + w[q]) + w[p] = t + w[q]
  BY <1>1, <1>3
<1> QED
  BY <1>2, <1>4

(* A process ends. *)
LEMMA Leaves ==
  ASSUME IsExercise, NEW B, NEW S, NEW lost, IsState(B, S, lost), NEW p \in DOMAIN B,
         NEW S2 \in BagsOf(Forks!Lines),
         \A l \in Forks!Lines : Forks!HowMany(l, S2) = Forks!HowMany(l, S) + ComingOf(l)[p]
  PROVE  IsState(Forks!BagRemove(B, p), S2, lost)
<1>1. B \in BagsOf(Processes) /\ S \in BagsOf(Forks!Lines) /\ lost \in BOOLEAN
  BY DEF IsState
<1>2. p \in Processes
  BY <1>1, BagIs
<1>3. Forks!BagRemove(B, p) \in BagsOf(Processes)
  BY <1>1, Removed
<1>4. ASSUME NEW l \in Forks!Lines PROVE Owes(l, Forks!BagRemove(B, p), S2, lost)
  <2> DEFINE w == ComingOf(l)
             h == Forks!HowMany(l, S)
             c == Forks!Copies(l)
  <2>1. w \in [Processes -> Nat] /\ h \in Nat
    BY <1>1, ComingOfType, HowManyType
  <2>2. PICK t \in Nat : Weighs(B, t, Processes, w) /\ t + h <= c /\ (~lost => t + h = c)
    BY DEF IsState, Owes
  <2>3. Forks!HowMany(l, S2) = h + w[p]
    OBVIOUS
  <2> HIDE DEF w, h, c
  <2>4. PICK s \in Nat : Weighs(Forks!BagRemove(B, p), s, Processes, w) /\ t = s + w[p]
    BY <2>1, <2>2, WeightOfLess
  <2>5. w[p] \in Nat
    BY <1>2, <2>1
  <2>6. s + (h + w[p]) = t + h
    BY <2>1, <2>4, <2>5
  <2>7. s + (h + w[p]) <= c /\ (~lost => s + (h + w[p]) = c)
    BY <2>2, <2>6
  <2> QED
    BY <2>3, <2>4, <2>7 DEF Owes, w, c
<1> QED
  BY <1>1, <1>3, <1>4 DEF IsState

(* A process goes on. *)
LEMMA ProcessKeepsOn ==
  ASSUME IsExercise, NEW B, NEW S, NEW lost, IsState(B, S, lost), NEW p \in DOMAIN B, NEW q \in Processes,
         NEW S2 \in BagsOf(Forks!Lines), NEW lost2 \in BOOLEAN, lost => lost2,
         \A l \in Forks!Lines :
            /\ ComingOf(l)[q] + Forks!HowMany(l, S2) <= ComingOf(l)[p] + Forks!HowMany(l, S)
            /\ ~lost2 => ComingOf(l)[q] + Forks!HowMany(l, S2) = ComingOf(l)[p] + Forks!HowMany(l, S)
  PROVE  IsState(Forks!BagAdd(Forks!BagRemove(B, p), q), S2, lost2)
<1>1. B \in BagsOf(Processes) /\ S \in BagsOf(Forks!Lines) /\ lost \in BOOLEAN
  BY DEF IsState
<1>2. p \in Processes
  BY <1>1, BagIs
<1> DEFINE C == Forks!BagAdd(Forks!BagRemove(B, p), q)
<1>3. C \in BagsOf(Processes)
  BY <1>1, Removed, Added
<1>4. ASSUME NEW l \in Forks!Lines PROVE Owes(l, C, S2, lost2)
  <2> DEFINE w == ComingOf(l)
             h == Forks!HowMany(l, S)
             k == Forks!HowMany(l, S2)
             c == Forks!Copies(l)
  <2>1. w \in [Processes -> Nat] /\ h \in Nat /\ k \in Nat
    BY <1>1, ComingOfType, HowManyType
  <2>2. PICK t \in Nat : Weighs(B, t, Processes, w) /\ t + h <= c /\ (~lost => t + h = c)
    BY DEF IsState, Owes
  <2>3. w[q] + k <= w[p] + h /\ (~lost2 => w[q] + k = w[p] + h)
    OBVIOUS
  <2> HIDE DEF w, h, k, c
  <2>4. PICK s \in Nat : Weighs(C, s, Processes, w) /\ s + w[p] = t + w[q]
    BY <2>1, <2>2, Traded
  <2>5. w[p] \in Nat /\ w[q] \in Nat
    BY <1>2, <2>1
  <2>6. s + k <= t + h /\ (~lost2 => s + k = t + h)
    BY <2>1, <2>3, <2>4, <2>5
  <2>8. c \in Int
    BY CopiesType DEF c
  <2>7. s + k <= c /\ (~lost2 => s + k = c)
    BY <2>1, <2>2, <2>4, <2>6, <2>8
  <2> HIDE DEF C
  <2> QED
    BY <2>4, <2>7 DEF Owes, w, c, k
<1> QED
  BY <1>3, <1>4 DEF IsState

(* A process forks. *)
LEMMA Splits ==
  ASSUME IsExercise, NEW B, NEW S, NEW lost, IsState(B, S, lost), NEW p \in DOMAIN B,
         NEW q \in Processes, NEW r \in Processes,
         \A l \in Forks!Lines : ComingOf(l)[q] + ComingOf(l)[r] = ComingOf(l)[p]
  PROVE  IsState(Forks!BagAdd(Forks!BagAdd(Forks!BagRemove(B, p), q), r), S, lost)
<1>1. B \in BagsOf(Processes) /\ S \in BagsOf(Forks!Lines) /\ lost \in BOOLEAN
  BY DEF IsState
<1>2. p \in Processes
  BY <1>1, BagIs
<1> DEFINE C == Forks!BagAdd(Forks!BagRemove(B, p), q)
           D == Forks!BagAdd(C, r)
<1>3. C \in BagsOf(Processes)
  BY <1>1, Removed, Added
<1>4. D \in BagsOf(Processes)
  <2> HIDE DEF C
  <2> QED
    BY <1>3, Added
<1>5. ASSUME NEW l \in Forks!Lines PROVE Owes(l, D, S, lost)
  <2> DEFINE w == ComingOf(l)
             h == Forks!HowMany(l, S)
             c == Forks!Copies(l)
  <2>1. w \in [Processes -> Nat] /\ h \in Nat
    BY <1>1, ComingOfType, HowManyType
  <2>2. PICK t \in Nat : Weighs(B, t, Processes, w) /\ t + h <= c /\ (~lost => t + h = c)
    BY DEF IsState, Owes
  <2>3. w[q] + w[r] = w[p]
    OBVIOUS
  <2> HIDE DEF w, h, c
  <2>4. PICK s \in Nat : Weighs(C, s, Processes, w) /\ s + w[p] = t + w[q]
    BY <2>1, <2>2, Traded
  <2>5. w[p] \in Nat /\ w[q] \in Nat /\ w[r] \in Nat
    BY <1>2, <2>1
  <2>6. s + w[r] = t
    BY <2>3, <2>4, <2>5
  <2>7. Weighs(D, t, Processes, w)
    <3> HIDE DEF C
    <3>1. Weighs(D, s + w[r], Processes, w)
      BY <2>4, WeightOfMore
    <3> QED
      BY <2>6, <3>1
  <2> HIDE DEF C, D
  <2> QED
    BY <2>2, <2>7 DEF Owes, w, c, h
<1> QED
  BY <1>1, <1>4, <1>5 DEF IsState

LEMMA ForkPrints ==
  ASSUME IsExercise, IsState(procs, shown, fork_failed), NEW p \in DOMAIN procs, NEW at2, NEW i2, NEW n2, NEW line,
         PrintStep(p.at, p.i, p.n, at2, i2, n2, line),
         Forks!Prints(p, line, [at |-> at2, i |-> i2, n |-> n2, buf |-> p.buf]), fork_failed' = fork_failed
  PROVE  IsState(procs', shown', fork_failed')
<1>1. procs \in BagsOf(Processes) /\ shown \in BagsOf(Forks!Lines) /\ fork_failed \in BOOLEAN
  BY DEF IsState
<1>2. p \in Processes
  BY <1>1, BagIs
<1>3. /\ IsPlace(p.at, p.i, p.n) /\ p.buf \in BagsOf(Forks!Lines) /\ (tty => p.buf = Forks!EmptyBag)
      /\ \A l : Forks!HowMany(l, p.buf) \in Nat
      /\ \A l : ComingOf(l)[p] = Coming(p.at, p.i, p.n, Forks!HowMany(l, p.buf), l)
  BY <1>2, ProcessIs
<1>4. IsPlace(at2, i2, n2) /\ line \in Forks!Lines
  BY <1>3, PrintPlace
<1> DEFINE q == [at |-> at2, i |-> i2, n |-> n2, buf |-> p.buf]
<1>5. CASE tty
  <2> DEFINE S == Forks!BagAdd(shown, line)
  <2>1. procs' = Forks!BagAdd(Forks!BagRemove(procs, p), q) /\ shown' = S
    BY <1>5 DEF Forks!Prints, Forks!Becomes
  <2>2. q \in Processes /\ \A l : ComingOf(l)[q] = Coming(at2, i2, n2, Forks!HowMany(l, p.buf), l)
    BY <1>3, <1>4, NewProcess
  <2>3. S \in BagsOf(Forks!Lines)
    BY <1>1, <1>4, Added
  <2> HIDE DEF q
  <2>4. ASSUME NEW l \in Forks!Lines
        PROVE  ComingOf(l)[q] + Forks!HowMany(l, S) = ComingOf(l)[p] + Forks!HowMany(l, shown)
    <3> DEFINE h == Forks!HowMany(l, shown)
               a == Coming(at2, i2, n2, 0, l)
               b == Coming(p.at, p.i, p.n, 0, l)
               one == One(l = line)
    <3>1. Forks!HowMany(l, p.buf) = 0
      BY <1>3, <1>5, HowManyNone
    <3>2. ComingOf(l)[q] = a /\ ComingOf(l)[p] = b
      BY <1>3, <2>2, <3>1
    <3>3. h \in Nat /\ Forks!HowMany(l, S) = h + one
      BY <1>1, <1>4, HowManyMore DEF One
    <3>4. a + one = b
      BY <1>3, <1>5, PrintMoves
    <3>5. a \in Nat /\ b \in Nat /\ one \in Nat
      BY <1>3, <1>4, ComingType DEF One
    <3> HIDE DEF h, a, b, one
    <3>6. a + (h + one) = b + h
      BY <3>3, <3>4, <3>5
    <3> QED
      BY <3>2, <3>3, <3>6 DEF h
  <2>5. ASSUME NEW l \in Forks!Lines
        PROVE  ComingOf(l)[q] \in Nat /\ Forks!HowMany(l, S) \in Nat
    BY <2>2, <2>3, ComingOfType, HowManyType
  <2> HIDE DEF S
  <2>6. \A l \in Forks!Lines :
            /\ ComingOf(l)[q] + Forks!HowMany(l, S) <= ComingOf(l)[p] + Forks!HowMany(l, shown)
            /\ ~fork_failed => ComingOf(l)[q] + Forks!HowMany(l, S) = ComingOf(l)[p] + Forks!HowMany(l, shown)
    BY <2>4, <2>5
  <2>7. IsState(Forks!BagAdd(Forks!BagRemove(procs, p), q), S, fork_failed)
    BY <1>1, <2>2, <2>3, <2>6, ProcessKeepsOn
  <2> QED
    BY <2>1, <2>7
<1>6. CASE ~tty
  <2> DEFINE buf2 == Forks!BagAdd(p.buf, line)
             r == [at |-> at2, i |-> i2, n |-> n2, buf |-> buf2]
  <2>1. procs' = Forks!BagAdd(Forks!BagRemove(procs, p), r) /\ shown' = shown
    <3>1. [q EXCEPT !.buf = Forks!BagAdd(@, line)] = r
      OBVIOUS
    <3>2. shown' = shown /\ procs' = Forks!BagAdd(Forks!BagRemove(procs, p), [q EXCEPT !.buf = Forks!BagAdd(@, line)])
      BY <1>6 DEF Forks!Prints, Forks!Becomes
    <3> QED
      BY <3>1, <3>2
  <2>0. buf2 \in BagsOf(Forks!Lines)
    BY <1>3, <1>4, Added
  <2>8. \A l \in Forks!Lines : Forks!HowMany(l, buf2) = Forks!HowMany(l, p.buf) + One(l = line)
    BY <1>3, <1>4, HowManyMore DEF One
  <2> HIDE DEF buf2
  <2>2. r \in Processes /\ \A l : ComingOf(l)[r] = Coming(at2, i2, n2, Forks!HowMany(l, buf2), l)
    BY <1>4, <1>6, <2>0, NewProcess
  <2> HIDE DEF r
  <2>4. ASSUME NEW l \in Forks!Lines
        PROVE  ComingOf(l)[r] + Forks!HowMany(l, shown) = ComingOf(l)[p] + Forks!HowMany(l, shown)
    <3> DEFINE many == Forks!HowMany(l, p.buf)
    <3>1. many \in Nat /\ ComingOf(l)[r] = Coming(at2, i2, n2, many + One(l = line), l)
          /\ ComingOf(l)[p] = Coming(p.at, p.i, p.n, many, l)
      BY <1>3, <2>2, <2>8
    <3> HIDE DEF many
    <3>2. Coming(at2, i2, n2, many + One(l = line), l) = Coming(p.at, p.i, p.n, many, l)
      BY <1>3, <1>6, <3>1, PrintMoves
    <3> QED
      BY <3>1, <3>2
  <2>5. ASSUME NEW l \in Forks!Lines
        PROVE  ComingOf(l)[r] \in Nat /\ Forks!HowMany(l, shown) \in Nat
    BY <1>1, <2>2, ComingOfType, HowManyType
  <2>6. \A l \in Forks!Lines :
            /\ ComingOf(l)[r] + Forks!HowMany(l, shown) <= ComingOf(l)[p] + Forks!HowMany(l, shown)
            /\ ~fork_failed => ComingOf(l)[r] + Forks!HowMany(l, shown) = ComingOf(l)[p] + Forks!HowMany(l, shown)
    BY <2>4, <2>5
  <2>7. IsState(Forks!BagAdd(Forks!BagRemove(procs, p), r), shown, fork_failed)
    BY <1>1, <2>2, <2>6, ProcessKeepsOn
  <2> QED
    BY <2>1, <2>7
<1> QED
  BY <1>5, <1>6

LEMMA ForkForks ==
  ASSUME IsExercise, IsState(procs, shown, fork_failed), NEW p \in DOMAIN procs, Forks!Fork(p) \/ Forks!ForkFails(p)
  PROVE  IsState(procs', shown', fork_failed')
<1>1. procs \in BagsOf(Processes) /\ shown \in BagsOf(Forks!Lines) /\ fork_failed \in BOOLEAN
  BY DEF IsState
<1>2. p \in Processes
  BY <1>1, BagIs
<1>3. /\ \A m : [p EXCEPT !.at = "forked", !.n = m] = [at |-> "forked", i |-> p.i, n |-> m, buf |-> p.buf]
      /\ IsPlace(p.at, p.i, p.n) /\ p.buf \in BagsOf(Forks!Lines) /\ (tty => p.buf = Forks!EmptyBag)
      /\ \A l : Forks!HowMany(l, p.buf) \in Nat
      /\ \A l : ComingOf(l)[p] = Coming(p.at, p.i, p.n, Forks!HowMany(l, p.buf), l)
  BY <1>2, ProcessIs
<1>4. p.at = "fork" /\ (exercise # "simplefork" => p.i < num_kids)
  BY DEF Forks!Fork, Forks!ForkFails, Forks!Forks, Forks!Loops
<1>5. p.n = "none" /\ IsPlace("fork", p.i, "none")
  BY <1>3, <1>4 DEF IsPlace
<1> DEFINE q(n) == [at |-> "forked", i |-> p.i, n |-> n, buf |-> p.buf]
<1>6. ASSUME NEW n PROVE [p EXCEPT !.at = "forked", !.n = n] = q(n)
  BY <1>3
<1>7. IsPlace("forked", p.i, "child") /\ IsPlace("forked", p.i, "parent") /\ IsPlace("forked", p.i, "failed")
  BY <1>4, <1>5 DEF IsPlace
<1>8. ASSUME NEW n, n \in {"child", "parent", "failed"}
      PROVE  q(n) \in Processes /\ \A l : ComingOf(l)[q(n)] = Coming("forked", p.i, n, Forks!HowMany(l, p.buf), l)
  <2>1. IsPlace("forked", p.i, n)
    BY <1>7, <1>8
  <2> DEFINE i == p.i
             buf == p.buf
  <2>2. buf \in BagsOf(Forks!Lines) /\ (tty => buf = Forks!EmptyBag) /\ IsPlace("forked", i, n)
    BY <1>3, <2>1
  <2>3. q(n) = [at |-> "forked", i |-> i, n |-> n, buf |-> buf]
    OBVIOUS
  <2> HIDE DEF i, buf, q
  <2>4. q(n) \in Processes /\ \A l : ComingOf(l)[q(n)] = Coming("forked", i, n, Forks!HowMany(l, buf), l)
    BY <2>2, <2>3, NewProcess
  <2> QED
    BY <2>4 DEF i, buf
<1> HIDE DEF q
<1>9. ASSUME NEW l \in Forks!Lines
      PROVE  /\ ComingOf(l)[q("child")] + ComingOf(l)[q("parent")] = ComingOf(l)[p]
             /\ ComingOf(l)[q("failed")] <= ComingOf(l)[p]
  <2> DEFINE many == Forks!HowMany(l, p.buf)
  <2>1. many \in Nat /\ ComingOf(l)[p] = Coming("fork", p.i, "none", many, l)
    BY <1>3, <1>4, <1>5
  <2>2. /\ ComingOf(l)[q("child")] = Coming("forked", p.i, "child", many, l)
        /\ ComingOf(l)[q("parent")] = Coming("forked", p.i, "parent", many, l)
        /\ ComingOf(l)[q("failed")] = Coming("forked", p.i, "failed", many, l)
    BY <1>8
  <2> HIDE DEF many
  <2> QED
    BY <1>4, <1>5, <2>1, <2>2, ForkDivides
<1>10. CASE Forks!Fork(p)
  <2>1. procs' = Forks!BagAdd(Forks!BagAdd(Forks!BagRemove(procs, p), q("child")), q("parent"))
        /\ shown' = shown /\ fork_failed' = fork_failed
    <3>1. [p EXCEPT !.at = "forked", !.n = "child"] = q("child") /\ [p EXCEPT !.at = "forked", !.n = "parent"] = q("parent")
      BY <1>6
    <3> QED
      BY <1>10, <3>1 DEF Forks!Fork
  <2>2. q("child") \in Processes /\ q("parent") \in Processes
    BY <1>8
  <2>3. IsState(Forks!BagAdd(Forks!BagAdd(Forks!BagRemove(procs, p), q("child")), q("parent")), shown, fork_failed)
    BY <1>9, <2>2, Splits
  <2> QED
    BY <2>1, <2>3
<1>11. CASE Forks!ForkFails(p)
  <2>1. procs' = Forks!BagAdd(Forks!BagRemove(procs, p), q("failed")) /\ shown' = shown /\ fork_failed' = TRUE
    <3>1. [p EXCEPT !.at = "forked", !.n = "failed"] = q("failed")
      BY <1>6
    <3> QED
      BY <1>11, <3>1 DEF Forks!ForkFails, Forks!Becomes
  <2>2. q("failed") \in Processes
    BY <1>8
  <2>3. ASSUME NEW l \in Forks!Lines
        PROVE  /\ ComingOf(l)[q("failed")] + Forks!HowMany(l, shown) <= ComingOf(l)[p] + Forks!HowMany(l, shown)
               /\ ~TRUE => ComingOf(l)[q("failed")] + Forks!HowMany(l, shown) = ComingOf(l)[p] + Forks!HowMany(l, shown)
    <3>1. ComingOf(l)[q("failed")] \in Nat /\ ComingOf(l)[p] \in Nat /\ Forks!HowMany(l, shown) \in Nat
      BY <1>1, <1>2, <2>2, ComingOfType, HowManyType
    <3> QED
      BY <1>9, <3>1
  <2>4. IsState(Forks!BagAdd(Forks!BagRemove(procs, p), q("failed")), shown, TRUE)
    BY <1>1, <2>2, <2>3, ProcessKeepsOn
  <2> QED
    BY <2>1, <2>4
<1> QED
  BY <1>10, <1>11

LEMMA ForkExits ==
  ASSUME IsExercise, IsState(procs, shown, fork_failed), NEW p \in DOMAIN procs, Forks!Exit(p)
  PROVE  IsState(procs', shown', fork_failed')
<1>1. procs \in BagsOf(Processes) /\ shown \in BagsOf(Forks!Lines) /\ fork_failed \in BOOLEAN
  BY DEF IsState
<1>2. p \in Processes
  BY <1>1, BagIs
<1>3. /\ IsPlace(p.at, p.i, p.n) /\ p.buf \in BagsOf(Forks!Lines)
      /\ \A l : Forks!HowMany(l, p.buf) \in Nat
      /\ \A l : ComingOf(l)[p] = Coming(p.at, p.i, p.n, Forks!HowMany(l, p.buf), l)
  BY <1>2, ProcessIs
<1>4. procs' = Forks!BagRemove(procs, p) /\ shown' = Both(shown, p.buf) /\ fork_failed' = fork_failed
  BY DEF Forks!Exit, Forks!(+), Both
<1>5. Both(shown, p.buf) \in BagsOf(Forks!Lines)
      /\ \A l : Forks!HowMany(l, Both(shown, p.buf)) = Forks!HowMany(l, shown) + Forks!HowMany(l, p.buf)
  BY <1>1, <1>3, HowManyTogether
<1>6. \/ p.at = "exit"
      \/ p.n = "failed" /\ p.at = (IF exercise # "simplefork" THEN "forked" ELSE "test")
      \/ exercise # "simplefork" /\ p.at = "fork" /\ p.i >= num_kids
  BY DEF Forks!Exit, Forks!Ends, Forks!Loops
<1>7. ASSUME NEW l \in Forks!Lines PROVE ComingOf(l)[p] = Forks!HowMany(l, p.buf)
  BY <1>3, <1>6, EndComes
<1>8. \A l \in Forks!Lines : Forks!HowMany(l, Both(shown, p.buf)) = Forks!HowMany(l, shown) + ComingOf(l)[p]
  BY <1>5, <1>7
<1>9. IsState(Forks!BagRemove(procs, p), Both(shown, p.buf), fork_failed)
  BY <1>5, <1>8, Leaves
<1> QED
  BY <1>4, <1>9

LEMMA SameRecord ==
  ASSUME NEW y, y = [f \in {"at", "i", "n", "buf"} |-> y[f]]
  PROVE  y = [at |-> y.at, i |-> y.i, n |-> y.n, buf |-> y.buf]
<1> DEFINE z == [at |-> y.at, i |-> y.i, n |-> y.n, buf |-> y.buf]
<1>1. z = [f \in {"at", "i", "n", "buf"} |-> z[f]] /\ z.at = y.at /\ z.i = y.i /\ z.n = y.n /\ z.buf = y.buf
  OBVIOUS
<1> HIDE DEF z
<1>2. \A f \in {"at", "i", "n", "buf"} : y[f] = z[f]
  BY <1>1
<1>3. y = z
  BY <1>1, <1>2
<1> QED
  BY <1>3 DEF z

LEMMA MovesAre ==
  ASSUME NEW p \in Processes
  PROVE  /\ \A a : [p EXCEPT !.at = a] = [at |-> a, i |-> p.i, n |-> p.n, buf |-> p.buf]
         /\ Forks!Again(p) = [at |-> "fork", i |-> p.i + 1, n |-> "none", buf |-> p.buf]
<1>1. DOMAIN p = {"at", "i", "n", "buf"}
  BY DEF Processes
<1>2. ASSUME NEW a PROVE [p EXCEPT !.at = a] = [at |-> a, i |-> p.i, n |-> p.n, buf |-> p.buf]
  <2> DEFINE y == [p EXCEPT !.at = a]
  <2>1. y = [f \in DOMAIN p |-> IF f = "at" THEN a ELSE p[f]]
    BY <1>1
  <2> HIDE DEF y
  <2>2. y = [f \in {"at", "i", "n", "buf"} |-> y[f]] /\ y.at = a /\ y.i = p.i /\ y.n = p.n /\ y.buf = p.buf
    BY <1>1, <2>1
  <2>3. y = [at |-> y.at, i |-> y.i, n |-> y.n, buf |-> y.buf]
    BY <2>2, SameRecord
  <2>4. y = [at |-> a, i |-> p.i, n |-> p.n, buf |-> p.buf]
    BY <2>2, <2>3
  <2> QED
    BY <2>4 DEF y
<1>3. Forks!Again(p) = [at |-> "fork", i |-> p.i + 1, n |-> "none", buf |-> p.buf]
  <2> DEFINE y == Forks!Again(p)
  <2>1. y = [f \in DOMAIN p |-> IF f = "n" THEN "none" ELSE IF f = "i" THEN p.i + 1 ELSE IF f = "at" THEN "fork" ELSE p[f]]
    BY <1>1 DEF Forks!Again
  <2> HIDE DEF y
  <2>2. y = [f \in {"at", "i", "n", "buf"} |-> y[f]] /\ y.at = "fork" /\ y.i = p.i + 1 /\ y.n = "none" /\ y.buf = p.buf
    BY <1>1, <2>1
  <2>3. y = [at |-> y.at, i |-> y.i, n |-> y.n, buf |-> y.buf]
    BY <2>2, SameRecord
  <2>4. y = [at |-> "fork", i |-> p.i + 1, n |-> "none", buf |-> p.buf]
    BY <2>2, <2>3
  <2> QED
    BY <2>4 DEF y
<1> QED
  BY <1>2, <1>3

LEMMA ForkPrintSteps ==
  ASSUME IsExercise, IsState(procs, shown, fork_failed), NEW p \in DOMAIN procs,
         Forks!SimpleFork(p) \/ Forks!ForkLoop(p) \/ Forks!ParentCreates(p)
  PROVE  IsState(procs', shown', fork_failed')
<1>1. p \in Processes
  BY BagIs DEF IsState
<1> DEFINE Q(at, i, n) == [at |-> at, i |-> i, n |-> n, buf |-> p.buf]
<1>2. ASSUME NEW a PROVE [p EXCEPT !.at = a] = Q(a, p.i, p.n)
  BY <1>1, MovesAre
<1>3. Forks!Again(p) = Q("fork", p.i + 1, "none")
  BY <1>1, MovesAre
<1>4. Forks!ChildLeft(p) = Q("exit", p.i, p.n)
  BY <1>2 DEF Forks!ChildLeft
<1> HIDE DEF Q
<1>5. fork_failed' = fork_failed
  BY DEF Forks!SimpleFork, Forks!ForkLoop, Forks!ParentCreates
<1>6. ASSUME NEW at2, NEW i2, NEW n2, NEW line,
             PrintStep(p.at, p.i, p.n, at2, i2, n2, line), Forks!Prints(p, line, Q(at2, i2, n2))
      PROVE  IsState(procs', shown', fork_failed')
  <2>1. Forks!Prints(p, line, [at |-> at2, i |-> i2, n |-> n2, buf |-> p.buf])
    BY <1>6 DEF Q
  <2> QED
    BY <1>5, <1>6, <2>1, ForkPrints
<1>7. CASE Forks!SimpleFork(p)
  <2>0. exercise = "simplefork"
    BY <1>7 DEF Forks!SimpleFork
  <2>1. CASE p.at = "start" /\ Forks!Prints(p, "A", [p EXCEPT !.at = "fork"])
    <3>1. PrintStep(p.at, p.i, p.n, "fork", p.i, p.n, "A") /\ Forks!Prints(p, "A", Q("fork", p.i, p.n))
      BY <1>2, <2>0, <2>1 DEF PrintStep
    <3> QED
      BY <1>6, <3>1
  <2>2. CASE p.at = "forked" /\ Forks!Prints(p, "B", [p EXCEPT !.at = "test"])
    <3>1. PrintStep(p.at, p.i, p.n, "test", p.i, p.n, "B") /\ Forks!Prints(p, "B", Q("test", p.i, p.n))
      BY <1>2, <2>0, <2>2 DEF PrintStep
    <3> QED
      BY <1>6, <3>1
  <2>3. CASE p.at = "test" /\ p.n = "child" /\ Forks!Prints(p, "C", [p EXCEPT !.at = "last"])
    <3>1. PrintStep(p.at, p.i, p.n, "last", p.i, p.n, "C") /\ Forks!Prints(p, "C", Q("last", p.i, p.n))
      BY <1>2, <2>0, <2>3 DEF PrintStep
    <3> QED
      BY <1>6, <3>1
  <2>4. CASE p.at = "test" /\ p.n = "parent" /\ Forks!Prints(p, "D", [p EXCEPT !.at = "last"])
    <3>1. PrintStep(p.at, p.i, p.n, "last", p.i, p.n, "D") /\ Forks!Prints(p, "D", Q("last", p.i, p.n))
      BY <1>2, <2>0, <2>4 DEF PrintStep
    <3> QED
      BY <1>6, <3>1
  <2>5. CASE p.at = "last" /\ Forks!Prints(p, "E", [p EXCEPT !.at = "exit"])
    <3>1. PrintStep(p.at, p.i, p.n, "exit", p.i, p.n, "E") /\ Forks!Prints(p, "E", Q("exit", p.i, p.n))
      BY <1>2, <2>0, <2>5 DEF PrintStep
    <3> QED
      BY <1>6, <3>1
  <2> QED
    BY <1>7, <2>1, <2>2, <2>3, <2>4, <2>5 DEF Forks!SimpleFork
<1>8. CASE Forks!ForkLoop(p)
  <2>1. PrintStep(p.at, p.i, p.n, "fork", p.i + 1, "none", p.i)
    BY <1>8 DEF Forks!ForkLoop, PrintStep
  <2>2. Forks!Prints(p, p.i, Q("fork", p.i + 1, "none"))
    BY <1>3, <1>8 DEF Forks!ForkLoop
  <2> QED
    BY <1>6, <2>1, <2>2
<1>9. CASE Forks!ParentCreates(p)
  <2>1. CASE p.n = "child" /\ Forks!Prints(p, <<"child", p.i>>, Forks!ChildLeft(p))
    <3>1. PrintStep(p.at, p.i, p.n, "exit", p.i, p.n, <<"child", p.i>>)
      BY <1>9, <2>1 DEF Forks!ParentCreates, PrintStep
    <3>2. Forks!Prints(p, <<"child", p.i>>, Q("exit", p.i, p.n))
      BY <1>4, <2>1
    <3> QED
      BY <1>6, <3>1, <3>2
  <2>2. CASE p.n = "parent" /\ Forks!Prints(p, <<"parent", p.i>>, Forks!Again(p))
    <3>1. PrintStep(p.at, p.i, p.n, "fork", p.i + 1, "none", <<"parent", p.i>>)
      BY <1>9, <2>2 DEF Forks!ParentCreates, PrintStep
    <3>2. Forks!Prints(p, <<"parent", p.i>>, Q("fork", p.i + 1, "none"))
      BY <1>3, <2>2
    <3> QED
      BY <1>6, <3>1, <3>2
  <2> QED
    BY <1>9, <2>1, <2>2 DEF Forks!ParentCreates
<1> QED
  BY <1>7, <1>8, <1>9

LEMMA ForkStarts == Forks!Init => ForkInv
<1> SUFFICES ASSUME Forks!Init PROVE ForkInv
  OBVIOUS
<1>1. IsExercise /\ fork_failed = FALSE /\ shown = Forks!EmptyBag
  BY ForksAssumption DEF Forks!Init, IsExercise
<1> DEFINE at == IF exercise # "simplefork" THEN "fork" ELSE "start"
           none == Forks!EmptyBag
           p == [at |-> at, i |-> 0, n |-> "none", buf |-> none]
<1>2. procs = Forks!SetToBag({p})
  BY DEF Forks!Init, Forks!Loops
<1>3. none \in BagsOf(Forks!Lines) /\ none \in BagsOf(Processes) /\ DOMAIN none = {}
  BY EmptyIs
<1>4. Forks!SetToBag({p}) = Forks!BagAdd(none, p)
  <2>1. none \in [{} -> Nat \ {0}]
    BY <1>3, BagIs
  <2> HIDE DEF none
  <2> DEFINE r == p
  <2> HIDE DEF r
  <2>2. Forks!SetToBag({r}) = [e \in {r} |-> 1]
    BY DEF Forks!SetToBag
  <2>3. Forks!BagAdd(none, r) = [e \in DOMAIN none \cup {r} |-> IF e = r THEN 1 ELSE none[e]]
    BY <1>3 DEF Forks!BagAdd
  <2>4. Forks!SetToBag({r}) = Forks!BagAdd(none, r)
    BY <1>3, <2>2, <2>3
  <2> QED
    BY <2>4 DEF r
<1> HIDE DEF none, at
<1>5. IsPlace(at, 0, "none")
  <2>1. at = IF exercise # "simplefork" THEN "fork" ELSE "start"
    BY DEF at
  <2> QED
    BY <1>1, <2>1 DEF IsPlace, IsExercise
<1>6. p \in Processes /\ \A l : ComingOf(l)[p] = Coming(at, 0, "none", Forks!HowMany(l, none), l)
  BY <1>1, <1>3, <1>5, NewProcess DEF none
<1> HIDE DEF p
<1>7. procs \in BagsOf(Processes)
  BY <1>2, <1>3, <1>4, <1>6, Added
<1>8. ASSUME NEW l \in Forks!Lines PROVE Owes(l, procs, shown, fork_failed)
  <2>1. Forks!HowMany(l, none) = 0
    BY HowManyNone DEF none
  <2>2. Coming(at, 0, "none", 0, l) = Forks!Copies(l)
    BY <1>1, StartComes DEF at
  <2> DEFINE w == ComingOf(l)
             c == Forks!Copies(l)
  <2>3. w[p] = c /\ c \in Nat
    BY <1>1, <1>6, <2>1, <2>2, CopiesType
  <2> HIDE DEF w, c
  <2>4. Weighs(Forks!BagAdd(none, p), 0 + w[p], Processes, w)
    BY <1>6, WeightOfNone, WeightOfMore DEF none
  <2>5. Weighs(procs, c, Processes, w)
    BY <1>2, <1>4, <2>3, <2>4
  <2>6. c + Forks!HowMany(l, shown) = c
    BY <1>1, <2>1, <2>3 DEF none
  <2> QED
    BY <2>3, <2>5, <2>6 DEF Owes, w, c
<1> QED
  BY <1>1, <1>3, <1>7, <1>8 DEF ForkInv, IsState, none

LEMMA ForkStays ==
  ASSUME exercise' = exercise, num_kids' = num_kids, tty' = tty
  PROVE  /\ IsExercise' <=> IsExercise
         /\ IsState(procs, shown, fork_failed)' <=> IsState(procs', shown', fork_failed')
<1>1. Forks!Lines' = Forks!Lines /\ \A l : Forks!Copies(l)' = Forks!Copies(l)
  BY DEF Forks!Lines, Forks!Copies
<1>2. ASSUME NEW at, NEW i, NEW n PROVE IsPlace(at, i, n)' <=> IsPlace(at, i, n)
  BY DEF IsPlace
<1>3. ASSUME NEW at, NEW i, NEW n, NEW many, NEW l PROVE Coming(at, i, n, many, l)' = Coming(at, i, n, many, l)
  BY DEF Coming, SimpleComing, LoopComing, ParentComing, Turns, If
<1>4. Processes' = Processes
  BY <1>1, <1>2 DEF Processes
<1>5. ASSUME NEW l PROVE ComingOf(l)' = ComingOf(l)
  BY <1>3, <1>4 DEF ComingOf
<1>6. IsExercise' <=> IsExercise
  BY DEF IsExercise
<1> QED
  BY <1>1, <1>4, <1>5, <1>6 DEF IsState, Owes

LEMMA ForkStep == ForkInv /\ [Forks!Next]_(Forks!vars) => ForkInv'
<1> SUFFICES ASSUME ForkInv, [Forks!Next]_(Forks!vars) PROVE ForkInv'
  OBVIOUS
<1>1. IsExercise /\ IsState(procs, shown, fork_failed)
  BY DEF ForkInv
<1>2. exercise' = exercise /\ num_kids' = num_kids /\ tty' = tty
  BY DEF Forks!Next, Forks!vars
<1>3. CASE Forks!Next
  <2>1. PICK p \in DOMAIN procs : \/ Forks!Fork(p) \/ Forks!ForkFails(p) \/ Forks!SimpleFork(p)
                                  \/ Forks!ForkLoop(p) \/ Forks!ParentCreates(p) \/ Forks!Exit(p)
    BY <1>3 DEF Forks!Next, Forks!BagToSet
  <2>2. IsState(procs', shown', fork_failed')
    BY <1>1, <2>1, ForkForks, ForkPrintSteps, ForkExits
  <2> QED
    BY <1>1, <1>2, <2>2, ForkStays DEF ForkInv
<1>4. CASE UNCHANGED Forks!vars
  <2>1. procs' = procs /\ shown' = shown /\ fork_failed' = fork_failed
    BY <1>4 DEF Forks!vars
  <2>2. IsState(procs', shown', fork_failed')
    BY <1>1, <2>1
  <2> QED
    BY <1>1, <1>2, <2>2, ForkStays DEF ForkInv
<1> QED
  BY <1>3, <1>4

LEMMA ForkInvSuffices == ForkInv => Forks!LinesPrinted
<1> SUFFICES ASSUME ForkInv PROVE Forks!LinesPrinted
  OBVIOUS
<1>1. IsExercise /\ IsState(procs, shown, fork_failed)
  BY DEF ForkInv
<1>2. procs \in BagsOf(Processes) /\ shown \in BagsOf(Forks!Lines)
  BY <1>1 DEF IsState
<1>3. Forks!BagToSet(shown) \subseteq Forks!Lines
  BY <1>2, BagIs DEF Forks!BagToSet
<1>4. ASSUME NEW l \in Forks!Lines
      PROVE  /\ Forks!HowMany(l, shown) <= Forks!Copies(l)
             /\ procs = Forks!EmptyBag /\ ~fork_failed => Forks!HowMany(l, shown) = Forks!Copies(l)
  <2> DEFINE w == ComingOf(l)
             h == Forks!HowMany(l, shown)
             c == Forks!Copies(l)
  <2>1. w \in [Processes -> Nat] /\ h \in Nat /\ c \in Nat
    BY <1>1, <1>2, ComingOfType, HowManyType, CopiesType
  <2>2. PICK t \in Nat : Weighs(procs, t, Processes, w) /\ t + h <= c /\ (~fork_failed => t + h = c)
    BY <1>1 DEF IsState, Owes
  <2> HIDE DEF w, h, c
  <2>3. procs = Forks!EmptyBag => t = 0
    BY <2>1, <2>2, NoWeight
  <2>4. h <= c /\ (procs = Forks!EmptyBag /\ ~fork_failed => h = c)
    BY <2>1, <2>2, <2>3
  <2> QED
    BY <2>4 DEF h, c
<1> QED
  BY <1>3, <1>4 DEF Forks!LinesPrinted

LEMMA ForksRun ==
  /\ ProgramsInit /\ program = "forks" => Forks!Init
  /\ program = "forks" /\ [ProgramsNext]_program_vars => [Forks!Next]_(Forks!vars)
<1>1. ProgramsInit /\ program = "forks" => Forks!Init
  BY DEF ProgramsInit
<1>2. program = "forks" /\ [ProgramsNext]_program_vars => [Forks!Next]_(Forks!vars)
  BY DEF ProgramsNext, Runs, WcRuns, WcFails, ForksStep, TimeReadsMain, TimeReadsTimer, TimeReadsStep,
         ValidateStep, ChatClientStep, ListSumStep, Wc, program_vars, fork_vars, Forks!vars
<1> QED
  BY <1>1, <1>2

(***************************************************************************)
(* LinesPrinted: however the processes of simplefork, forkloop and         *)
(* parentcreates are scheduled, for every argument, on a terminal and on a *)
(* pipe, no line is shown more often than the forks copy it, and exactly   *)
(* so often when all have ended and no fork failed.                       *)
(***************************************************************************)
THEOREM LinesPrintedHolds == ProgramsSpec => []LinesPrinted
<1> DEFINE Inv == program = "forks" => ForkInv
<1>1. ProgramsInit => Inv
  BY ForksRun, ForkStarts
<1>2. Inv /\ [ProgramsNext]_program_vars => Inv'
  BY ProgramStays, ForksRun, ForkStep
<1>3. Inv => LinesPrinted
  BY ForkInvSuffices DEF LinesPrinted
<1> QED
  BY <1>1, <1>2, <1>3, PTL DEF ProgramsSpec

===============================================================================
