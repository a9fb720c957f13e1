-------------------------- MODULE MyshDispatch_proofs --------------------------
(***************************************************************************)
(* Theorems on MyshDispatch, for every size of the array of tokens, every  *)
(* heap, and all lines and words.                                          *)
(***************************************************************************)
EXTENDS MyshDispatch, SeqFacts, FiniteSetTheorems

-----------------------------------------------------------------------------
(* The tables.                                                             *)

(* The loop over BUILTINS stops at a name, if it is there once.            *)
LEMMA FoundAt ==
  ASSUME NEW i \in 1 .. Len(BUILTINS), DOMAIN BUILTINS = 1 .. Len(BUILTINS),
         NEW cmd, \A j \in 1 .. Len(BUILTINS) : BUILTINS[j] = cmd <=> j = i
  PROVE  cmd_num(cmd) = i
<1> DEFINE I == {j \in 1 .. Len(BUILTINS) : BUILTINS[j] = cmd}
<1>1. I = {i}
  OBVIOUS
<1>2. Min(I) = i
  BY <1>1 DEF Min
<1>3. SelectInSeq(BUILTINS, LAMBDA b : b = cmd) = IF I # {} THEN Min(I) ELSE 0
  BY DEF SelectInSeq
<1>4. cmd \in Range(BUILTINS)
  BY DEF Range
<1> QED
  BY <1>1, <1>2, <1>3, <1>4 DEF cmd_num

(* Otherwise it ends behind the last one. *)
LEMMA NotFound ==
  ASSUME DOMAIN BUILTINS = 1 .. Len(BUILTINS),
         NEW cmd, \A j \in 1 .. Len(BUILTINS) : BUILTINS[j] # cmd
  PROVE  cmd_num(cmd) = Len(BUILTINS) + 1
BY DEF cmd_num, Range

LEMMA OneBuiltin ==
  ASSUME milestone \in {1, 2}, NEW cmd
  PROVE  check_builtin(cmd) = IF cmd = "echo" THEN "bn_echo" ELSE "NULL"
<1>1. /\ Len(BUILTINS) = 1 /\ DOMAIN BUILTINS = 1..1 /\ BUILTINS[1] = "echo"
      /\ BUILTINS_FN[1] = "bn_echo" /\ BUILTINS_FN[2] = "NULL"
  BY DEF BUILTINS, BUILTINS_FN
<1>2. CASE cmd = "echo"
  BY <1>1, <1>2, FoundAt DEF check_builtin
<1>3. CASE cmd # "echo"
  BY <1>1, <1>3, NotFound DEF check_builtin
<1> QED
  BY <1>2, <1>3

LEMMA SixBuiltins ==
  ASSUME milestone = 3, NEW cmd
  PROVE  /\ cmd \in DOMAIN OwnFunction => check_builtin(cmd) = OwnFunction[cmd]
         /\ cmd \notin DOMAIN OwnFunction => check_builtin(cmd) = "NULL"
<1>1. /\ Len(BUILTINS) = 6 /\ DOMAIN BUILTINS = 1..6
      /\ BUILTINS[1] = "echo" /\ BUILTINS[2] = "wc" /\ BUILTINS[3] = "cat"
      /\ BUILTINS[4] = "cd" /\ BUILTINS[5] = "pwd" /\ BUILTINS[6] = "ls"
  BY DEF BUILTINS
<1>2. /\ BUILTINS_FN[1] = "bn_echo" /\ BUILTINS_FN[2] = "word_count"
      /\ BUILTINS_FN[3] = "cat" /\ BUILTINS_FN[4] = "cd" /\ BUILTINS_FN[5] = "pwd"
      /\ BUILTINS_FN[6] = "bn_ls" /\ BUILTINS_FN[7] = "NULL"
  BY DEF BUILTINS_FN
<1>3. DOMAIN OwnFunction = {"echo", "wc", "cat", "cd", "pwd", "ls"}
  BY DEF OwnFunction
<1>4. ASSUME NEW i \in 1..6, cmd = BUILTINS[i]
      PROVE  check_builtin(cmd) = BUILTINS_FN[i]
  <2>1. \A j \in 1..6 : BUILTINS[j] = cmd <=> j = i
    BY <1>1, <1>4
  <2> QED
    BY <1>1, <2>1, FoundAt DEF check_builtin
<1>5. ASSUME cmd \in DOMAIN OwnFunction
      PROVE  check_builtin(cmd) = OwnFunction[cmd]
  <2>1. PICK i \in 1..6 : cmd = BUILTINS[i]
    BY <1>1, <1>3, <1>5
  <2>2. check_builtin(cmd) = BUILTINS_FN[i]
    BY <1>4, <2>1
  <2>3. OwnFunction[cmd] = BUILTINS_FN[i]
    BY <1>1, <1>2, <2>1 DEF OwnFunction
  <2> QED
    BY <2>2, <2>3
<1>6. ASSUME cmd \notin DOMAIN OwnFunction
      PROVE  check_builtin(cmd) = "NULL"
  <2>1. \A j \in 1..6 : BUILTINS[j] # cmd
    BY <1>1, <1>3, <1>6
  <2> QED
    BY <1>1, <1>2, <2>1, NotFound DEF check_builtin
<1> QED
  BY <1>5, <1>6

(* In milestones 1 to 3 the tables are parallel: what stands beside a name *)
(* of the milestone is its own function, beside anything else there is     *)
(* the NULL at the end.                                                    *)
LEMMA TablesParallel ==
  ASSUME milestone \in 1..3, NEW cmd
  PROVE  check_builtin(cmd) = IF Offered(cmd) THEN OwnFunction[cmd] ELSE "NULL"
<1> DEFINE Names == {"echo", "wc", "cat", "cd", "pwd", "ls"}
<1>1. DOMAIN OwnFunction = Names
  BY DEF OwnFunction
<1>2. CASE milestone \in {1, 2}
  <2>1. Range(BUILTINS_FN) = {"bn_echo", "NULL"}
    BY <1>2 DEF BUILTINS_FN, Range
  <2>2. Offered(cmd) <=> cmd = "echo"
    BY <1>1, <2>1 DEF Offered, OwnFunction
  <2> QED
    BY <1>2, <2>2, OneBuiltin DEF OwnFunction
<1>3. CASE milestone = 3
  <2>1. Range(BUILTINS_FN) = {"bn_echo", "word_count", "cat", "cd", "pwd", "bn_ls", "NULL"}
    BY <1>3 DEF BUILTINS_FN, Range
  <2>2. Offered(cmd) <=> cmd \in Names
    BY <1>1, <2>1 DEF Offered, OwnFunction
  <2> QED
    BY <1>1, <1>3, <2>2, SixBuiltins
<1> QED
  BY <1>2, <1>3

-----------------------------------------------------------------------------
(* The main loop.                                                          *)

(***************************************************************************)
(* The line being handled is one the user may enter; its tokens are in the *)
(* first slots, whatever the array held before, and a NULL is behind them. *)
(***************************************************************************)
SlotsInv ==
  /\ milestone \in 1..4
  /\ pc = "dispatch" =>
       /\ line \in Lines
       /\ \A i \in 1..Len(line) : token_arr[i] = line[i]
       /\ Null(Len(line) + 1)

(* The invariant holds at first, and only the tokenizer fills slots.       *)
THEOREM SlotsInvHolds == Spec => []SlotsInv
<1>1. Init => SlotsInv
  BY DispatchAssumption DEF Init, SlotsInv
<1>2. SlotsInv /\ [Next]_vars => SlotsInv'
  <2> SUFFICES ASSUME SlotsInv, [Next]_vars PROVE SlotsInv'
    OBVIOUS
  <2> USE DEF SlotsInv, Null
  <2>1. ASSUME NEW l \in Lines, tokenize_input(l) PROVE SlotsInv'
    <3>1. PICK moved \in SUBSET {i \in Len(l)+2 .. Slots : ~Null(i)} :
            token_arr' = Tokenized(l, moved)
      BY <2>1 DEF tokenize_input
    <3>2. l \in Seq(Words) /\ Len(l) \in Nat /\ Len(l) < Slots /\ Slots \in Nat
      BY DispatchAssumption
    <3>3. ASSUME NEW i \in 1 .. Len(l) + 1
          PROVE  token_arr'[i] = IF i <= Len(l) THEN l[i] ELSE "NULL"
      <4>1. i \in 1..Slots /\ i \notin moved /\ (~(i <= Len(l)) => i = Len(l) + 1)
        BY <3>2
      <4>2. token_arr'[i] = CASE i <= Len(l) -> l[i]
                              [] i = Len(l) + 1 -> "NULL"
                              [] i \in moved -> "tail"
                              [] OTHER -> token_arr[i]
        BY <3>1, <4>1, Zenon DEF Tokenized
      <4>3. CASE i <= Len(l)
        <5>1. i # Len(l) + 1
          BY <3>2, <4>3
        <5> QED
          BY <4>1, <4>2, <4>3, <5>1
      <4>4. CASE ~(i <= Len(l))
        BY <4>1, <4>2, <4>4
      <4> QED
        BY <4>3, <4>4
    <3>4. \A i \in 1..Len(l) : token_arr'[i] = l[i]
      BY <3>2, <3>3
    <3>5. token_arr'[Len(l) + 1] = "NULL"
      BY <3>2, <3>3
    <3>6. line' = l /\ milestone' = milestone
      BY <2>1 DEF tokenize_input
    <3> QED
      BY <3>4, <3>5, <3>6 DEF Null
  <2>2. ASSUME NEW l \in Lines, tokenize_fails(l) PROVE SlotsInv'
    BY <2>2 DEF tokenize_fails
  <2>3. CASE DispatchEmpty \/ DispatchExit
    BY <2>3 DEF DispatchEmpty, DispatchExit
  <2>4. CASE DispatchAssignment
    BY <2>4 DEF DispatchAssignment
  <2>5. CASE DispatchBuiltin
    BY <2>5 DEF DispatchBuiltin
  <2>6. CASE DispatchUnknown
    BY <2>6 DEF DispatchUnknown
  <2>7. CASE FreeTokens
    BY <2>7 DEF FreeTokens
  <2>8. CASE UNCHANGED vars
    BY <2>8 DEF vars
  <2> QED
    BY <2>1, <2>2, <2>3, <2>4, <2>5, <2>6, <2>7, <2>8 DEF Next
<1> QED
  BY <1>1, <1>2, PTL DEF Spec

(* In milestones 1 to 3 a word that names a builtin runs that builtin, and *)
(* any other word runs nothing, after whatever lines came before.          *)
THEOREM AnsweredByNameHolds == Spec => AnsweredByNameTo3
<1>1. SlotsInv /\ [Next]_vars => [Answers /\ milestone < 4 => AnsweredRight]_vars
  <2> SUFFICES ASSUME SlotsInv, Next, Answers, milestone < 4
               PROVE  AnsweredRight
    OBVIOUS
  <2> DEFINE cmd == token_arr[1]
  <2>1. milestone \in 1..3 /\ cmd = line[1]
    <3>1. line \in Seq(Words) /\ line # << >>
      BY DispatchAssumption DEF SlotsInv, Answers
    <3>2. 1 \in 1..Len(line)
      BY <3>1
    <3> QED
      BY <3>2 DEF SlotsInv, Answers
  <2>2. check_builtin(cmd) = IF Offered(cmd) THEN OwnFunction[cmd] ELSE "NULL"
    BY <2>1, TablesParallel
  <2>3. Offered(cmd) => OwnFunction[cmd] # "NULL"
    BY DEF Offered, OwnFunction
  <2>4. CASE DispatchBuiltin
    BY <2>1, <2>2, <2>4 DEF DispatchBuiltin, AnsweredRight
  <2>5. CASE DispatchUnknown
    BY <2>1, <2>2, <2>3, <2>5 DEF DispatchUnknown, AnsweredRight
  <2>6. DispatchBuiltin \/ DispatchUnknown
    BY DEF Next, Answers, IsCommand, tokenize_input, tokenize_fails, DispatchEmpty,
           DispatchExit, DispatchAssignment, FreeTokens
  <2> QED
    BY <2>4, <2>5, <2>6
<1> QED
  BY <1>1, SlotsInvHolds, PTL DEF Spec, AnsweredByNameTo3
-----------------------------------------------------------------------------
(* The types.                                                              *)

(* The search ends in a slot of BUILTINS_FN, in every milestone.           *)
LEMMA FnOfTable ==
  ASSUME milestone \in 1..4, NEW cmd
  PROVE  check_builtin(cmd) \in Range(BUILTINS_FN)
<1>1. milestone = 1 \/ milestone = 2 \/ milestone = 3 \/ milestone = 4
  OBVIOUS
<1>2. CASE milestone \in 1..3
  <2>1. "NULL" \in Range(BUILTINS_FN)
    <3>1. CASE milestone \in {1, 2}
      BY <3>1 DEF BUILTINS_FN, Range
    <3>2. CASE milestone = 3
      BY <3>2 DEF BUILTINS_FN, Range
    <3> QED
      BY <1>2, <3>1, <3>2
  <2> QED
    BY <1>2, <2>1, TablesParallel DEF Offered
<1>3. CASE milestone = 4
  <2>1. /\ Len(BUILTINS) = 4 /\ DOMAIN BUILTINS = 1..4
        /\ BUILTINS[1] = "echo" /\ BUILTINS[2] = "wc" /\ BUILTINS[3] = "cat"
        /\ BUILTINS[4] = "cdls"
    BY <1>3 DEF BUILTINS
  <2>2. Range(BUILTINS_FN) = {BUILTINS_FN[i] : i \in 1..6}
    BY <1>3 DEF BUILTINS_FN, Range
  <2>3. cmd_num(cmd) \in 1..5
    <3>1. ASSUME NEW i \in 1..4, cmd = BUILTINS[i]
          PROVE  cmd_num(cmd) = i
      <4>1. \A j \in 1..4 : BUILTINS[j] = cmd <=> j = i
        BY <2>1, <3>1
      <4> QED
        BY <2>1, <4>1, FoundAt
    <3>2. ASSUME \A i \in 1..4 : cmd # BUILTINS[i]
          PROVE  cmd_num(cmd) = 5
      BY <2>1, <3>2, NotFound
    <3> QED
      BY <3>1, <3>2
  <2> QED
    BY <2>2, <2>3 DEF check_builtin
<1> QED
  BY <1>1, <1>2, <1>3

LEMMA TypeStep == TypeOK /\ [Next]_vars => TypeOK'
<1> SUFFICES ASSUME TypeOK, [Next]_vars PROVE TypeOK'
  OBVIOUS
<1>0. /\ milestone \in 1..4 /\ Slots \in Nat /\ HeapLimit \in Nat /\ blocks \in Nat
      /\ blocks <= HeapLimit
  BY DispatchAssumption DEF TypeOK
<1>1. ASSUME NEW l \in Lines
      PROVE  l \in Seq(Words) /\ Len(l) \in Nat /\ \A i \in 1 .. Len(l) : l[i] \in Words
  BY DispatchAssumption
<1>2. ASSUME milestone' = milestone
      PROVE  BUILTINS_FN' = BUILTINS_FN
  BY <1>2 DEF BUILTINS_FN
<1>3. ASSUME NEW l \in Lines, tokenize_input(l) PROVE TypeOK'
  <2>1. PICK moved : token_arr' = Tokenized(l, moved)
    BY <1>3 DEF tokenize_input
  <2>2. ASSUME NEW i \in 1..Slots
        PROVE  (CASE i <= Len(l) -> l[i]
                  [] i = Len(l) + 1 -> "NULL"
                  [] i \in moved -> "tail"
                  [] OTHER -> token_arr[i]) \in Words \cup {"NULL", "tail"}
    BY <1>1 DEF TypeOK
  <2>3. token_arr' \in [1..Slots -> Words \cup {"NULL", "tail"}]
    BY <2>1, <2>2 DEF Tokenized
  <2>4. blocks' \in 0..HeapLimit
    BY <1>0, <1>1, <1>3 DEF tokenize_input, BlocksFor
  <2> QED
    BY <1>2, <1>3, <2>3, <2>4 DEF tokenize_input, TypeOK
<1>4. ASSUME NEW l \in Lines, tokenize_fails(l) PROVE TypeOK'
  <2>1. PICK moved :
          token_arr' = [i \in 1..Slots |->
                          CASE i <= HeapLimit - blocks -> l[i]
                            [] i > HeapLimit - blocks /\ i \in moved -> "tail"
                            [] OTHER -> token_arr[i]]
    BY <1>4 DEF tokenize_fails
  <2>2. blocks + Len(l) > HeapLimit
    BY <1>0, <1>1, <1>4 DEF tokenize_fails, BlocksFor
  <2>3. ASSUME NEW i \in 1..Slots
        PROVE  (CASE i <= HeapLimit - blocks -> l[i]
                  [] i > HeapLimit - blocks /\ i \in moved -> "tail"
                  [] OTHER -> token_arr[i]) \in Words \cup {"NULL", "tail"}
    <3>1. i <= HeapLimit - blocks => i \in 1 .. Len(l)
      BY <1>0, <1>1, <2>2
    <3> QED
      BY <1>1, <3>1 DEF TypeOK
  <2>4. token_arr' \in [1..Slots -> Words \cup {"NULL", "tail"}]
    BY <2>1, <2>3
  <2> QED
    BY <1>0, <1>2, <1>4, <2>4 DEF tokenize_fails, TypeOK
<1>5. CASE DispatchEmpty \/ DispatchExit \/ FreeTokens
  BY <1>2, <1>5 DEF DispatchEmpty, DispatchExit, FreeTokens, TypeOK
<1>6. CASE DispatchAssignment
  BY <1>2, <1>6 DEF DispatchAssignment, TypeOK
<1>7. CASE DispatchBuiltin
  <2>1. answer'.fn = check_builtin(token_arr[1])
    BY <1>7 DEF DispatchBuiltin
  <2>2. check_builtin(token_arr[1]) \in Range(BUILTINS_FN) \ {"NULL"}
    BY <1>0, <1>7, FnOfTable DEF DispatchBuiltin
  <2> QED
    BY <1>2, <1>7, <2>1, <2>2 DEF DispatchBuiltin, TypeOK
<1>8. CASE DispatchUnknown
  BY <1>2, <1>8 DEF DispatchUnknown, TypeOK
<1>9. CASE UNCHANGED vars
  BY <1>2, <1>9 DEF vars, TypeOK
<1> QED
  BY <1>3, <1>4, <1>5, <1>6, <1>7, <1>8, <1>9 DEF Next

(* The slots hold words, NULL or the rest of a line; the blocks in use fit *)
(* the heap; and every answer is that of the table.                        *)
THEOREM TypeCorrect == Spec => []TypeOK
<1>1. Init => TypeOK
  BY DispatchAssumption DEF Init, TypeOK
<1> QED
  BY <1>1, TypeStep, PTL DEF Spec

-----------------------------------------------------------------------------
(* The path among the arguments of ls.                                     *)

(* What the loop goes on with from slot i, given what it would from i + 1  *)
(* and i + 2.                                                              *)
From(i, next, over) ==
  IF i > Slots THEN << >>
  ELSE IF Null(i) THEN << >>
  ELSE IF token_arr[i] \in {"--d", "--f"} THEN over
  ELSE IF token_arr[i] = "--rec" THEN next
  ELSE <<i>> \o next

IsFrom(f, low) ==
  /\ f \in [low .. Slots + 2 -> Seq(Nat)]
  /\ \A i \in low .. Slots + 2 : f[i] = From(i, f[i+1], f[i+2])

(* Such a function exists, from the last slot down to any other. *)
LEMMA FromExists == \A n \in 0..Slots : \E f : IsFrom(f, Slots + 2 - n)
<1>0. Slots \in Nat
  BY DispatchAssumption
<1> DEFINE Has(n) == n <= Slots => \E f : IsFrom(f, Slots + 2 - n)
           P == {n \in Nat : Has(n)}
<1>1. 0 \in P
  <2> DEFINE f == [i \in Slots + 2 .. Slots + 2 |-> << >>]
             low == Slots + 2 - 0
  <2>1. f \in [low .. Slots + 2 -> Seq(Nat)]
    BY <1>0
  <2>2. \A i \in low .. Slots + 2 : i > Slots /\ f[i] = << >>
    BY <1>0
  <2>3. IsFrom(f, low)
    BY <2>1, <2>2 DEF IsFrom, From
  <2> HIDE DEF f, low
  <2> QED
    BY <2>3 DEF low
<1>2. ASSUME NEW n \in Nat, n \in P PROVE n + 1 \in P
  <2> SUFFICES ASSUME n + 1 <= Slots PROVE \E g : IsFrom(g, Slots + 2 - (n + 1))
    OBVIOUS
  <2> DEFINE low == Slots + 2 - n
             new == low - 1
             top == Slots + 2
  <2>1. /\ low \in Int /\ new \in Int /\ top \in Int /\ new + 1 = low /\ new <= top
        /\ new = Slots + 2 - (n + 1)
        /\ new + 2 <= top + 1 /\ (new <= Slots => new + 2 <= top)
    BY <1>0
  <2>2. PICK f : IsFrom(f, low)
    BY <1>0, <1>2
  <2> HIDE DEF low, new, top
  <2> DEFINE v == From(new, f[new+1], f[new+2])
             g == [i \in new..top |-> IF i = new THEN v ELSE f[i]]
  <2>3. \A i \in new..top : i = new \/ i \in low..top
    BY <2>1
  <2>4. \A i \in low..top : i \in new..top /\ i # new /\ f[i] \in Seq(Nat) /\ f[i] = From(i, f[i+1], f[i+2])
    BY <2>1, <2>2 DEF IsFrom, top
  <2>5. new <= Slots => new + 1 \in low..top /\ new + 2 \in low..top
    BY <2>1
  <2>6. v \in Seq(Nat)
    <3>1. CASE new > Slots
      BY <3>1 DEF From
    <3>2. CASE ~(new > Slots)
      <4>1. new \in Nat /\ f[new+1] \in Seq(Nat) /\ f[new+2] \in Seq(Nat)
        BY <1>0, <2>1, <2>4, <2>5, <3>2 DEF low, new
      <4>2. <<new>> \o f[new+1] \in Seq(Nat)
        BY <4>1
      <4> QED
        BY <4>1, <4>2 DEF From
    <3> QED
      BY <3>1, <3>2
  <2>7. g \in [new..top -> Seq(Nat)]
    BY <2>3, <2>4, <2>6
  <2>8. ASSUME NEW i \in new..top PROVE g[i] = From(i, g[i+1], g[i+2])
    <3>1. CASE i > Slots
      <4>1. From(i, g[i+1], g[i+2]) = << >> /\ From(i, f[i+1], f[i+2]) = << >>
        BY <3>1 DEF From
      <4> QED
        BY <2>3, <2>4, <4>1
    <3>2. CASE ~(i > Slots)
      <4>1. i + 1 \in low..top /\ i + 2 \in low..top
        BY <1>0, <2>1, <3>2 DEF top
      <4>2. g[i+1] = f[i+1] /\ g[i+2] = f[i+2]
        BY <2>4, <4>1
      <4> QED
        BY <2>3, <2>4, <4>2
    <3> QED
      BY <3>1, <3>2
  <2>9. IsFrom(g, new)
    BY <2>7, <2>8 DEF IsFrom, top
  <2> QED
    BY <2>1, <2>9, Zenon
<1> HIDE DEF P, Has
<1>3. \A n \in Nat : n \in P
  BY <1>1, <1>2, NatSetInduction
<1>4. \A n \in Nat : Has(n)
  BY <1>3 DEF P
<1> QED
  BY <1>0, <1>4 DEF Has

(* The loop, from the second slot on. *)
LoopFrom(f) == \A i \in 2 .. Slots + 2 : f[i] = From(i, f[i+1], f[i+2])

LEMMA PathSlotsIs == \E f : LoopFrom(f) /\ PathSlots = f[2]
<1>0. Slots \in Nat /\ Slots \in 0..Slots /\ 2 = Slots + 2 - Slots
  BY DispatchAssumption
<1> DEFINE Eq(f) == f = [i \in 2 .. Slots + StepOver |->
                           IF i > Slots THEN << >>
                           ELSE IF Null(i) THEN << >>
                           ELSE IF token_arr[i] \in {"--d", "--f"} THEN f[i + StepOver]
                           ELSE IF token_arr[i] = "--rec" THEN f[i + 1]
                           ELSE <<i>> \o f[i + 1]]
           from == CHOOSE f : Eq(f)
<1>1. PathSlots = from[2]
  BY Zenon DEF PathSlots
<1>2. PICK f : IsFrom(f, Slots + 2 - Slots)
  BY <1>0, FromExists
<1>3. IsFrom(f, 2)
  BY <1>0, <1>2
<1>4. Eq(f)
  BY <1>3 DEF IsFrom, From, StepOver
<1>5. Eq(from)
  BY <1>4, Zenon
<1> HIDE DEF from
<1>6. LoopFrom(from)
  BY <1>5 DEF LoopFrom, From, StepOver
<1> QED
  BY <1>1, <1>6

(* The slots found are those of P, as far as ls asks: none, one or more. *)
Finds(s, P) ==
  /\ s \in Seq(Nat)
  /\ s = << >> => P = {}
  /\ Len(s) = 1 => P = {s[1]}
  /\ Len(s) > 1 => \E x, y \in P : x # y

LEMMA FindsMore ==
  ASSUME NEW s, NEW P, Finds(s, P), NEW i \in Nat, i \notin P
  PROVE  Finds(<<i>> \o s, P \cup {i})
<1> DEFINE t == <<i>> \o s
<1>1. s \in Seq(Nat) /\ Len(s) \in Nat
  BY DEF Finds
<1>2. t \in Seq(Nat) /\ Len(t) = Len(s) + 1 /\ t[1] = i
  BY <1>1
<1>3. t # << >>
  BY <1>1, <1>2
<1> HIDE DEF t
<1>4. CASE Len(s) = 0
  <2>1. P = {}
    BY <1>1, <1>4 DEF Finds
  <2> QED
    BY <1>2, <1>3, <1>4, <2>1 DEF Finds, t
<1>5. CASE Len(s) # 0
  <2>1. P # {}
    <3>1. \A k \in Nat : k = 0 \/ k = 1 \/ k > 1
      OBVIOUS
    <3>2. Len(s) = 1 \/ Len(s) > 1
      BY <1>1, <1>5, <3>1
    <3>3. (Len(s) = 1 => P = {s[1]}) /\ (Len(s) > 1 => \E x, y \in P : x # y)
      BY DEF Finds
    <3> QED
      BY <3>2, <3>3
  <2>2. \E x, y \in P \cup {i} : x # y
    BY <2>1
  <2>3. Len(t) # 1
    BY <1>1, <1>2, <1>5
  <2> QED
    BY <1>2, <1>3, <2>2, <2>3 DEF Finds, t
<1> QED
  BY <1>4, <1>5

(* What is known of an array that holds a line of ls. *)
LsLine ==
  /\ line \in Seq(Words) /\ line # << >> /\ Len(line) < Slots
  /\ line[1] = "ls" /\ WellFormed(line)
  /\ \A i \in 1..Len(line) : token_arr[i] = line[i] /\ ~Null(i)
  /\ Null(Len(line) + 1)

PathsFrom(i) == {j \in PathsAt(line) : j >= i}

(* The loop finds the arguments that are neither flags nor their values,   *)
(* and reads no slot behind the line.                                      *)
LEMMA PathsFound ==
  ASSUME LsLine
  PROVE  Finds(PathSlots, PathsAt(line))
<1> DEFINE n == Len(line)
<1>0. n \in Nat \ {0} /\ n < Slots /\ Slots \in Nat /\ DOMAIN line = 1..n
  BY DispatchAssumption DEF LsLine
<1>1. PICK f : LoopFrom(f) /\ PathSlots = f[2]
  BY PathSlotsIs
<1> DEFINE Good(i) == ~IsValue(line, i) => Finds(f[i], PathsFrom(i))
           All(k) == \A i \in 2..n+1 : i >= n + 1 - k => Good(i)
           P == {k \in Nat : All(k)}
<1>2. 0 \in P
  <2> SUFFICES ASSUME NEW i \in 2..n+1, i >= n + 1 - 0 PROVE Finds(f[i], PathsFrom(i))
    OBVIOUS
  <2>1. i = n + 1 /\ i \in 2 .. Slots + 2 /\ ~(i > Slots)
    BY <1>0
  <2>2. f[i] = << >>
    BY <1>1, <2>1 DEF LoopFrom, From, LsLine
  <2>3. PathsFrom(i) = {}
    BY <1>0, <2>1 DEF PathsFrom, PathsAt
  <2> QED
    BY <2>2, <2>3 DEF Finds
<1>3. ASSUME NEW k \in Nat, k \in P PROVE k + 1 \in P
  <2>0. \A i \in 2..n+1 : i >= n + 1 - k => Good(i)
    BY <1>3
  <2> SUFFICES ASSUME NEW i \in 2..n+1, i >= n + 1 - (k + 1), ~IsValue(line, i)
               PROVE  Finds(f[i], PathsFrom(i))
    OBVIOUS
  <2>1. CASE i >= n + 1 - k
    BY <2>0, <2>1
  <2>2. CASE ~(i >= n + 1 - k)
    <3> DEFINE i1 == i + 1
               i2 == i + 2
    <3>1. /\ i \in 2..n /\ i \in Nat /\ i \in 2 .. Slots + 2 /\ ~(i > Slots) /\ i \in DOMAIN line
          /\ i1 \in 2..n+1 /\ i1 >= n + 1 - k /\ i2 >= n + 1 - k
          /\ i1 - 1 = i /\ i2 - 1 = i1 /\ i1 > 1 /\ i2 > 1
          /\ i1 \in Nat /\ i2 \in Nat
      BY <1>0, <2>2
    <3>2. f[i] = From(i, f[i1], f[i2]) /\ token_arr[i] = line[i] /\ ~Null(i)
      BY <1>1, <3>1 DEF LoopFrom, LsLine
    <3>3. \A j \in PathsAt(line) :
            j \in Nat /\ (j >= i <=> j = i \/ j >= i1) /\ (j >= i1 <=> j = i1 \/ j >= i2)
      BY <3>1 DEF PathsAt
    <3> HIDE DEF i1, i2, Good
    <3>4. CASE line[i] \in {"--d", "--f"}
      <4>1. i < n /\ line[i1] \notin ValueFlags
        BY <3>1, <3>4 DEF LsLine, WellFormed, ValueFlags, i1
      <4>2. i2 \in 2..n+1 /\ i1 \in 2..n
        BY <1>0, <3>1, <4>1 DEF i1, i2
      <4>3. ~IsValue(line, i2) /\ IsValue(line, i1)
        BY <3>1, <3>4, <4>1 DEF IsValue, ValueFlags
      <4>4. Finds(f[i2], PathsFrom(i2))
        BY <2>0, <3>1, <4>2, <4>3 DEF Good
      <4>5. i \notin PathsAt(line) /\ i1 \notin PathsAt(line)
        BY <3>4, <4>3 DEF PathsAt, ValueFlags
      <4>6. PathsFrom(i) = PathsFrom(i2)
        BY <3>3, <4>5 DEF PathsFrom
      <4>7. f[i] = f[i2]
        BY <3>1, <3>2, <3>4 DEF From
      <4> QED
        BY <4>4, <4>6, <4>7
    <3>5. CASE line[i] \notin {"--d", "--f"}
      <4>1. ~IsValue(line, i1)
        BY <3>1, <3>5 DEF IsValue, ValueFlags
      <4>2. Finds(f[i1], PathsFrom(i1))
        BY <2>0, <3>1, <4>1 DEF Good
      <4>3. CASE line[i] = "--rec"
        <5>1. i \notin PathsAt(line)
          BY <4>3 DEF PathsAt
        <5>2. PathsFrom(i) = PathsFrom(i1)
          BY <3>3, <5>1 DEF PathsFrom
        <5>3. f[i] = f[i1]
          BY <3>1, <3>2, <3>5, <4>3 DEF From
        <5> QED
          BY <4>2, <5>2, <5>3
      <4>4. CASE line[i] # "--rec"
        <5>1. i \in PathsAt(line)
          BY <3>1, <3>5, <4>4 DEF PathsAt, ValueFlags
        <5>2. PathsFrom(i) = PathsFrom(i1) \cup {i} /\ i \notin PathsFrom(i1)
          <6>1. i >= i /\ ~(i >= i1)
            BY <3>1 DEF i1
          <6>2. \A j : j \in PathsFrom(i) <=> j \in PathsFrom(i1) \/ j = i
            BY <3>3, <5>1, <6>1 DEF PathsFrom
          <6> QED
            BY <6>1, <6>2 DEF PathsFrom
        <5>3. f[i] = <<i>> \o f[i1]
          BY <3>1, <3>2, <3>5, <4>4 DEF From
        <5> QED
          BY <3>1, <4>2, <5>2, <5>3, FindsMore
      <4> QED
        BY <4>3, <4>4
    <3> QED
      BY <3>4, <3>5
  <2> QED
    BY <2>1, <2>2
<1> HIDE DEF P, All
<1>4. \A k \in Nat : k \in P
  BY <1>2, <1>3, NatSetInduction
<1>5. All(n)
  BY <1>0, <1>4 DEF P
<1>6. Good(2)
  <2>1. 2 \in 2..n+1 /\ 2 >= n + 1 - n
    BY <1>0
  <2> QED
    BY <1>5, <2>1 DEF All
<1>7. ~IsValue(line, 2)
  BY DEF IsValue, LsLine, ValueFlags
<1>8. PathsFrom(2) = PathsAt(line)
  BY <1>0 DEF PathsFrom, PathsAt
<1> QED
  BY <1>1, <1>6, <1>7, <1>8

(* The arguments ls reads are those of its line. *)
LEMMA ArgsAre ==
  ASSUME LsLine
  PROVE  Args = 2..Len(line)
<1> DEFINE n == Len(line)
<1>1. n \in Nat \ {0} /\ n < Slots /\ Slots \in Nat
  BY DispatchAssumption DEF LsLine
<1>2. ASSUME NEW i \in 2..Slots PROVE (\A j \in 2..i : ~Null(j)) <=> i <= n
  <2>1. ASSUME i <= n PROVE \A j \in 2..i : ~Null(j)
    <3>1. \A j \in 2..i : j \in 1..n
      BY <1>1, <2>1
    <3> QED
      BY <3>1 DEF LsLine
  <2>2. ASSUME ~(i <= n) PROVE ~ \A j \in 2..i : ~Null(j)
    <3>1. n + 1 \in 2..i
      BY <1>1, <2>2
    <3> QED
      BY <3>1 DEF LsLine
  <2> QED
    BY <2>1, <2>2
<1>3. \A i : i \in 2..n <=> i \in 2..Slots /\ i <= n
  BY <1>1
<1> QED
  BY <1>2, <1>3 DEF Args

LEMMA RecursiveIs ==
  ASSUME LsLine
  PROVE  Recursive = LineRecursive(line)
<1> DEFINE n == Len(line)
<1>1. n \in Nat \ {0} /\ DOMAIN line = 1..n /\ line[1] # "--rec"
  BY DEF LsLine
<1>2. ASSUME Recursive PROVE LineRecursive(line)
  <2>1. PICK i \in 2..n : token_arr[i] = "--rec"
    BY <1>2, ArgsAre DEF Recursive
  <2>2. i \in 1..n /\ line[i] = "--rec"
    BY <1>1, <2>1 DEF LsLine
  <2> QED
    BY <1>1, <2>2 DEF LineRecursive, Range
<1>3. ASSUME LineRecursive(line) PROVE Recursive
  <2>1. PICK i \in 1..n : line[i] = "--rec"
    BY <1>1, <1>3 DEF LineRecursive, Range
  <2>2. i \in 2..n /\ token_arr[i] = "--rec"
    BY <1>1, <2>1 DEF LsLine
  <2> QED
    BY <2>2, ArgsAre DEF Recursive
<1>4. Recursive \in BOOLEAN /\ LineRecursive(line) \in BOOLEAN
  BY DEF Recursive, LineRecursive
<1> QED
  BY <1>2, <1>3, <1>4

(* A flag that needs a value has the one that stands behind it in the line. *)
LEMMA FlagIs ==
  ASSUME LsLine, NEW flag \in ValueFlags, NEW default
  PROVE  /\ HasValue(flag) <=> flag \in Range(line)
         /\ Given(line, flag, default) = IF HasValue(flag) THEN ValueOf(flag) ELSE default
<1> DEFINE n == Len(line)
           I == {i \in 1..n : line[i] = flag}
           first == CHOOSE i \in I : \A j \in I : i <= j
           index == SelectInSeq(line, LAMBDA w : w = flag)
<1>1. n \in Nat \ {0} /\ DOMAIN line = 1..n /\ line[1] # flag /\ n < Slots /\ Slots \in Nat
  BY DispatchAssumption DEF LsLine, ValueFlags
<1>2. FlagsWithValue(flag) = I
  <2>1. ASSUME NEW i \in I PROVE i \in 2..n /\ i < Slots /\ token_arr[i] = flag /\ ~Null(i + 1)
    <3>1. i \in 1..n /\ line[i] = flag
      OBVIOUS
    <3>2. i \in 2..n /\ i < Slots /\ token_arr[i] = flag
      BY <1>1, <3>1 DEF LsLine
    <3>3. i < n
      BY <1>1, <3>1 DEF LsLine, WellFormed
    <3>4. i + 1 \in 1..n
      BY <1>1, <3>1, <3>3
    <3> QED
      BY <3>2, <3>4 DEF LsLine
  <2>2. ASSUME NEW i \in 2..n, token_arr[i] = flag PROVE i \in I
    <3>1. i \in 1..n
      BY <1>1
    <3> QED
      BY <2>2, <3>1 DEF LsLine
  <2> HIDE DEF I
  <2>3. \A i : i \in FlagsWithValue(flag) <=> i \in 2..n /\ i < Slots /\ token_arr[i] = flag /\ ~Null(i + 1)
    BY ArgsAre DEF FlagsWithValue
  <2> QED
    BY <2>1, <2>2, <2>3
<1>3. HasValue(flag) <=> I # {}
  BY <1>2 DEF HasValue
<1>4. flag \in Range(line) <=> I # {}
  BY <1>1 DEF Range
<1>5. ValueOf(flag) = token_arr[1 + first]
  BY <1>2 DEF ValueOf
<1>6. index = IF I # {} THEN first ELSE 0
  BY DEF SelectInSeq, Min
<1>7. ASSUME I # {} PROVE first \in I /\ first \in 1..n /\ token_arr[1 + first] = line[first + 1]
  <2>1. PICK m \in I : \A k \in I : m <= k
    <3>1. I \subseteq Nat
      BY <1>1
    <3> HIDE DEF I
    <3> QED
      BY <1>7, <3>1, LeastNat
  <2>2. first \in I
    BY <2>1
  <2>3. first \in 1..n /\ line[first] = flag
    BY <2>2
  <2> HIDE DEF first
  <2>4. first < n
    BY <1>1, <2>3 DEF LsLine, WellFormed
  <2>5. first + 1 \in 1..n /\ 1 + first = first + 1
    BY <1>1, <2>3, <2>4
  <2> QED
    BY <2>2, <2>3, <2>5 DEF LsLine
<1>8. Given(line, flag, default) = IF index = 0 THEN default ELSE line[index + 1]
  BY DEF Given
<1> HIDE DEF index, first, I, n
<1>9. ASSUME I = {} PROVE Given(line, flag, default) = default
  BY <1>6, <1>8, <1>9
<1>10. ASSUME I # {} PROVE Given(line, flag, default) = ValueOf(flag)
  <2>1. index = first /\ first # 0
    BY <1>1, <1>6, <1>7, <1>10
  <2> QED
    BY <1>5, <1>7, <1>8, <1>10, <2>1
<1> QED
  BY <1>3, <1>4, <1>9, <1>10

(* How many paths there are decides on the answer. *)
LEMMA CountPaths ==
  ASSUME NEW P, NEW s, Finds(s, P), IsFiniteSet(P)
  PROVE  /\ Len(s) > 1 <=> ~(Cardinality(P) <= 1)
         /\ s = << >> <=> P = {}
         /\ ~(Len(s) > 1) /\ s # << >> => P = {s[1]}
<1>1. s \in Seq(Nat) /\ Len(s) \in Nat /\ (s = << >> <=> Len(s) = 0)
  BY DEF Finds
<1>2. (s = << >> => P = {}) /\ (Len(s) = 1 => P = {s[1]}) /\ (Len(s) > 1 => \E x, y \in P : x # y)
  BY DEF Finds
<1>3. Cardinality(P) \in Nat
  BY FS_CardinalityType
<1>4. Cardinality(P) = 0 <=> P = {}
  BY FS_EmptySet
<1>5. Cardinality(P) = 1 <=> \E x : P = {x}
  BY FS_Singleton
<1>6. CASE Len(s) = 0
  BY <1>1, <1>2, <1>4, <1>6
<1>7. CASE Len(s) = 1
  <2>1. P = {s[1]} /\ s # << >>
    BY <1>1, <1>2, <1>7
  <2>2. Cardinality(P) = 1 /\ P # {}
    BY <1>5, <2>1
  <2> QED
    BY <1>7, <2>1, <2>2
<1>8. CASE Len(s) > 1
  <2>1. Cardinality(P) # 0 /\ Cardinality(P) # 1 /\ P # {}
    BY <1>2, <1>4, <1>5, <1>8
  <2> QED
    BY <1>1, <1>3, <1>8, <2>1
<1>9. Len(s) = 0 \/ Len(s) = 1 \/ Len(s) > 1
  <2>1. \A k \in Nat : k = 0 \/ k = 1 \/ k > 1
    OBVIOUS
  <2> QED
    BY <1>1, <2>1
<1> QED
  BY <1>6, <1>7, <1>8, <1>9

(* ls does what its line says. *)
LEMMA LsAsAsked ==
  ASSUME LsLine
  PROVE  IF Accepted(line) THEN bn_ls = AsAsked(line) ELSE "error" \in DOMAIN bn_ls
<1> DEFINE P == PathsAt(line)
           s == PathSlots
<1>1. Finds(s, P)
  BY PathsFound
<1>2. IsFiniteSet(P)
  <2>1. Len(line) \in Nat
    BY DEF LsLine
  <2>2. IsFiniteSet(2..Len(line)) /\ P \subseteq 2..Len(line)
    BY <2>1, FS_Interval DEF PathsAt
  <2> QED
    BY <2>2, FS_Subset
<1>3. /\ Len(s) > 1 <=> ~(Cardinality(P) <= 1)
      /\ s = << >> <=> P = {}
      /\ ~(Len(s) > 1) /\ s # << >> => P = {s[1]}
  BY <1>1, <1>2, CountPaths
<1>4. /\ HasValue("--d") <=> "--d" \in Range(line)
      /\ \A default : Given(line, "--d", default) = IF HasValue("--d") THEN ValueOf("--d") ELSE default
      /\ \A default : Given(line, "--f", default) = IF HasValue("--f") THEN ValueOf("--f") ELSE default
  BY FlagIs DEF ValueFlags
<1>5. Recursive = LineRecursive(line)
  BY RecursiveIs
<1>6. Accepted(line) <=>
        /\ ~(HasValue("--d") /\ ValueOf("--d") \notin ValidDepths)
        /\ ~(HasValue("--d") /\ ~Recursive)
        /\ ~(Len(s) > 1)
  <2>1. "0" \in ValidDepths
    BY DEF ValidDepths
  <2> QED
    BY <1>3, <1>4, <1>5, <2>1 DEF Accepted
<1>7. ASSUME ~Accepted(line) PROVE "error" \in DOMAIN bn_ls
  <2>1. \A message : "error" \in DOMAIN Error(message)
    BY DEF Error
  <2>2. \E message : bn_ls = Error(message)
    BY <1>6, <1>7 DEF bn_ls
  <2> QED
    BY <2>1, <2>2
<1>8. ASSUME Accepted(line) PROVE bn_ls = AsAsked(line)
  <2>1. bn_ls = Listing(IF s = << >> THEN "./" ELSE token_arr[s[1]],
                        IF HasValue("--d") THEN ValueOf("--d") ELSE IF Recursive THEN "0" ELSE "-1",
                        IF HasValue("--f") THEN ValueOf("--f") ELSE "")
    BY <1>6, <1>8, Zenon DEF bn_ls
  <2>2. (IF s = << >> THEN "./" ELSE token_arr[s[1]])
          = IF P = {} THEN "./" ELSE line[CHOOSE i \in P : TRUE]
    <3>1. CASE P = {}
      BY <1>3, <3>1
    <3>2. CASE P # {}
      <4>1. P = {s[1]} /\ s # << >>
        BY <1>3, <1>6, <1>8, <3>2
      <4>2. (CHOOSE i \in P : TRUE) = s[1]
        BY <4>1
      <4>3. s[1] \in 1..Len(line)
        BY <4>1 DEF PathsAt
      <4>4. token_arr[s[1]] = line[s[1]]
        BY <4>3 DEF LsLine
      <4> QED
        BY <3>2, <4>1, <4>2, <4>4
    <3> QED
      BY <3>1, <3>2
  <2>3. (IF HasValue("--d") THEN ValueOf("--d") ELSE IF Recursive THEN "0" ELSE "-1")
          = Given(line, "--d", IF LineRecursive(line) THEN "0" ELSE "-1")
    BY <1>4, <1>5
  <2>4. (IF HasValue("--f") THEN ValueOf("--f") ELSE "") = Given(line, "--f", "")
    BY <1>4
  <2> HIDE DEF P, s
  <2>5. AsAsked(line) = Listing(IF P = {} THEN "./" ELSE line[CHOOSE i \in P : TRUE],
                                Given(line, "--d", IF LineRecursive(line) THEN "0" ELSE "-1"),
                                Given(line, "--f", ""))
    BY Zenon DEF AsAsked, P
  <2> QED
    BY <2>1, <2>2, <2>3, <2>4, <2>5, Zenon
<1> QED
  BY <1>7, <1>8

(***************************************************************************)
(* LsFollowsLine: what ls lists is what its own line says, for every array *)
(* of tokens and whatever earlier lines left in it, as long as each flag   *)
(* that needs a value has one.                                             *)
(***************************************************************************)
THEOREM LsFollowsLineHolds == Spec => LsFollowsLine
<1>1. SlotsInv /\ [Next]_vars =>
        [Answers /\ answer'.fn = "bn_ls" /\ line[1] = "ls" /\ WellFormed(line) =>
           IF Accepted(line) THEN answer'.result = AsAsked(line)
                             ELSE "error" \in DOMAIN answer'.result]_vars
  <2> SUFFICES ASSUME SlotsInv, Next, Answers, answer'.fn = "bn_ls", line[1] = "ls", WellFormed(line)
               PROVE  IF Accepted(line) THEN answer'.result = AsAsked(line)
                                        ELSE "error" \in DOMAIN answer'.result
    OBVIOUS
  <2>1. LsLine
    <3>1. line \in Seq(Words) /\ Len(line) < Slots /\ "NULL" \notin Words
      BY DispatchAssumption DEF SlotsInv, Answers
    <3>2. \A i \in 1..Len(line) : token_arr[i] = line[i] /\ line[i] \in Words
      BY <3>1 DEF SlotsInv, Answers
    <3> QED
      BY <3>1, <3>2 DEF LsLine, SlotsInv, Answers, Null
  <2>2. DispatchBuiltin \/ DispatchUnknown
    BY DEF Next, Answers, IsCommand, tokenize_input, tokenize_fails, DispatchEmpty,
           DispatchExit, DispatchAssignment, FreeTokens
  <2>3. answer' = [fn |-> "bn_ls", result |-> bn_ls]
    BY <2>2 DEF DispatchBuiltin, DispatchUnknown
  <2> QED
    BY <2>1, <2>3, LsAsAsked
<1> QED
  BY <1>1, SlotsInvHolds, PTL DEF Spec, LsFollowsLine
=============================================================================
