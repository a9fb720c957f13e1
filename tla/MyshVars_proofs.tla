--------------------------- MODULE MyshVars_proofs ----------------------------
(***************************************************************************)
(* Theorems on MyshVars, for all characters, names and values the user may *)
(* assign and every size of the arrays; where it says so, for milestone 3. *)
(* The last one is that the list, the loops and the arrays implement the   *)
(* environment of ShellEnv.                                                *)
(***************************************************************************)
EXTENDS MyshVars, SeqFacts

(* Strings.                                                                *)
String == Seq(Char)

LEMMA StringIs ==
  ASSUME NEW s \in String
  PROVE  Len(s) \in Nat /\ DOMAIN s = 1..Len(s) /\ \A i \in 1..Len(s) : s[i] \in Char
BY DEF String

(* m is where the next sep is, or behind the end.                          *)
IsNext(s, sep, i, m) ==
  m \in i .. Len(s) + 1 /\ (m = Len(s) + 1 \/ s[m] = sep) /\ \A j \in i .. m - 1 : s[j] # sep

LEMMA UpToNextIs ==
  ASSUME NEW s \in String, NEW sep, NEW i \in 1 .. Len(s) + 1, NEW m, IsNext(s, sep, i, m)
  PROVE  /\ UpToNext(s, sep, i) = SubSeq(s, i, m - 1)
         /\ UpToNext(s, sep, i) \in String /\ Len(UpToNext(s, sep, i)) = m - i
         /\ \A j \in 1 .. m - i : UpToNext(s, sep, i)[j] = s[i + j - 1]
<1> DEFINE stops == {j \in i .. Len(s) + 1 : j = Len(s) + 1 \/ s[j] = sep}
<1>0. Len(s) \in Nat
  BY StringIs
<1>1. stops \subseteq Nat /\ m \in stops
  BY <1>0 DEF IsNext
<1>2. \A j \in stops : m <= j
  BY <1>0 DEF IsNext
<1>3. UpToNext(s, sep, i) = SubSeq(s, i, (CHOOSE j \in stops : \A k \in stops : j <= k) - 1)
  BY DEF UpToNext
<1> HIDE DEF stops
<1>4. (CHOOSE j \in stops : \A k \in stops : j <= k) = m
  <2>1. m \in Nat
    BY <1>1
  <2>2. Least(stops) = m
    BY <1>1, <1>2, <2>1, LeastIs
  <2> QED
    BY <2>2 DEF Least
<1>5. UpToNext(s, sep, i) = SubSeq(s, i, m - 1)
  BY <1>3, <1>4
<1> DEFINE n == m - 1
<1>6. n \in Nat /\ i \in Nat /\ 1 <= i /\ i <= n + 1 /\ n <= Len(s) /\ m = n + 1
  BY <1>0 DEF IsNext
<1> HIDE DEF n
<1>7. /\ SubSeq(s, i, n) \in Seq(Char) /\ Len(SubSeq(s, i, n)) = n + 1 - i
      /\ \A j \in 1 .. n + 1 - i : SubSeq(s, i, n)[j] = s[i + j - 1]
  BY <1>6, Part DEF String
<1>8. UpToNext(s, sep, i) = SubSeq(s, i, n)
  BY <1>5 DEF n
<1> QED
  BY <1>5, <1>6, <1>7, <1>8 DEF String

LEMMA NextExists ==
  ASSUME NEW s \in String, NEW sep, NEW i \in 1 .. Len(s) + 1
  PROVE  \E m \in Nat : IsNext(s, sep, i, m)
<1> DEFINE S == {j \in i .. Len(s) + 1 : j = Len(s) + 1 \/ s[j] = sep}
<1>0. Len(s) \in Nat
  BY StringIs
<1>1. S \subseteq Nat /\ S # {}
  <2>1. Len(s) + 1 \in S
    BY <1>0
  <2> QED
    BY <1>0, <2>1
<1>2. PICK m \in S : \A k \in S : m <= k
  <2> HIDE DEF S
  <2> QED
    BY <1>1, LeastNat
<1>3. m \in Nat /\ m \in i .. Len(s) + 1 /\ (m = Len(s) + 1 \/ s[m] = sep)
  BY <1>1
<1>4. ASSUME NEW j \in i .. m - 1 PROVE s[j] # sep
  BY <1>0, <1>2, <1>3
<1> QED
  BY <1>3, <1>4 DEF IsNext

LEMMA UpToNextType ==
  ASSUME NEW s \in String, NEW sep, NEW i \in 1 .. Len(s) + 1
  PROVE  UpToNext(s, sep, i) \in String
BY NextExists, UpToNextIs

LEMMA TakeIs ==
  ASSUME NEW s \in String, NEW n \in Int
  PROVE  /\ Take(s, n) \in String
         /\ n >= 0 => Len(Take(s, n)) = IF n < Len(s) THEN n ELSE Len(s)
         /\ n <= 0 => Len(Take(s, n)) = 0
         /\ \A i \in 1 .. Len(Take(s, n)) : Take(s, n)[i] = s[i]
         /\ n >= Len(s) => Take(s, n) = s
<1>0. Len(s) \in Nat /\ \A i \in 1..Len(s) : s[i] \in Char
  BY StringIs
<1> DEFINE k == IF n < 0 THEN 0 ELSE IF n < Len(s) THEN n ELSE Len(s)
<1>1. k \in Nat /\ 1 .. (IF n < Len(s) THEN n ELSE Len(s)) = 1..k /\ k <= Len(s)
  BY <1>0
<1>2. Take(s, n) = [i \in 1..k |-> s[i]]
  BY <1>1 DEF Take
<1>3. \A i \in 1..k : s[i] \in Char
  BY <1>0, <1>1
<1>5. (n >= 0 => k = IF n < Len(s) THEN n ELSE Len(s)) /\ (n <= 0 => k = 0) /\ (n >= Len(s) => k = Len(s))
  BY <1>0
<1> HIDE DEF k
<1>4. Take(s, n) \in Seq(Char) /\ Len(Take(s, n)) = k /\ \A i \in 1..k : Take(s, n)[i] = s[i]
  BY <1>1, <1>2, <1>3
<1>6. n >= Len(s) => Take(s, n) = s
  <2> SUFFICES ASSUME n >= Len(s) PROVE Take(s, n) = s
    OBVIOUS
  <2>1. Len(Take(s, n)) = Len(s) /\ \A i \in 1..Len(s) : Take(s, n)[i] = s[i]
    BY <1>4, <1>5
  <2> DEFINE t == Take(s, n)
  <2> HIDE DEF t
  <2>2. t \in Seq(Char) /\ Len(t) = Len(s) /\ (\A i \in 1..Len(s) : t[i] = s[i]) /\ s \in Seq(Char)
    BY <1>4, <2>1 DEF t, String
  <2>3. t = s
    BY <2>2, SeqEqual
  <2> QED
    BY <2>3 DEF t
<1> QED
  BY <1>4, <1>5, <1>6 DEF String

-----------------------------------------------------------------------------
(* The list, and what the loops make of strings.                           *)
NodeType == [name : String, val : String]
ListOK == vars \in Seq(NodeType)

LEMMA FirstNodeIs ==
  ASSUME ListOK, NEW name, Defined(name)
  PROVE  /\ FirstNode(name) \in DOMAIN vars /\ vars[FirstNode(name)].name = name
         /\ \A j \in DOMAIN vars : vars[j].name = name => FirstNode(name) <= j
<1>1. DOMAIN vars = 1..Len(vars) /\ Len(vars) \in Nat
  BY DEF ListOK
<1>2. Nodes(name) \subseteq Nat /\ Nodes(name) # {}
  BY <1>1 DEF Nodes, Defined
<1>3. \E m \in Nodes(name) : \A k \in Nodes(name) : m <= k
  BY <1>2, LeastNat
<1>4. FirstNode(name) \in Nodes(name) /\ \A j \in Nodes(name) : FirstNode(name) <= j
  BY <1>3 DEF FirstNode
<1> QED
  BY <1>4 DEF Nodes

LEMMA EmptyString == << >> \in String /\ Len(<< >>) = 0
BY DEF String

LEMMA OneChar == ASSUME NEW c \in Char PROVE <<c>> \in String /\ Len(<<c>>) = 1 /\ <<c>>[1] = c
BY DEF String

LEMMA ValueType ==
  ASSUME ListOK, NEW name
  PROVE  get_var(name) \in String
<1>1. CASE Defined(name)
  <2>1. vars[FirstNode(name)] \in NodeType
    BY <1>1, FirstNodeIs DEF ListOK
  <2> QED
    BY <1>1, <2>1 DEF get_var, NodeType
<1>2. CASE ~Defined(name)
  BY <1>2, EmptyString DEF get_var
<1> QED
  BY <1>1, <1>2

LEMMA ExpandType ==
  ASSUME ListOK, NEW name \in String
  PROVE  ExpandName(name) \in String
<1>1. <<"$">> \in String
  BY VarsAssumption, OneChar
<1>2. <<"$">> \o name \in String
  BY <1>1, Joined DEF String
<1> QED
  BY <1>2, ValueType DEF ExpandName

(* One turn of the loop of def_var over val. *)
ExpandStep(val) ==
  [x \in String \X Nat |->
     IF x[2] \in 1..Len(val) /\ val[x[2]] = "$" THEN x[1] \o ExpandName(UpToNext(val, "$", x[2] + 1)) ELSE x[1]]

LEMMA ExpandStepType ==
  ASSUME ListOK, NEW val \in String
  PROVE  ExpandStep(val) \in [String \X Nat -> String]
<1>1. ASSUME NEW s \in String, NEW i \in 1..Len(val)
      PROVE  s \o ExpandName(UpToNext(val, "$", i + 1)) \in String
  <2> DEFINE j == i + 1
  <2>1. j \in 1 .. Len(val) + 1
    BY StringIs
  <2> HIDE DEF j
  <2>2. ExpandName(UpToNext(val, "$", j)) \in String
    BY <2>1, UpToNextType, ExpandType
  <2>3. s \o ExpandName(UpToNext(val, "$", j)) \in String
    BY <2>2, Joined DEF String
  <2> QED
    BY <2>3 DEF j
<1> QED
  BY <1>1 DEF ExpandStep

LEMMA NewValueIs ==
  ASSUME ListOK, NEW val \in String
  PROVE  \E f : /\ IsIterated(f, String, UpToNext(val, "$", 1), ExpandStep(val), Len(val))
                /\ new_val(val) = f[Len(val)]
<1> DEFINE n == Len(val)
           base == UpToNext(val, "$", 1)
           step == ExpandStep(val)
           Turn(s, i) == IF val[i] = "$" THEN s \o ExpandName(UpToNext(val, "$", i + 1)) ELSE s
           Eq(f) == f = [i \in 0..n |-> IF i = 0 THEN base ELSE Turn(f[i-1], i)]
           read == CHOOSE f : Eq(f)
<1>1. new_val(val) = read[n]
  BY Zenon DEF new_val
<1>2. n \in Nat
  BY StringIs
<1>3. base \in String /\ step \in [String \X Nat -> String]
  <2>1. 1 \in 1 .. Len(val) + 1
    BY <1>2
  <2> QED
    BY <2>1, UpToNextType, ExpandStepType
<1>4. ASSUME NEW s \in String, NEW i \in 1..n PROVE Turn(s, i) = step[<<s, i>>]
  BY DEF ExpandStep
<1> HIDE DEF base, step, n, Turn
<1>5. PICK f : IsIterated(f, String, base, step, n)
  BY <1>2, <1>3, Iterates
<1>6. Eq(f)
  <2>1. ASSUME NEW i \in 1..n PROVE f[i] = Turn(f[i-1], i)
    <3>1. i - 1 \in 0..n
      BY <1>2
    <3>2. f[i-1] \in String
      BY <1>5, <3>1 DEF IsIterated
    <3> QED
      BY <1>4, <1>5, <3>2 DEF IsIterated
  <2> QED
    BY <1>2, <1>5, <2>1 DEF IsIterated
<1>7. Eq(read)
  BY <1>6, Zenon
<1> HIDE DEF read
<1>8. TakesSteps(read, String, base, step, n)
  <2>1. ASSUME NEW k \in 1..n, read[k-1] \in String PROVE read[k] = step[<<read[k-1], k>>]
    <3>1. read[k] = Turn(read[k-1], k)
      BY <1>2, <1>7
    <3> QED
      BY <1>4, <2>1, <3>1
  <2>2. read = [k \in 0..n |-> read[k]] /\ read[0] = base
    BY <1>2, <1>7
  <2> QED
    BY <2>1, <2>2 DEF TakesSteps
<1>9. IsIterated(read, String, base, step, n)
  BY <1>2, <1>3, <1>8, StepsIterate
<1> QED
  BY <1>1, <1>9 DEF base, step, n

LEMMA NewValueType ==
  ASSUME ListOK, NEW val \in String
  PROVE  new_val(val) \in String
<1>1. PICK g : /\ IsIterated(g, String, UpToNext(val, "$", 1), ExpandStep(val), Len(val))
               /\ new_val(val) = g[Len(val)]
  BY NewValueIs
<1> QED
  BY <1>1, StringIs DEF IsIterated

-----------------------------------------------------------------------------
(* Echo.                                                                  *)
LEMMA PutTextType ==
  ASSUME NEW final \in String, NEW s \in String
  PROVE  PutText(final, s) \in String /\ Len(PutText(final, s)) = Len(final) + Len(s)
BY Joined DEF PutText, String

LEMMA PutValueType ==
  ASSUME NEW final \in String, NEW s \in String
  PROVE  PutValue(final, s) \in String
<1> DEFINE n == MAX_STR_LEN - 1 - Len(final)
<1>1. n \in Int
  <2>1. MAX_STR_LEN \in Int /\ Len(final) \in Int
    <3>1. MAX_STR_LEN \in Nat
      BY VarsAssumption
    <3>2. Len(final) \in Int
      BY StringIs
    <3> QED
      BY <3>1, <3>2
  <2> QED
    BY <2>1
<1> HIDE DEF n
<1>2. Take(s, n) \in String
  BY <1>1, TakeIs
<1>3. final \o Take(s, n) \in String
  BY <1>2, Joined DEF String
<1> QED
  BY <1>3 DEF PutValue, n

LEMMA TextOfType ==
  ASSUME NEW token \in String
  PROVE  TextOf(token) \in String
<1>1. CASE 1 \in PieceStarts(token, "$")
  <2>1. 1 \in 1 .. Len(token) + 1
    BY StringIs
  <2> QED
    BY <2>1, UpToNextType, EmptyString DEF TextOf, strtok
<1>2. CASE 1 \notin PieceStarts(token, "$")
  BY <1>2, EmptyString DEF TextOf
<1> QED
  BY <1>1, <1>2

LEMMA PutNameType ==
  ASSUME ListOK, NEW final \in String, NEW token \in String, NEW i
  PROVE  PutName(final, token, i) \in String
BY ValueType, PutValueType DEF PutName

PutStep(token) == [x \in String \X Nat |-> PutName(x[1], token, x[2])]

LEMMA PutTokenIs ==
  ASSUME ListOK, NEW final \in String, NEW token \in String
  PROVE  \E f : /\ IsIterated(f, String, PutText(final, TextOf(token)), PutStep(token), Len(token))
                /\ PutToken(final, token) = f[Len(token)]
<1> DEFINE n == Len(token)
           base == PutText(final, TextOf(token))
           step == PutStep(token)
           Eq(f) == f = [i \in 0..n |-> IF i = 0 THEN base ELSE PutName(f[i-1], token, i)]
           put == CHOOSE f : Eq(f)
<1>1. PutToken(final, token) = put[n]
  BY Zenon DEF PutToken
<1>2. n \in Nat
  BY StringIs
<1>3. base \in String /\ step \in [String \X Nat -> String]
  BY TextOfType, PutTextType, PutNameType DEF PutStep
<1>4. ASSUME NEW s \in String, NEW i \in 1..n PROVE PutName(s, token, i) = step[<<s, i>>]
  BY DEF PutStep
<1> HIDE DEF base, step, n
<1>5. PICK f : IsIterated(f, String, base, step, n)
  BY <1>2, <1>3, Iterates
<1>6. Eq(f)
  <2>1. ASSUME NEW i \in 1..n PROVE f[i] = PutName(f[i-1], token, i)
    <3>1. i - 1 \in 0..n
      BY <1>2
    <3>2. f[i-1] \in String
      BY <1>5, <3>1 DEF IsIterated
    <3> QED
      BY <1>4, <1>5, <3>2 DEF IsIterated
  <2> QED
    BY <1>2, <1>5, <2>1 DEF IsIterated
<1>7. Eq(put)
  BY <1>6, Zenon
<1> HIDE DEF put
<1>8. TakesSteps(put, String, base, step, n)
  <2>1. ASSUME NEW k \in 1..n, put[k-1] \in String PROVE put[k] = step[<<put[k-1], k>>]
    <3>1. put[k] = PutName(put[k-1], token, k)
      BY <1>2, <1>7
    <3> QED
      BY <1>4, <2>1, <3>1
  <2>2. put = [k \in 0..n |-> put[k]] /\ put[0] = base
    BY <1>2, <1>7
  <2> QED
    BY <2>1, <2>2 DEF TakesSteps
<1>9. IsIterated(put, String, base, step, n)
  BY <1>2, <1>3, <1>8, StepsIterate
<1> QED
  BY <1>1, <1>9 DEF base, step, n

LEMMA PutTokenType ==
  ASSUME ListOK, NEW final \in String, NEW token \in String
  PROVE  PutToken(final, token) \in String
<1>1. PICK f : /\ IsIterated(f, String, PutText(final, TextOf(token)), PutStep(token), Len(token))
               /\ PutToken(final, token) = f[Len(token)]
  BY PutTokenIs
<1> QED
  BY <1>1, StringIs DEF IsIterated

LEMMA Blank == <<" ">> \in String /\ Len(<<" ">>) = 1
BY VarsAssumption, OneChar

Line == Seq(String)

LEMMA LineIs ==
  ASSUME NEW tokens \in Line
  PROVE  Len(tokens) \in Nat /\ DOMAIN tokens = 1..Len(tokens) /\ \A k \in 1..Len(tokens) : tokens[k] \in String
BY DEF Line

LEMMA PutNextType ==
  ASSUME ListOK, NEW final \in String, NEW tokens \in Line, NEW k \in 1..Len(tokens)
  PROVE  PutNext(final, tokens, k) \in String
<1>1. tokens[k] \in String
  BY LineIs
<1>2. PutText(final, <<" ">>) \in String
  BY Blank, PutTextType
<1> QED
  BY <1>1, <1>2, PutTokenType DEF PutNext

NextStep(tokens) ==
  [x \in String \X Nat |-> IF x[2] \in 1..Len(tokens) THEN PutNext(x[1], tokens, x[2]) ELSE x[1]]

LEMMA EchoIs ==
  ASSUME ListOK, NEW tokens \in Line
  PROVE  \E f : /\ IsIterated(f, String, << >>, NextStep(tokens), Len(tokens))
                /\ echo_final(tokens) = f[Len(tokens)]
<1> DEFINE n == Len(tokens)
           step == NextStep(tokens)
           Eq(f) == f = [k \in 0..n |-> IF k = 0 THEN << >> ELSE PutNext(f[k-1], tokens, k)]
           put == CHOOSE f : Eq(f)
<1>1. echo_final(tokens) = put[n]
  BY Zenon DEF echo_final
<1>2. n \in Nat
  BY LineIs
<1>3. << >> \in String /\ step \in [String \X Nat -> String]
  BY EmptyString, PutNextType DEF NextStep
<1>4. ASSUME NEW s \in String, NEW k \in 1..n PROVE PutNext(s, tokens, k) = step[<<s, k>>]
  BY DEF NextStep
<1> HIDE DEF step, n
<1>5. PICK f : IsIterated(f, String, << >>, step, n)
  BY <1>2, <1>3, Iterates
<1>6. Eq(f)
  <2>1. ASSUME NEW k \in 1..n PROVE f[k] = PutNext(f[k-1], tokens, k)
    <3>1. k - 1 \in 0..n
      BY <1>2
    <3>2. f[k-1] \in String
      BY <1>5, <3>1 DEF IsIterated
    <3> QED
      BY <1>4, <1>5, <3>2 DEF IsIterated
  <2> QED
    BY <1>2, <1>5, <2>1 DEF IsIterated
<1>7. Eq(put)
  BY <1>6, Zenon
<1> HIDE DEF put
<1>8. TakesSteps(put, String, << >>, step, n)
  <2>1. ASSUME NEW k \in 1..n, put[k-1] \in String PROVE put[k] = step[<<put[k-1], k>>]
    <3>1. put[k] = PutNext(put[k-1], tokens, k)
      BY <1>2, <1>7
    <3> QED
      BY <1>4, <2>1, <3>1
  <2>2. put = [k \in 0..n |-> put[k]] /\ put[0] = << >>
    BY <1>2, <1>7
  <2> QED
    BY <2>1, <2>2 DEF TakesSteps
<1>9. IsIterated(put, String, << >>, step, n)
  BY <1>2, <1>3, <1>8, StepsIterate
<1> QED
  BY <1>1, <1>9 DEF step, n

LEMMA EchoType ==
  ASSUME ListOK, NEW tokens \in Line
  PROVE  echo_final(tokens) \in String
<1>1. PICK f : /\ IsIterated(f, String, << >>, NextStep(tokens), Len(tokens))
               /\ echo_final(tokens) = f[Len(tokens)]
  BY EchoIs
<1> QED
  BY <1>1, LineIs DEF IsIterated

-----------------------------------------------------------------------------
(* Tokens, as milestone 4 cuts them, and their two parts.                  *)

LEMMA PartType ==
  ASSUME NEW s \in String, NEW m \in Nat \ {0}, NEW n \in 0 .. Len(s)
  PROVE  /\ SubSeq(s, m, n) \in String
         /\ Len(SubSeq(s, m, n)) = IF m <= n THEN n - m + 1 ELSE 0
         /\ \A j \in 1 .. n - m + 1 : SubSeq(s, m, n)[j] = s[m + j - 1]
<1>1. \A i \in m..n : s[i] \in Char
  BY StringIs
<1>2. n \in Nat
  BY StringIs
<1> QED
  BY <1>1, <1>2, SubSeqProperties DEF String

LEMMA TokenizedType ==
  ASSUME NEW token \in String
  PROVE  /\ Tokenized(token) \in String
         /\ Len(Tokenized(token)) <= Len(token)
         /\ \A i \in 1..Len(Tokenized(token)) : Tokenized(token)[i] = token[i]
<1> DEFINE cuts == {i \in DOMAIN token : token[i] = "$" /\ \E j \in 1..i : token[j] # "$"}
           cut == CHOOSE i \in cuts : \A j \in cuts : i <= j
<1>1. CASE Milestone # 4 \/ cuts = {}
  <2>1. Tokenized(token) = token
    BY <1>1 DEF Tokenized, replace_variables
  <2> QED
    BY <2>1, StringIs
<1>2. CASE Milestone = 4 /\ cuts # {}
  <2>1. cuts \subseteq 1..Len(token) /\ cuts \subseteq Nat
    BY StringIs
  <2>2. Tokenized(token) = SubSeq(token, 1, cut - 1)
    BY <1>2 DEF Tokenized, replace_variables
  <2>3. cut \in cuts
    <3> HIDE DEF cuts
    <3>1. \E i \in cuts : \A j \in cuts : i <= j
      BY <1>2, <2>1, LeastNat
    <3> QED
      BY <3>1
  <2> HIDE DEF cut, cuts
  <2> DEFINE n == cut - 1
  <2>4. n \in 0..Len(token) /\ n \in Nat
    BY <2>1, <2>3, StringIs
  <2>5. Tokenized(token) = SubSeq(token, 1, n)
    BY <2>2
  <2> HIDE DEF n
  <2>6. /\ SubSeq(token, 1, n) \in String
        /\ Len(SubSeq(token, 1, n)) = n
        /\ \A j \in 1 .. n : SubSeq(token, 1, n)[j] = token[j]
    <3>1. /\ SubSeq(token, 1, n) \in String
          /\ Len(SubSeq(token, 1, n)) = IF 1 <= n THEN n - 1 + 1 ELSE 0
          /\ \A j \in 1 .. n - 1 + 1 : SubSeq(token, 1, n)[j] = token[1 + j - 1]
      BY <2>4, PartType
    <3> QED
      BY <2>4, <3>1
  <2> QED
    BY <2>4, <2>5, <2>6
<1> QED
  BY <1>1, <1>2

LEMMA NameStartIs ==
  ASSUME NEW token \in String, PieceStarts(token, "=") # {}
  PROVE  /\ NameStart(token) \in 1..Len(token) /\ token[NameStart(token)] # "="
         /\ \A j \in PieceStarts(token, "=") : NameStart(token) <= j
<1>1. PieceStarts(token, "=") \subseteq 1..Len(token) /\ PieceStarts(token, "=") \subseteq Nat
  BY StringIs DEF PieceStarts
<1>2. \E i \in PieceStarts(token, "=") : \A j \in PieceStarts(token, "=") : i <= j
  BY <1>1, LeastNat
<1>3. NameStart(token) \in PieceStarts(token, "=") /\ \A j \in PieceStarts(token, "=") : NameStart(token) <= j
  BY <1>2 DEF NameStart
<1> QED
  BY <1>1, <1>3 DEF PieceStarts

LEMMA SplitType ==
  ASSUME NEW token \in String, HasNameAndValue(token)
  PROVE  SplitName(token) \in String /\ SplitValue(token) \in String /\ Len(SplitName(token)) > 0
<1> DEFINE i == NameStart(token)
<1>1. i \in 1..Len(token) /\ i \in 1 .. Len(token) + 1 /\ i \in Nat /\ i > 0 /\ token[i] # "="
  <2>1. i \in 1..Len(token) /\ token[i] # "="
    BY NameStartIs DEF HasNameAndValue
  <2> QED
    BY <2>1, StringIs
<1> HIDE DEF i
<1>2. SplitName(token) = UpToNext(token, "=", i)
  BY DEF SplitName, strtok, i
<1>3. PICK m \in Nat : IsNext(token, "=", i, m)
  BY <1>1, NextExists
<1>4. UpToNext(token, "=", i) \in String /\ Len(UpToNext(token, "=", i)) = m - i
  BY <1>1, <1>3, UpToNextIs
<1>5. m > i
  <2>1. m # i
    BY <1>1, <1>3, StringIs DEF IsNext
  <2>2. m >= i
    BY <1>1, <1>3, StringIs DEF IsNext
  <2> QED
    BY <1>1, <2>1, <2>2
<1>6. SplitValue(token) \in String
  <2> DEFINE a == i + (m - i) + 1
  <2>1. a \in Nat \ {0}
    BY <1>1
  <2>2. SplitValue(token) = SubSeq(token, a, Len(token))
    BY <1>2, <1>4 DEF SplitValue, i
  <2>3. Len(token) \in 0..Len(token)
    BY StringIs
  <2> HIDE DEF a
  <2> QED
    BY <2>1, <2>2, <2>3, PartType
<1> QED
  BY <1>1, <1>2, <1>4, <1>5, <1>6

-----------------------------------------------------------------------------
(* The name and the value, as the user sees them. *)
IsFirstEquals(token, i) ==
  i \in 1..Len(token) /\ token[i] = "=" /\ \A j \in 1..i-1 : token[j] # "="

LEMMA FirstEqualsIs ==
  ASSUME NEW token \in String, IsAssignment(token)
  PROVE  FirstEquals(token) \in Nat /\ IsFirstEquals(token, FirstEquals(token))
<1> DEFINE E == {i \in 1..Len(token) : token[i] = "="}
<1>1. DOMAIN token = 1..Len(token) /\ Len(token) \in Nat
  BY StringIs
<1>2. E \subseteq Nat /\ E # {}
  BY <1>1 DEF IsAssignment
<1>3. PICK m \in E : \A k \in E : m <= k
  <2> HIDE DEF E
  <2> QED
    BY <1>2, LeastNat
<1>4. \E i \in DOMAIN token : token[i] = "=" /\ \A j \in 1..i-1 : token[j] # "="
  <2>1. m \in 1..Len(token) /\ token[m] = "="
    OBVIOUS
  <2>2. ASSUME NEW j \in 1..m-1 PROVE token[j] # "="
    <3>1. j \in 1..Len(token) /\ ~(m <= j)
      BY <1>1, <2>1
    <3> QED
      BY <1>3, <3>1
  <2> QED
    BY <1>1, <2>1, <2>2
<1>5. /\ FirstEquals(token) \in DOMAIN token /\ token[FirstEquals(token)] = "="
      /\ \A j \in 1..FirstEquals(token)-1 : token[j] # "="
  BY <1>4 DEF FirstEquals
<1> QED
  BY <1>1, <1>5 DEF IsFirstEquals

LEMMA UserType ==
  ASSUME NEW token \in String, IsAssignment(token)
  PROVE  UserName(token) \in String /\ UserValue(token) \in String
<1> DEFINE e == FirstEquals(token)
           n == e - 1
           m == e + 1
<1>1. e \in Nat /\ e \in 1..Len(token)
  BY FirstEqualsIs DEF IsFirstEquals
<1>2. n \in 0..Len(token) /\ m \in Nat \ {0} /\ 1 \in Nat \ {0} /\ Len(token) \in 0..Len(token)
  BY <1>1, StringIs
<1>3. UserName(token) = SubSeq(token, 1, n) /\ UserValue(token) = SubSeq(token, m, Len(token))
  BY DEF UserName, UserValue
<1> HIDE DEF n, m
<1> QED
  BY <1>2, <1>3, PartType

(* A name that is there is the one strtok finds. *)
LEMMA UserSplit ==
  ASSUME NEW token \in String, IsAssignment(token), UserName(token) # << >>
  PROVE  /\ SplitName(token) = UserName(token) /\ SplitValue(token) = UserValue(token)
         /\ UserValue(token) # << >> => HasNameAndValue(token)
<1> DEFINE e == FirstEquals(token)
<1>0. Len(token) \in Nat /\ DOMAIN token = 1..Len(token)
  BY StringIs
<1>1. e \in Nat /\ e \in 1..Len(token) /\ token[e] = "=" /\ \A j \in 1..e-1 : token[j] # "="
  BY FirstEqualsIs DEF IsFirstEquals
<1>2. e > 1
  <2> SUFFICES ASSUME e = 1 PROVE FALSE
    BY <1>1
  <2>1. UserName(token) = SubSeq(token, 1, 0)
    BY DEF UserName
  <2>2. Len(SubSeq(token, 1, 0)) = 0 /\ SubSeq(token, 1, 0) \in String
    <3>1. 0 \in 0..Len(token) /\ 1 \in Nat \ {0}
      BY <1>0
    <3>2. /\ SubSeq(token, 1, 0) \in String
          /\ Len(SubSeq(token, 1, 0)) = IF 1 <= 0 THEN 0 - 1 + 1 ELSE 0
      BY <3>1, PartType
    <3> QED
      BY <3>2
  <2> QED
    BY <2>1, <2>2 DEF String
<1> HIDE DEF e
<1>3. NameStart(token) = 1
  <2>1. 1 \in PieceStarts(token, "=")
    BY <1>0, <1>1, <1>2 DEF PieceStarts
  <2>2. NameStart(token) \in 1..Len(token) /\ NameStart(token) <= 1
    BY <2>1, NameStartIs
  <2> QED
    BY <1>0, <2>2
<1>4. IsNext(token, "=", 1, e)
  BY <1>0, <1>1 DEF IsNext
<1>5. SplitName(token) = SubSeq(token, 1, e - 1) /\ Len(SplitName(token)) = e - 1
  <2>1. 1 \in 1 .. Len(token) + 1
    BY <1>0
  <2>2. UpToNext(token, "=", 1) = SubSeq(token, 1, e - 1) /\ Len(UpToNext(token, "=", 1)) = e - 1
    BY <1>4, <2>1, UpToNextIs
  <2> QED
    BY <1>3, <2>2 DEF SplitName, strtok
<1>6. SplitName(token) = UserName(token)
  BY <1>5 DEF UserName, e
<1>7. SplitValue(token) = UserValue(token)
  <2>1. NameStart(token) + Len(SplitName(token)) + 1 = e + 1
    BY <1>1, <1>3, <1>5
  <2> QED
    BY <2>1 DEF SplitValue, UserValue, e
<1>8. PieceStarts(token, "=") # {}
  BY <1>0, <1>1, <1>2 DEF PieceStarts
<1> QED
  BY <1>6, <1>7, <1>8 DEF HasNameAndValue

-----------------------------------------------------------------------------
LEMMA StillAssignment ==
  ASSUME NEW token \in String, IsAssignment(Tokenized(token))
  PROVE  IsAssignment(token)
<1> DEFINE t == Tokenized(token)
<1>1. t \in String /\ Len(t) <= Len(token) /\ \A i \in 1..Len(t) : t[i] = token[i]
  BY TokenizedType
<1>2. DOMAIN t = 1..Len(t) /\ DOMAIN token = 1..Len(token) /\ Len(token) \in Nat /\ Len(t) \in Nat
  BY <1>1, StringIs
<1> HIDE DEF t
<1>3. PICK i \in DOMAIN t : t[i] = "="
  BY DEF IsAssignment, t
<1>4. i \in 1..Len(token) /\ token[i] = "="
  BY <1>1, <1>2, <1>3
<1> QED
  BY <1>2, <1>4 DEF IsAssignment

(* What def_var makes of the list. *)
LEMMA ListStays ==
  ASSUME ListOK, NEW name \in String, NEW val \in String, def_var(name, val)
  PROVE  /\ vars' \in Seq(NodeType)
         /\ out' = out /\ undefined' \in {TRUE, undefined}
<1>1. CASE UNCHANGED vars
  BY <1>1 DEF ListOK, def_var
<1>2. CASE ~UNCHANGED vars
  <2> DEFINE v == new_val(val)
  <2>1. v \in String
    BY NewValueType
  <2>2. vars' = IF Overwrites(name) THEN [vars EXCEPT ![FirstNode(name)].val = v] ELSE NewNode(name, v)
    BY <1>2 DEF def_var
  <2>3. UNCHANGED <<out, undefined>>
    BY <1>2 DEF def_var
  <2> HIDE DEF v
  <2>4. CASE Overwrites(name)
    <3> DEFINE k == FirstNode(name)
               node == [name |-> vars[k].name, val |-> v]
    <3>1. k \in 1..Len(vars) /\ Len(vars) \in Nat /\ DOMAIN vars = 1..Len(vars)
      BY <2>4, FirstNodeIs DEF Overwrites, ListOK
    <3>2. vars[k] \in NodeType
      BY <3>1 DEF ListOK
    <3>3. [vars[k] EXCEPT !.val = v] \in NodeType
      BY <2>1, <3>2 DEF NodeType
    <3>4. vars' = [vars EXCEPT ![k].val = v]
      BY <2>2, <2>4
    <3> HIDE DEF k
    <3>5. vars' = [vars EXCEPT ![k] = [vars[k] EXCEPT !.val = v]]
      BY <3>4
    <3> QED
      BY <2>3, <3>1, <3>3, <3>5 DEF ListOK
  <2>5. CASE ~Overwrites(name)
    <3> DEFINE node == [name |-> name, val |-> v]
    <3>1. node \in NodeType
      BY <2>1 DEF NodeType
    <3>2. vars' = <<node>> \o vars
      BY <2>2, <2>5 DEF NewNode
    <3> HIDE DEF node
    <3>3. <<node>> \in Seq(NodeType)
      BY <3>1
    <3>4. <<node>> \o vars \in Seq(NodeType)
      BY <3>3, Joined DEF ListOK
    <3> QED
      BY <2>3, <3>2, <3>4
  <2> QED
    BY <2>4, <2>5
<1> QED
  BY <1>1, <1>2

LEMMA InitTypes == Init => TypeOK
<1> SUFFICES ASSUME Init PROVE TypeOK
  OBVIOUS
<1>1. << >> \in Seq([name : Seq(Char), val : Seq(Char)]) /\ << >> \in Seq(Char)
  OBVIOUS
<1> QED
  BY <1>1 DEF Init, TypeOK

LEMMA TypesAre == TypeOK => ListOK /\ out \in String /\ undefined \in BOOLEAN /\ asked \subseteq String
BY DEF TypeOK, ListOK, NodeType, String

LEMMA TokensAre ==
  ASSUME NEW tokens \in EchoLines
  PROVE  tokens \in Line /\ [k \in DOMAIN tokens |-> Tokenized(tokens[k])] \in Line
<1>1. tokens \in Line
  BY VarsAssumption DEF Line, String
<1>2. \A k \in 1..Len(tokens) : Tokenized(tokens[k]) \in String
  BY <1>1, LineIs, TokenizedType
<1>3. Len(tokens) \in Nat /\ DOMAIN tokens = 1..Len(tokens)
  BY <1>1, LineIs
<1>4. [k \in 1..Len(tokens) |-> Tokenized(tokens[k])] \in Seq(String)
  BY <1>2, <1>3
<1> QED
  BY <1>1, <1>3, <1>4 DEF Line

LEMMA AsksType ==
  ASSUME TypeOK, NEW token \in String, IsAssignment(token), Asks(token)
  PROVE  asked' \subseteq String
BY UserType, TypesAre DEF Asks

LEMMA StepTypes == TypeOK /\ [Next]_allvars => TypeOK'
<1> SUFFICES ASSUME TypeOK, [Next]_allvars PROVE TypeOK'
  OBVIOUS
<1>0. ListOK /\ out \in String /\ undefined \in BOOLEAN /\ asked \subseteq String
  BY TypesAre
<1>1. ASSUME vars' \in Seq(NodeType), out' \in String, undefined' \in BOOLEAN, asked' \subseteq String
      PROVE  TypeOK'
  BY <1>1 DEF TypeOK, NodeType, String
<1>2. ASSUME NEW token \in AssignTokens, Assign(token) PROVE TypeOK'
  <2>1. token \in String /\ IsAssignment(token)
    BY <1>2, VarsAssumption, StillAssignment DEF Assign, String
  <2>2. asked' \subseteq String
    BY <1>2, <2>1, AsksType DEF Assign
  <2> DEFINE name == SplitName(Tokenized(token))
             val == SplitValue(Tokenized(token))
  <2>3. name \in String /\ val \in String
    <3>1. Tokenized(token) \in String
      BY <2>1, TokenizedType
    <3> QED
      BY <1>2, <3>1, SplitType DEF Assign
  <2>4. def_var(name, val)
    BY <1>2 DEF Assign
  <2> HIDE DEF name, val
  <2>5. vars' \in Seq(NodeType) /\ out' = out /\ undefined' \in {TRUE, undefined}
    BY <1>0, <2>3, <2>4, ListStays
  <2> QED
    BY <1>0, <1>1, <2>2, <2>5
<1>3. ASSUME NEW token \in AssignTokens, AssignNothing(token) PROVE TypeOK'
  <2>1. token \in String /\ IsAssignment(token)
    BY <1>3, VarsAssumption, StillAssignment DEF AssignNothing, String
  <2>2. asked' \subseteq String
    BY <1>3, <2>1, AsksType DEF AssignNothing
  <2> QED
    BY <1>0, <1>1, <1>3, <2>2 DEF AssignNothing, ListOK
<1>4. ASSUME NEW tokens \in EchoLines, Echo(tokens) PROVE TypeOK'
  <2> DEFINE line == [k \in DOMAIN tokens |-> Tokenized(tokens[k])]
  <2>1. line \in Line
    BY TokensAre
  <2>2. bn_echo(line) /\ UNCHANGED asked
    BY <1>4 DEF Echo
  <2> HIDE DEF line
  <2>3. echo_final(line) \in String
    BY <1>0, <2>1, EchoType
  <2> QED
    BY <1>0, <1>1, <2>2, <2>3 DEF bn_echo, ListOK
<1>5. CASE UNCHANGED allvars
  BY <1>0, <1>1, <1>5 DEF allvars, ListOK
<1> QED
  BY <1>2, <1>3, <1>4, <1>5 DEF Next

(***************************************************************************)
(* TypeOK: list, text and names stay what they are through every loop over *)
(* the characters, whatever the arrays' sizes and the milestone.           *)
(***************************************************************************)
THEOREM TypeOKHolds == Spec => []TypeOK
BY InitTypes, StepTypes, PTL DEF Spec

-----------------------------------------------------------------------------
(* No node has an empty name.                                              *)
NamesNotEmpty == \A i \in DOMAIN vars : vars[i].name # << >>

LEMMA SameNames ==
  ASSUME ListOK, NEW k, NEW v, vars' = [vars EXCEPT ![k].val = v]
  PROVE  DOMAIN vars' = DOMAIN vars /\ \A i \in DOMAIN vars : vars'[i].name = vars[i].name
<1>1. DOMAIN vars' = DOMAIN vars
  OBVIOUS
<1>2. ASSUME NEW i \in DOMAIN vars PROVE vars'[i].name = vars[i].name
  <2>1. vars[i] \in NodeType
    BY DEF ListOK
  <2>2. vars'[i] = IF i = k THEN [vars[i] EXCEPT !.val = v] ELSE vars[i]
    OBVIOUS
  <2> QED
    BY <2>1, <2>2 DEF NodeType
<1> QED
  BY <1>1, <1>2

LEMMA OneMore ==
  ASSUME ListOK, NEW name \in String, NEW v \in String, vars' = NewNode(name, v)
  PROVE  /\ DOMAIN vars' = 1 .. Len(vars) + 1
         /\ vars'[1] = [name |-> name, val |-> v]
         /\ \A i \in 1..Len(vars) : vars'[i + 1] = vars[i]
<1> DEFINE node == [name |-> name, val |-> v]
<1>1. node \in NodeType
  BY DEF NodeType
<1>2. vars' = <<node>> \o vars
  BY DEF NewNode
<1>3. vars \in Seq(NodeType)
  BY DEF ListOK
<1> HIDE DEF node
<1> QED
  BY <1>1, <1>2, <1>3 DEF node

(* After def_var the name is defined, and so are those that were. *)
LEMMA Defines ==
  ASSUME ListOK, NEW name \in String, NEW val \in String, def_var(name, val), ~undefined'
  PROVE  /\ \E i \in DOMAIN vars' : vars'[i].name = name
         /\ \A j \in DOMAIN vars : \E i \in DOMAIN vars' : vars'[i].name = vars[j].name
         /\ \A i \in DOMAIN vars' : vars'[i].name = name \/ \E j \in DOMAIN vars : vars'[i].name = vars[j].name
<1> DEFINE v == new_val(val)
<1>0. v \in String
  BY NewValueType
<1>1. vars' = IF Overwrites(name) THEN [vars EXCEPT ![FirstNode(name)].val = v] ELSE NewNode(name, v)
  BY DEF def_var
<1> HIDE DEF v
<1>2. CASE Overwrites(name)
  <2>1. DOMAIN vars' = DOMAIN vars /\ \A i \in DOMAIN vars : vars'[i].name = vars[i].name
    BY <1>1, <1>2, SameNames
  <2>2. FirstNode(name) \in DOMAIN vars /\ vars[FirstNode(name)].name = name
    BY <1>2, FirstNodeIs DEF Overwrites
  <2> QED
    BY <2>1, <2>2
<1>3. CASE ~Overwrites(name)
  <2>1. /\ DOMAIN vars' = 1 .. Len(vars) + 1
        /\ vars'[1] = [name |-> name, val |-> v]
        /\ \A i \in 1..Len(vars) : vars'[i + 1] = vars[i]
    BY <1>0, <1>1, <1>3, OneMore
  <2>2. Len(vars) \in Nat /\ DOMAIN vars = 1..Len(vars)
    BY DEF ListOK
  <2>3. 1 \in DOMAIN vars' /\ vars'[1].name = name
    BY <2>1, <2>2
  <2>4. ASSUME NEW j \in DOMAIN vars PROVE \E i \in DOMAIN vars' : vars'[i].name = vars[j].name
    <3>1. j + 1 \in DOMAIN vars' /\ vars'[j + 1] = vars[j]
      BY <2>1, <2>2
    <3> QED
      BY <3>1
  <2>5. ASSUME NEW i \in DOMAIN vars', i # 1 PROVE \E j \in DOMAIN vars : vars'[i].name = vars[j].name
    <3> DEFINE j == i - 1
    <3>1. j \in 1..Len(vars) /\ i = j + 1
      BY <2>1, <2>2, <2>5
    <3>2. vars'[j + 1] = vars[j]
      BY <2>1, <3>1
    <3> QED
      BY <2>2, <3>1, <3>2
  <2> QED
    BY <2>3, <2>4, <2>5
<1> QED
  BY <1>2, <1>3

LEMMA DefinedIs == \A name : Defined(name) <=> \E i \in DOMAIN vars : vars[i].name = name
BY DEF Defined, Nodes

LEMMA DefinedAfter == \A name : Defined(name)' <=> \E i \in DOMAIN vars' : vars'[i].name = name
BY DEF Defined, Nodes

LEMMA StepUnique == TypeOK /\ UniqueNames /\ [Next]_allvars => UniqueNames'
<1> SUFFICES ASSUME TypeOK, UniqueNames, [Next]_allvars PROVE UniqueNames'
  OBVIOUS
<1>0. ListOK
  BY TypesAre
<1>1. CASE UNCHANGED vars
  BY <1>1 DEF UniqueNames
<1>2. ASSUME NEW name \in String, NEW val \in String, def_var(name, val), ~UNCHANGED vars
      PROVE  UniqueNames'
  <2> DEFINE v == new_val(val)
  <2>0. v \in String
    BY <1>0, NewValueType
  <2>1. vars' = IF Overwrites(name) THEN [vars EXCEPT ![FirstNode(name)].val = v] ELSE NewNode(name, v)
    BY <1>2 DEF def_var
  <2> HIDE DEF v
  <2>2. CASE Overwrites(name)
    <3>1. DOMAIN vars' = DOMAIN vars /\ \A i \in DOMAIN vars : vars'[i].name = vars[i].name
      BY <1>0, <2>1, <2>2, SameNames
    <3> QED
      BY <3>1 DEF UniqueNames
  <2>3. CASE ~Overwrites(name)
    <3>1. /\ DOMAIN vars' = 1 .. Len(vars) + 1
          /\ vars'[1] = [name |-> name, val |-> v]
          /\ \A i \in 1..Len(vars) : vars'[i + 1] = vars[i]
      BY <1>0, <1>2, <2>0, <2>1, <2>3, OneMore
    <3>2. Len(vars) \in Nat /\ DOMAIN vars = 1..Len(vars) /\ \A i \in DOMAIN vars : vars[i].name # name
      BY <1>0, <2>3, DefinedIs DEF ListOK, Overwrites
    <3>3. ASSUME NEW i \in DOMAIN vars', i # 1
          PROVE  i - 1 \in DOMAIN vars /\ vars'[i] = vars[i - 1] /\ vars'[i].name # name
      <4> DEFINE j == i - 1
      <4>1. j \in DOMAIN vars /\ i = j + 1
        BY <3>1, <3>2, <3>3
      <4>2. vars'[j + 1] = vars[j]
        BY <3>1, <3>2, <4>1
      <4> QED
        BY <3>2, <4>1, <4>2
    <3>4. ASSUME NEW i \in DOMAIN vars', NEW j \in DOMAIN vars', vars'[i].name = vars'[j].name
          PROVE  i = j
      <4>1. CASE i = 1
        BY <3>1, <3>3, <3>4, <4>1
      <4>2. CASE j = 1
        BY <3>1, <3>3, <3>4, <4>2
      <4>3. CASE i # 1 /\ j # 1
        <5>1. i - 1 = j - 1
          BY <3>3, <3>4, <4>3 DEF UniqueNames
        <5> QED
          BY <3>1, <3>2, <5>1
      <4> QED
        BY <4>1, <4>2, <4>3
    <3> QED
      BY <3>4 DEF UniqueNames
  <2> QED
    BY <2>2, <2>3
<1>3. ASSUME NEW token \in AssignTokens, Assign(token), ~UNCHANGED vars PROVE UniqueNames'
  <2>1. Tokenized(token) \in String
    BY VarsAssumption, TokenizedType DEF String
  <2>2. SplitName(Tokenized(token)) \in String /\ SplitValue(Tokenized(token)) \in String
    BY <1>3, <2>1, SplitType DEF Assign
  <2> QED
    BY <1>2, <1>3, <2>2 DEF Assign
<1> QED
  BY <1>1, <1>3 DEF Next, allvars, AssignNothing, Echo, bn_echo

(***************************************************************************)
(* UniqueNames: the list has one node for each name, so that the value     *)
(* get_var finds is the one that def_var set last.                         *)
(***************************************************************************)
THEOREM UniqueNamesHolds == Spec => []UniqueNames
<1>1. Init => UniqueNames
  BY DEF Init, UniqueNames
<1> QED
  BY <1>1, StepUnique, TypeOKHolds, PTL DEF Spec

LEMMA StepNames == TypeOK /\ NamesNotEmpty /\ [Next]_allvars => NamesNotEmpty'
<1> SUFFICES ASSUME TypeOK, NamesNotEmpty, [Next]_allvars PROVE NamesNotEmpty'
  OBVIOUS
<1>1. CASE UNCHANGED vars
  BY <1>1 DEF NamesNotEmpty
<1>2. ASSUME NEW token \in AssignTokens, Assign(token), ~UNCHANGED vars PROVE NamesNotEmpty'
  <2> DEFINE name == SplitName(Tokenized(token))
             val == SplitValue(Tokenized(token))
  <2>1. name \in String /\ val \in String /\ Len(name) > 0
    <3>1. Tokenized(token) \in String
      BY VarsAssumption, TokenizedType DEF String
    <3> QED
      BY <1>2, <3>1, SplitType DEF Assign
  <2>2. def_var(name, val) /\ ~undefined
    BY <1>2 DEF Assign
  <2> HIDE DEF name, val
  <2>3. ~undefined'
    BY <1>2, <2>2 DEF def_var
  <2>4. \A i \in DOMAIN vars' : vars'[i].name = name \/ \E j \in DOMAIN vars : vars'[i].name = vars[j].name
    BY <2>1, <2>2, <2>3, TypesAre, Defines
  <2>5. name # << >>
    BY <2>1, EmptyString
  <2> QED
    BY <2>4, <2>5 DEF NamesNotEmpty
<1> QED
  BY <1>1, <1>2 DEF Next, allvars, AssignNothing, Echo, bn_echo

-----------------------------------------------------------------------------
LEMMA NotCut == ASSUME Milestone = 3 PROVE \A token : Tokenized(token) = token
BY DEF Tokenized

LEMMA StepAsked ==
  Milestone = 3 /\ TypeOK /\ AskedIsDefined /\ [Next]_allvars => AskedIsDefined'
<1> SUFFICES ASSUME Milestone = 3, TypeOK, AskedIsDefined, [Next]_allvars, ~undefined'
             PROVE  \A name \in asked' : Defined(name)'
  BY DEF AskedIsDefined
<1>0. ListOK
  BY TypesAre
<1>1. ASSUME NEW token \in AssignTokens, Assign(token) PROVE \A name \in asked' : Defined(name)'
  <2>1. token \in String /\ Tokenized(token) = token
    BY VarsAssumption, NotCut DEF String
  <2>2. ~undefined /\ IsAssignment(token) /\ HasNameAndValue(token) /\ def_var(SplitName(token), SplitValue(token)) /\ Asks(token)
    BY <1>1, <2>1 DEF Assign
  <2>3. SplitName(token) \in String /\ SplitValue(token) \in String
    BY <2>1, <2>2, SplitType
  <2>4. /\ \E i \in DOMAIN vars' : vars'[i].name = SplitName(token)
        /\ \A j \in DOMAIN vars : \E i \in DOMAIN vars' : vars'[i].name = vars[j].name
    BY <1>0, <2>2, <2>3, Defines
  <2>5. \A name \in asked : Defined(name)
    BY <2>2 DEF AskedIsDefined
  <2>6. ASSUME NEW name \in asked PROVE Defined(name)'
    <3>1. PICK j \in DOMAIN vars : vars[j].name = name
      BY <2>5, DefinedIs
    <3> QED
      BY <2>4, <3>1, DefinedAfter
  <2>7. CASE UserName(token) # << >>
    <3>1. SplitName(token) = UserName(token)
      BY <2>1, <2>2, <2>7, UserSplit
    <3>2. Defined(UserName(token))'
      BY <2>4, <3>1, DefinedAfter
    <3> QED
      BY <2>2, <2>6, <3>2 DEF Asks
  <2>8. CASE UserName(token) = << >>
    BY <2>2, <2>6, <2>8 DEF Asks
  <2> QED
    BY <2>7, <2>8
<1>2. ASSUME UNCHANGED <<vars, asked>>, ~undefined PROVE \A name \in asked' : Defined(name)'
  BY <1>2, DefinedIs, DefinedAfter DEF AskedIsDefined
<1>3. ASSUME NEW token \in AssignTokens, AssignNothing(token) PROVE \A name \in asked' : Defined(name)'
  <2>1. token \in String /\ Tokenized(token) = token
    BY VarsAssumption, NotCut DEF String
  <2>2. ~undefined /\ IsAssignment(token) /\ ~HasNameAndValue(token) /\ vars' = vars /\ Asks(token)
    BY <1>3, <2>1 DEF AssignNothing
  <2>3. UserName(token) # << >> /\ UserValue(token) # << >> => HasNameAndValue(token)
    BY <2>1, <2>2, UserSplit
  <2>4. asked' = asked
    BY <2>2, <2>3 DEF Asks
  <2> QED
    BY <1>2, <2>2, <2>4
<1>4. ASSUME NEW tokens \in EchoLines, Echo(tokens) PROVE \A name \in asked' : Defined(name)'
  BY <1>2, <1>4 DEF Echo, bn_echo
<1>5. CASE UNCHANGED allvars
  BY <1>2, <1>5 DEF allvars
<1> QED
  BY <1>1, <1>3, <1>4, <1>5 DEF Next

(***************************************************************************)
(* AskedIsDefined, in milestone 3: a name the user has given a value has a *)
(* node.  In milestone 4 replace_variables may cut the value away, and     *)
(* with it the node.                                                       *)
(***************************************************************************)
THEOREM AskedIsDefinedHolds == ASSUME Milestone = 3 PROVE Spec => []AskedIsDefined
<1>1. Init => AskedIsDefined
  BY DEF Init, AskedIsDefined
<1>2. TypeOK /\ AskedIsDefined /\ [Next]_allvars => AskedIsDefined'
  BY StepAsked
<1> QED
  BY <1>1, <1>2, TypeOKHolds, PTL DEF Spec

-----------------------------------------------------------------------------
(* FlattenSeq adds one string after another.                               *)
AddStep(line) == [x \in String \X Nat |-> IF x[2] \in 1..Len(line) THEN x[1] \o line[x[2]] ELSE x[1]]

LEMMA AddStepType == ASSUME NEW line \in Line PROVE AddStep(line) \in [String \X Nat -> String]
<1>1. ASSUME NEW s \in String, NEW k \in 1..Len(line) PROVE s \o line[k] \in String
  <2>1. line[k] \in String
    BY LineIs
  <2> QED
    BY <2>1, Joined DEF String
<1> QED
  BY <1>1 DEF AddStep

LEMMA FlattenIs ==
  ASSUME NEW line \in Line
  PROVE  \E h : IsIterated(h, String, << >>, AddStep(line), Len(line)) /\ FlattenSeq(line) = h[Len(line)]
<1> DEFINE n == Len(line)
           step == AddStep(line)
           Eq(f) == f = [i \in 1..n |-> IF i = 1 THEN line[i] ELSE f[i-1] \o line[i]]
           flatten == CHOOSE f : Eq(f)
<1>1. n \in Nat /\ \A k \in 1..n : line[k] \in String
  BY LineIs
<1>2. << >> \in String /\ step \in [String \X Nat -> String]
  BY EmptyString, AddStepType
<1>3. ASSUME NEW s \in String, NEW k \in 1..n PROVE step[<<s, k>>] = s \o line[k]
  <2>1. k \in Nat
    OBVIOUS
  <2> QED
    BY <2>1 DEF AddStep
<1>4. FlattenSeq(line) = IF n = 0 THEN line ELSE flatten[n]
  BY Zenon DEF FlattenSeq
<1> HIDE DEF step, n
<1>5. PICK h : IsIterated(h, String, << >>, step, n)
  BY <1>1, <1>2, Iterates
<1>6. ASSUME NEW k \in 1..n PROVE h[k-1] \in String /\ h[k] = h[k-1] \o line[k]
  <2>1. k - 1 \in 0..n
    BY <1>1
  <2>2. h[k-1] \in String
    BY <1>5, <2>1 DEF IsIterated
  <2> QED
    BY <1>3, <1>5, <2>2 DEF IsIterated
<1>7. CASE n = 0
  <2>1. line = << >>
    BY <1>7 DEF n, Line
  <2> QED
    BY <1>4, <1>5, <1>7, <2>1 DEF IsIterated, step, n
<1>8. CASE n # 0
  <2> DEFINE g == [i \in 1..n |-> h[i]]
  <2>1. Eq(g)
    <3>1. ASSUME NEW i \in 1..n, i # 1 PROVE g[i] = g[i-1] \o line[i]
      <4>1. i - 1 \in 1..n
        BY <1>1, <3>1
      <4> QED
        BY <1>6, <4>1
    <3>2. 1 \in 1..n => g[1] = line[1]
      <4> SUFFICES ASSUME 1 \in 1..n PROVE h[1] = line[1]
        OBVIOUS
      <4>1. h[1 - 1] = << >> /\ line[1] \in String
        BY <1>1, <1>5 DEF IsIterated
      <4>2. h[1] = << >> \o line[1]
        BY <1>6, <4>1
      <4> QED
        BY <4>1, <4>2 DEF String
    <3> QED
      BY <3>1, <3>2
  <2>2. Eq(flatten)
    <3> HIDE DEF g
    <3> QED
      BY <2>1, Zenon
  <2> HIDE DEF flatten
  <2> DEFINE P == {k \in Nat : k \in 1..n => flatten[k] = h[k]}
  <2>3. 0 \in P
    OBVIOUS
  <2>4. ASSUME NEW k \in Nat, k \in P PROVE k + 1 \in P
    <3> SUFFICES ASSUME k + 1 \in 1..n PROVE flatten[k + 1] = h[k + 1]
      OBVIOUS
    <3> DEFINE j == k + 1
    <3>1. j \in 1..n /\ j - 1 = k /\ (k = 0 \/ k \in 1..n)
      BY <1>1
    <3> HIDE DEF j
    <3>2. flatten[j] = IF j = 1 THEN line[j] ELSE flatten[j-1] \o line[j]
      BY <2>2, <3>1
    <3>3. g[j] = IF j = 1 THEN line[j] ELSE g[j-1] \o line[j]
      BY <2>1, <3>1
    <3>4. j # 1 => k \in 1..n
      BY <3>1
    <3> QED
      BY <2>4, <3>1, <3>2, <3>3, <3>4 DEF j
  <2> HIDE DEF P
  <2>5. \A k \in Nat : k \in P
    BY <2>3, <2>4, NatSetInduction
  <2>6. n \in P /\ n \in 1..n
    BY <1>1, <1>8, <2>5
  <2>7. flatten[n] = h[n]
    BY <2>6 DEF P
  <2> QED
    BY <1>4, <1>5, <1>8, <2>7 DEF step, n
<1> QED
  BY <1>7, <1>8

LEMMA SameText ==
  /\ \A s, n : Env!Take(s, n) = Take(s, n)
  /\ \A s, c, i : Env!UpToNext(s, c, i) = UpToNext(s, c, i)
  /\ \A s : Env!FlattenSeq(s) = FlattenSeq(s)
<1>1. \A s, n : Env!Take(s, n) = Take(s, n)
  BY DEF Take, Env!Take
<1>2. \A s, c, i : Env!UpToNext(s, c, i) = UpToNext(s, c, i)
  BY DEF UpToNext, Env!UpToNext
<1>3. \A s : Env!FlattenSeq(s) = FlattenSeq(s)
  BY DEF FlattenSeq, Env!FlattenSeq
<1> QED
  BY <1>1, <1>2, <1>3

-----------------------------------------------------------------------------
(* What ShellEnv says of one character, in the words of MyshVars.          *)
LEMMA ValueCharIs ==
  ASSUME NEW t, NEW i
  PROVE  Env!ValueChar(t, i) =
           IF \A j \in 1..i : t[j] # "$" THEN <<t[i]>>
           ELSE IF t[i] # "$" THEN << >> ELSE ExpandName(UpToNext(t, "$", i + 1))
<1>1. Env!NameAt(t, i) = UpToNext(t, "$", i + 1)
  BY SameText DEF Env!NameAt
<1> DEFINE name == UpToNext(t, "$", i + 1)
<1>2. Env!ValueChar(t, i) =
        IF \A j \in 1..i : t[j] # "$" THEN <<t[i]>>
        ELSE IF t[i] # "$" THEN << >>
        ELSE IF name \in {vars[k].name : k \in DOMAIN vars} THEN get_var(name) ELSE <<"$">> \o name
  BY <1>1 DEF Env!ValueChar, Env!BeforeDollar
<1>3. name \in {vars[k].name : k \in DOMAIN vars} <=> Defined(name)
  BY DefinedIs
<1> QED
  BY <1>2, <1>3 DEF ExpandName

LEMMA ShowCharIs ==
  ASSUME NEW t, NEW i
  PROVE  Env!ShowChar(t, i) =
           IF \A j \in 1..i : t[j] # "$" THEN <<t[i]>>
           ELSE IF t[i] = "$" THEN get_var(UpToNext(t, "$", i + 1)) ELSE << >>
<1>1. Env!NameAt(t, i) = UpToNext(t, "$", i + 1)
  BY SameText DEF Env!NameAt
<1> DEFINE name == UpToNext(t, "$", i + 1)
<1>2. Env!ShowChar(t, i) =
        IF \A j \in 1..i : t[j] # "$" THEN <<t[i]>>
        ELSE IF t[i] = "$" /\ name \in {vars[k].name : k \in DOMAIN vars} THEN get_var(name) ELSE << >>
  BY <1>1 DEF Env!ShowChar, Env!BeforeDollar
<1>3. name \in {vars[k].name : k \in DOMAIN vars} <=> Defined(name)
  BY DefinedIs
<1> QED
  BY <1>2, <1>3 DEF get_var

LEMMA NothingAdded == ASSUME NEW s \in String PROVE s \o << >> = s /\ << >> \o s = s
BY DEF String

LEMMA Grouped ==
  ASSUME NEW s \in String, NEW t \in String, NEW u \in String
  PROVE  (s \o t) \o u = s \o (t \o u)
<1>1. s \in Seq(Char) /\ t \in Seq(Char) /\ u \in Seq(Char)
  BY DEF String
<1> QED
  BY <1>1, ConcatAssociative

LEMMA TakeOneMore ==
  ASSUME NEW s \in String, NEW i \in Nat, i < Len(s)
  PROVE  Take(s, i + 1) = Take(s, i) \o <<s[i + 1]>>
<1> DEFINE j == i + 1
           a == Take(s, j)
           b == Take(s, i)
           c == b \o <<s[j]>>
<1>0. Len(s) \in Nat /\ j \in Nat /\ j \in Int /\ i \in Int /\ j \in 1..Len(s) /\ j <= Len(s)
  BY StringIs
<1>1. s[j] \in Char /\ <<s[j]>> \in String /\ Len(<<s[j]>>) = 1 /\ <<s[j]>>[1] = s[j]
  <2>1. s[j] \in Char
    BY <1>0, StringIs
  <2> HIDE DEF j
  <2> QED
    BY <2>1, OneChar
<1> HIDE DEF j
<1>2. a \in String /\ Len(a) = (IF j < Len(s) THEN j ELSE Len(s)) /\ \A k \in 1..Len(a) : a[k] = s[k]
  BY <1>0, TakeIs
<1>3. b \in String /\ Len(b) = (IF i < Len(s) THEN i ELSE Len(s)) /\ \A k \in 1..Len(b) : b[k] = s[k]
  BY <1>0, TakeIs
<1>4. Len(a) = j /\ Len(b) = i
  BY <1>0, <1>2, <1>3
<1> HIDE DEF a, b
<1>5. c \in String /\ Len(c) = i + 1 /\ (\A k \in 1..i : c[k] = b[k]) /\ c[i + 1] = s[j]
  <2>1. /\ c \in Seq(Char) /\ Len(c) = Len(b) + Len(<<s[j]>>)
        /\ \A k \in 1..Len(b) : c[k] = b[k]
        /\ \A k \in 1..Len(<<s[j]>>) : c[Len(b) + k] = <<s[j]>>[k]
    <3>1. b \in Seq(Char) /\ <<s[j]>> \in Seq(Char)
      BY <1>1, <1>3 DEF String
    <3> QED
      BY <3>1, Joined
  <2> QED
    BY <1>1, <1>4, <2>1 DEF String
<1> HIDE DEF c
<1>6. \A k \in 1..j : a[k] = c[k]
  <2>1. \A k \in 1..i : a[k] = c[k]
    BY <1>0, <1>2, <1>3, <1>4, <1>5 DEF j
  <2>2. a[j] = c[j]
    BY <1>0, <1>2, <1>4, <1>5 DEF j
  <2> QED
    BY <2>1, <2>2 DEF j
<1>7. a = c
  <2>1. Len(a) = Len(c) /\ a \in Seq(Char) /\ c \in Seq(Char) /\ \A k \in 1..Len(a) : a[k] = c[k]
    BY <1>2, <1>4, <1>5, <1>6 DEF j, String
  <2> QED
    BY <2>1, SeqEqual
<1> QED
  BY <1>7 DEF a, c, b, j

LEMMA UpToDollar ==
  ASSUME NEW s \in String, NEW p \in Nat, IsNext(s, "$", 1, p)
  PROVE  UpToNext(s, "$", 1) = Take(s, p - 1)
<1> DEFINE u == UpToNext(s, "$", 1)
           n == p - 1
<1>0. Len(s) \in Nat /\ 1 \in 1 .. Len(s) + 1 /\ p \in 1 .. Len(s) + 1 /\ n \in Nat /\ n <= Len(s) /\ n \in Int
  BY StringIs DEF IsNext
<1>1. u \in String /\ Len(u) = n /\ \A j \in 1..n : u[j] = s[1 + j - 1]
  BY <1>0, UpToNextIs
<1>2. \A j \in 1..n : u[j] = s[j]
  BY <1>0, <1>1
<1> HIDE DEF n
<1>3. Take(s, n) \in String /\ Len(Take(s, n)) = n /\ \A j \in 1..n : Take(s, n)[j] = s[j]
  <2>1. /\ Take(s, n) \in String /\ Len(Take(s, n)) = IF n < Len(s) THEN n ELSE Len(s)
        /\ \A i \in 1 .. Len(Take(s, n)) : Take(s, n)[i] = s[i]
    BY <1>0, TakeIs
  <2>2. Len(Take(s, n)) = n
    BY <1>0, <2>1
  <2> QED
    BY <2>1, <2>2
<1> DEFINE t == Take(s, n)
<1> HIDE DEF u, t
<1>4. u \in Seq(Char) /\ t \in Seq(Char) /\ Len(u) = Len(t) /\ \A j \in 1..Len(u) : u[j] = t[j]
  BY <1>1, <1>2, <1>3 DEF String, t
<1>5. u = t
  BY <1>4, SeqEqual
<1> QED
  BY <1>5 DEF u, t, n

(* Before the first "$" both readings copy the string. *)
LEMMA CopiedTo ==
  ASSUME NEW s \in String, NEW p \in Nat, IsNext(s, "$", 1, p),
         NEW line \in Line, Len(line) = Len(s), \A i \in 1..p-1 : line[i] = <<s[i]>>,
         NEW h, IsIterated(h, String, << >>, AddStep(line), Len(line))
  PROVE  h[p - 1] = UpToNext(s, "$", 1)
<1>0. Len(s) \in Nat /\ p \in 1 .. Len(s) + 1
  BY StringIs DEF IsNext
<1> DEFINE P == {i \in Nat : i < p => h[i] = Take(s, i)}
<1>1. 0 \in P
  <2>1. Take(s, 0) \in String /\ Len(Take(s, 0)) = 0
    BY TakeIs
  <2>2. Take(s, 0) = << >>
    BY <2>1 DEF String
  <2> QED
    BY <2>2 DEF IsIterated
<1>2. ASSUME NEW i \in Nat, i \in P PROVE i + 1 \in P
  <2> SUFFICES ASSUME i + 1 < p PROVE h[i + 1] = Take(s, i + 1)
    OBVIOUS
  <2> DEFINE j == i + 1
  <2>1. j \in 1..Len(line) /\ j - 1 = i /\ i \in 0..Len(line) /\ j \in 1..p-1 /\ j \in Nat /\ i < Len(s)
    BY <1>0
  <2>2. h[i] = Take(s, i) /\ Take(s, i + 1) = Take(s, i) \o <<s[i + 1]>>
    BY <1>2, <2>1, TakeOneMore
  <2>3. Take(s, i + 1) = Take(s, i) \o <<s[j]>>
    BY <2>2
  <2> HIDE DEF j
  <2>4. h[j] = AddStep(line)[<<h[i], j>>] /\ h[i] \in String
    BY <2>1 DEF IsIterated
  <2>5. h[j] = h[i] \o line[j]
    BY <2>1, <2>4 DEF AddStep
  <2>6. line[j] = <<s[j]>>
    BY <2>1
  <2> QED
    BY <2>2, <2>3, <2>5, <2>6 DEF j
<1> HIDE DEF P
<1>3. \A i \in Nat : i \in P
  BY <1>1, <1>2, NatSetInduction
<1> DEFINE n == p - 1
<1>4. n \in Nat /\ n < p
  BY <1>0
<1> HIDE DEF n
<1>5. h[n] = Take(s, n)
  BY <1>3, <1>4 DEF P
<1> QED
  BY <1>5, UpToDollar DEF n

(* One step of a fold, in the words of its operator. *)
LEMMA AddOne ==
  ASSUME NEW line \in Line, NEW h, IsIterated(h, String, << >>, AddStep(line), Len(line)), NEW k \in 1..Len(line)
  PROVE  h[k-1] \in String /\ h[k] \in String /\ h[k] = h[k-1] \o line[k]
<1>1. k - 1 \in 0..Len(line) /\ k \in Nat /\ k \in 0..Len(line)
  BY LineIs
<1>2. h[k-1] \in String /\ h[k] \in String /\ h[k] = AddStep(line)[<<h[k-1], k>>]
  BY <1>1 DEF IsIterated
<1> QED
  BY <1>1, <1>2 DEF AddStep

LEMMA ExpandOne ==
  ASSUME NEW val \in String, NEW base, NEW f, IsIterated(f, String, base, ExpandStep(val), Len(val)), NEW k \in 1..Len(val)
  PROVE  f[k-1] \in String /\
         f[k] = IF val[k] = "$" THEN f[k-1] \o ExpandName(UpToNext(val, "$", k + 1)) ELSE f[k-1]
<1>1. k - 1 \in 0..Len(val) /\ k \in Nat
  BY StringIs
<1>2. f[k-1] \in String /\ f[k] = ExpandStep(val)[<<f[k-1], k>>]
  BY <1>1 DEF IsIterated
<1> QED
  BY <1>1, <1>2 DEF ExpandStep

LEMMA ValueLine ==
  ASSUME ListOK, NEW val \in String
  PROVE  /\ [i \in DOMAIN val |-> Env!ValueChar(val, i)] \in Line
         /\ Len([i \in DOMAIN val |-> Env!ValueChar(val, i)]) = Len(val)
<1>1. ASSUME NEW i \in 1..Len(val) PROVE Env!ValueChar(val, i) \in String
  <2>1. <<val[i]>> \in String
    BY StringIs, OneChar
  <2> DEFINE j == i + 1
  <2>2. j \in 1 .. Len(val) + 1
    BY StringIs
  <2> HIDE DEF j
  <2>3. ExpandName(UpToNext(val, "$", j)) \in String
    BY <2>2, UpToNextType, ExpandType
  <2> QED
    BY <2>1, <2>3, ValueCharIs, EmptyString DEF j
<1>2. Len(val) \in Nat /\ DOMAIN val = 1..Len(val)
  BY StringIs
<1>3. [i \in 1..Len(val) |-> Env!ValueChar(val, i)] \in [1..Len(val) -> String]
  BY <1>1
<1> DEFINE f == [i \in 1..Len(val) |-> Env!ValueChar(val, i)]
           n == Len(val)
<1> HIDE DEF f, n
<1>4. \A g \in [1..n -> String] : g \in Seq(String) /\ Len(g) = n
  BY <1>2 DEF n
<1>5. f \in Seq(String) /\ Len(f) = n
  BY <1>3, <1>4 DEF f, n
<1> QED
  BY <1>2, <1>5 DEF f, n, Line

LEMMA NewValueRight ==
  ASSUME ListOK, NEW val \in String
  PROVE  new_val(val) = Env!ValueOf(val)
<1> DEFINE line == [i \in DOMAIN val |-> Env!ValueChar(val, i)]
           n == Len(val)
<1>0. n \in Nat /\ DOMAIN val = 1..n /\ 1 \in 1 .. Len(val) + 1
  BY StringIs
<1>1. line \in Line /\ Len(line) = n /\ \A i \in 1..n : line[i] = Env!ValueChar(val, i)
  BY <1>0, ValueLine
<1>2. Env!ValueOf(val) = FlattenSeq(line)
  BY SameText DEF Env!ValueOf
<1> HIDE DEF line
<1>3. PICK h : IsIterated(h, String, << >>, AddStep(line), Len(line)) /\ FlattenSeq(line) = h[Len(line)]
  BY <1>1, FlattenIs
<1>4. PICK f : IsIterated(f, String, UpToNext(val, "$", 1), ExpandStep(val), Len(val)) /\ new_val(val) = f[Len(val)]
  BY NewValueIs
<1>5. PICK p \in Nat : IsNext(val, "$", 1, p)
  BY <1>0, NextExists
<1>6. p \in 1 .. n + 1 /\ (p = n + 1 \/ val[p] = "$") /\ \A j \in 1..p-1 : val[j] # "$"
  BY <1>5 DEF IsNext
<1>7. ASSUME NEW i \in 1..p-1 PROVE line[i] = <<val[i]>>
  <2>1. i \in 1..n /\ \A j \in 1..i : val[j] # "$"
    BY <1>0, <1>6
  <2> QED
    BY <1>1, <2>1, ValueCharIs
<1>8. h[p - 1] = f[0]
  <2>1. h[p - 1] = UpToNext(val, "$", 1)
    BY <1>1, <1>3, <1>5, <1>7, CopiedTo
  <2> QED
    BY <1>4, <2>1 DEF IsIterated
<1> DEFINE P == {i \in Nat : i <= n => IF i < p THEN f[i] = f[0] ELSE f[i] = h[i]}
<1>9. 0 \in P
  BY <1>6
<1>10. ASSUME NEW i \in Nat, i \in P PROVE i + 1 \in P
  <2> DEFINE k == i + 1
  <2> SUFFICES ASSUME k <= n PROVE IF k < p THEN f[k] = f[0] ELSE f[k] = h[k]
    OBVIOUS
  <2>1. k \in 1..n /\ k - 1 = i
    BY <1>0
  <2> HIDE DEF k
  <2>2. f[i] \in String /\ f[k] = IF val[k] = "$" THEN f[i] \o ExpandName(UpToNext(val, "$", k + 1)) ELSE f[i]
    BY <1>4, <2>1, ExpandOne
  <2>3. h[i] \in String /\ h[k] = h[i] \o line[k]
    BY <1>1, <1>3, <2>1, AddOne
  <2>4. CASE k < p
    <3>1. val[k] # "$" /\ f[i] = f[0]
      BY <1>6, <1>10, <2>1, <2>4
    <3> QED
      BY <2>2, <2>4, <3>1
  <2>5. CASE ~(k < p)
    <3>1. f[i] = h[i]
      BY <1>8, <1>10, <2>1, <2>5, <1>6
    <3>2. line[k] = IF val[k] = "$" THEN ExpandName(UpToNext(val, "$", k + 1)) ELSE << >>
      <4>1. ~ \A j \in 1..k : val[j] # "$"
        BY <1>0, <1>6, <2>1, <2>5
      <4> QED
        BY <1>1, <2>1, <4>1, ValueCharIs
    <3> QED
      BY <2>2, <2>3, <2>5, <3>1, <3>2, NothingAdded
  <2> QED
    BY <2>4, <2>5
<1> HIDE DEF P
<1>11. \A i \in Nat : i \in P
  BY <1>9, <1>10, NatSetInduction
<1>12. f[n] = h[n]
  <2>1. IF n < p THEN f[n] = f[0] ELSE f[n] = h[n]
    BY <1>0, <1>11 DEF P
  <2>2. n < p => p - 1 = n
    BY <1>0, <1>6
  <2> QED
    BY <1>8, <2>1, <2>2
<1> QED
  BY <1>1, <1>2, <1>3, <1>4, <1>12

-----------------------------------------------------------------------------
(* What echo has put into its array, against all that the line should      *)
(* show: the beginning of it that fits, or already too much.               *)
Shows(final, full) ==
  \/ Len(final) >= MAX_STR_LEN /\ Len(full) >= Len(final)
  \/ final = Take(full, MAX_STR_LEN - 1)

LEMMA ArraySize == MAX_STR_LEN - 1 \in Nat /\ MAX_STR_LEN \in Int /\ MAX_STR_LEN > 0
<1>1. MAX_STR_LEN \in Nat \ {0}
  BY VarsAssumption
<1> QED
  BY <1>1

LEMMA JoinType ==
  ASSUME NEW s \in String, NEW t \in String
  PROVE  s \o t \in String /\ Len(s \o t) = Len(s) + Len(t)
BY Joined DEF String

(* The first n characters of two strings, when the first has no more. *)
LEMMA TakeOfJoined ==
  ASSUME NEW s \in String, NEW t \in String, NEW n \in Nat
  PROVE  /\ Len(s) >= n => Take(s \o t, n) = Take(s, n)
         /\ Len(s) <= n => Take(s \o t, n) = s \o Take(t, n - Len(s))
<1> DEFINE st == s \o t
           d == n - Len(s)
           a == Take(st, n)
           b == Take(s, n)
           c == Take(t, d)
           sc == s \o c
<1>0. Len(s) \in Nat /\ Len(t) \in Nat /\ d \in Int /\ n \in Int
  BY StringIs
<1>1. /\ st \in String /\ Len(st) = Len(s) + Len(t)
      /\ (\A i \in 1..Len(s) : st[i] = s[i]) /\ \A i \in 1..Len(t) : st[Len(s) + i] = t[i]
  BY Joined DEF String
<1> HIDE DEF st
<1>2. a \in String /\ Len(a) = (IF n < Len(st) THEN n ELSE Len(st)) /\ \A i \in 1..Len(a) : a[i] = st[i]
  BY <1>0, <1>1, TakeIs
<1>3. b \in String /\ Len(b) = (IF n < Len(s) THEN n ELSE Len(s)) /\ \A i \in 1..Len(b) : b[i] = s[i]
  BY <1>0, TakeIs
<1> HIDE DEF d
<1>4. c \in String /\ (d >= 0 => Len(c) = IF d < Len(t) THEN d ELSE Len(t)) /\ \A i \in 1..Len(c) : c[i] = t[i]
  BY <1>0, TakeIs
<1> HIDE DEF c
<1>5. /\ sc \in String /\ Len(sc) = Len(s) + Len(c) /\ Len(c) \in Nat
      /\ (\A i \in 1..Len(s) : sc[i] = s[i]) /\ \A i \in 1..Len(c) : sc[Len(s) + i] = c[i]
  BY <1>4, Joined DEF String
<1> HIDE DEF a, b, sc
<1>6. ASSUME Len(s) >= n PROVE a = b
  <2>1. Len(a) = n /\ Len(b) = n
    BY <1>0, <1>1, <1>2, <1>3, <1>6
  <2>2. \A i \in 1..n : a[i] = b[i]
    BY <1>0, <1>1, <1>2, <1>3, <1>6, <2>1
  <2>3. a \in Seq(Char) /\ b \in Seq(Char)
    BY <1>2, <1>3 DEF String
  <2> QED
    BY <2>1, <2>2, <2>3, SeqEqual
<1>7. ASSUME Len(s) <= n PROVE a = sc
  <2>1. d = n - Len(s) /\ d >= 0
    BY <1>0, <1>7 DEF d
  <2>2. Len(a) = Len(sc)
    <3>1. CASE n < Len(st)
      BY <1>0, <1>1, <1>2, <1>4, <1>5, <2>1, <3>1
    <3>2. CASE ~(n < Len(st))
      <4>1. Len(a) = Len(s) + Len(t) /\ d >= Len(t)
        BY <1>0, <1>1, <1>2, <2>1, <3>2
      <4>2. Len(c) = Len(t)
        BY <1>0, <1>4, <2>1, <4>1
      <4> QED
        BY <1>5, <4>1, <4>2
    <3> QED
      BY <3>1, <3>2
  <2>3. ASSUME NEW i \in 1..Len(a) PROVE a[i] = sc[i]
    <3>1. CASE i <= Len(s)
      <4>1. i \in 1..Len(s)
        BY <1>0, <3>1
      <4> QED
        BY <1>1, <1>2, <1>5, <4>1
    <3>2. CASE ~(i <= Len(s))
      <4> DEFINE j == i - Len(s)
      <4>1. i \in Nat /\ Len(a) \in Nat /\ i <= Len(sc)
        BY <1>2, <2>2, StringIs
      <4>2. j \in 1..Len(c) /\ i = Len(s) + j
        BY <1>0, <1>5, <2>2, <3>2, <4>1
      <4> HIDE DEF j
      <4>3. j \in 1..Len(t)
        BY <1>0, <1>4, <2>1, <4>2
      <4> QED
        BY <1>1, <1>2, <1>4, <1>5, <4>2, <4>3
    <3> QED
      BY <3>1, <3>2
  <2>4. a \in Seq(Char) /\ sc \in Seq(Char)
    BY <1>2, <1>5 DEF String
  <2> QED
    BY <2>2, <2>3, <2>4, SeqEqual
<1> QED
  BY <1>6, <1>7 DEF a, b, sc, c, d, st

LEMMA TextShows ==
  ASSUME NEW final \in String, NEW full \in String, NEW s \in String, Shows(final, full)
  PROVE  Shows(PutText(final, s), full \o s)
<1> DEFINE n == MAX_STR_LEN - 1
           put == PutText(final, s)
           all == full \o s
<1>0. n \in Nat /\ n \in Int /\ MAX_STR_LEN = n + 1 /\ Len(final) \in Nat /\ Len(full) \in Nat /\ Len(s) \in Nat
  BY ArraySize, StringIs
<1>1. put = final \o s /\ put \in String /\ Len(put) = Len(final) + Len(s) /\ all \in String /\ Len(all) = Len(full) + Len(s)
  BY JoinType DEF PutText
<1> HIDE DEF n, put, all
<1>2. CASE Len(final) >= MAX_STR_LEN /\ Len(full) >= Len(final)
  <2>1. Len(put) >= MAX_STR_LEN /\ Len(all) >= Len(put)
    BY <1>0, <1>1, <1>2
  <2> QED
    BY <2>1 DEF Shows, put, all
<1>3. CASE final = Take(full, n)
  <2>1. /\ Len(final) = IF n < Len(full) THEN n ELSE Len(full)
        /\ n >= Len(full) => final = full
    BY <1>0, <1>3, TakeIs
  <2>2. CASE Len(put) > n
    <3>1. Len(put) >= MAX_STR_LEN /\ Len(all) >= Len(put)
      BY <1>0, <1>1, <2>1, <2>2
    <3> QED
      BY <3>1 DEF Shows, put, all
  <2>3. CASE Len(put) <= n /\ n >= Len(full)
    <3>1. put = all
      BY <1>1, <2>1, <2>3 DEF all
    <3>2. Take(all, n) = all
      BY <1>0, <1>1, <2>3, <3>1, TakeIs
    <3> QED
      BY <3>1, <3>2 DEF Shows, put, all, n
  <2>4. CASE Len(put) <= n /\ n < Len(full)
    <3>1. Len(s) = 0
      BY <1>0, <1>1, <2>1, <2>4
    <3>2. s = << >>
      BY <3>1 DEF String
    <3>3. put = final /\ all = full
      BY <1>1, <3>2, NothingAdded DEF all
    <3> QED
      BY <1>3, <3>3 DEF Shows, put, all, n
  <2> QED
    <3>1. Len(put) \in Nat
      BY <1>1, StringIs
    <3> QED
      BY <1>0, <2>2, <2>3, <2>4, <3>1
<1> QED
  BY <1>2, <1>3 DEF Shows, n

LEMMA ValueShows ==
  ASSUME NEW final \in String, NEW full \in String, NEW s \in String, Shows(final, full)
  PROVE  Shows(PutValue(final, s), full \o s)
<1> DEFINE n == MAX_STR_LEN - 1
           d == n - Len(final)
           put == PutValue(final, s)
           all == full \o s
<1>0. n \in Nat /\ n \in Int /\ MAX_STR_LEN = n + 1 /\ Len(final) \in Nat /\ Len(full) \in Nat /\ Len(s) \in Nat
      /\ d \in Int
  BY ArraySize, StringIs
<1>1. put = final \o Take(s, d) /\ all \in String /\ Len(all) = Len(full) + Len(s)
  BY JoinType DEF PutValue
<1>5. d = n - Len(final)
  OBVIOUS
<1> HIDE DEF n, d, put, all
<1>4. d <= 0 => Take(s, d) = << >>
  <2>1. Take(s, d) \in String /\ (d <= 0 => Len(Take(s, d)) = 0)
    BY <1>0, TakeIs
  <2> QED
    BY <2>1 DEF String
<1>2. CASE Len(final) >= MAX_STR_LEN /\ Len(full) >= Len(final)
  <2>1. d <= 0
    BY <1>0, <1>2, <1>5
  <2>2. put = final
    BY <1>1, <1>4, <2>1, NothingAdded
  <2>3. Len(put) >= MAX_STR_LEN /\ Len(all) >= Len(put)
    BY <1>0, <1>1, <1>2, <2>2
  <2> QED
    BY <2>3 DEF Shows, put, all
<1>3. CASE final = Take(full, n)
  <2>1. /\ Len(final) = IF n < Len(full) THEN n ELSE Len(full)
        /\ n >= Len(full) => final = full
    BY <1>0, <1>3, TakeIs
  <2>2. put = Take(all, n)
    <3>1. CASE Len(full) <= n
      <4>1. final = full
        BY <1>0, <2>1, <3>1
      <4>2. Take(all, n) = full \o Take(s, n - Len(full))
        BY <1>0, <3>1, TakeOfJoined DEF all
      <4> QED
        BY <1>1, <1>5, <4>1, <4>2
    <3>2. CASE ~(Len(full) <= n)
      <4>1. Len(full) >= n /\ d <= 0
        BY <1>0, <1>5, <2>1, <3>2
      <4>2. Take(all, n) = Take(full, n)
        BY <1>0, <4>1, TakeOfJoined DEF all
      <4>3. put = final
        BY <1>1, <1>4, <4>1, NothingAdded
      <4> QED
        BY <1>3, <4>2, <4>3
    <3> QED
      BY <3>1, <3>2
  <2> QED
    BY <2>2 DEF Shows, put, all, n
<1> QED
  BY <1>2, <1>3 DEF Shows, n

-----------------------------------------------------------------------------
(* One argument.                                                           *)
LEMMA ShowCharType ==
  ASSUME ListOK, NEW token \in String, NEW i \in 1..Len(token)
  PROVE  Env!ShowChar(token, i) \in String
<1>1. <<token[i]>> \in String
  BY StringIs, OneChar
<1> QED
  BY <1>1, ValueType, ShowCharIs, EmptyString

LEMMA ShowLineOf ==
  ASSUME ListOK, NEW token \in String
  PROVE  /\ [i \in DOMAIN token |-> Env!ShowChar(token, i)] \in Line
         /\ Len([i \in DOMAIN token |-> Env!ShowChar(token, i)]) = Len(token)
<1>2. Len(token) \in Nat /\ DOMAIN token = 1..Len(token)
  BY StringIs
<1>3. [i \in 1..Len(token) |-> Env!ShowChar(token, i)] \in [1..Len(token) -> String]
  BY ShowCharType
<1> DEFINE f == [i \in 1..Len(token) |-> Env!ShowChar(token, i)]
           n == Len(token)
<1> HIDE DEF f, n
<1>4. \A g \in [1..n -> String] : g \in Seq(String) /\ Len(g) = n
  BY <1>2 DEF n
<1>5. f \in Seq(String) /\ Len(f) = n
  BY <1>3, <1>4 DEF f, n
<1> QED
  BY <1>2, <1>5 DEF f, n, Line

(* A "$" that no name follows refers to no variable. *)
LEMMA NoName ==
  ASSUME ListOK, NamesNotEmpty, NEW token \in String, NEW k \in 1..Len(token), token[k] = "$",
         k + 1 \notin PieceStarts(token, "$")
  PROVE  get_var(UpToNext(token, "$", k + 1)) = << >>
<1> DEFINE j == k + 1
           name == UpToNext(token, "$", j)
<1>0. Len(token) \in Nat /\ DOMAIN token = 1..Len(token)
  BY StringIs
<1>1. j \in 1 .. Len(token) + 1 /\ j \in Nat /\ j > 1 /\ j - 1 = k
  BY <1>0
<1>4. j \notin PieceStarts(token, "$")
  OBVIOUS
<1> HIDE DEF j
<1>2. IsNext(token, "$", j, j)
  BY <1>0, <1>1, <1>4 DEF PieceStarts, IsNext
<1>3. name \in String /\ Len(name) = j - j
  BY <1>1, <1>2, UpToNextIs
<1>5. name = << >>
  BY <1>1, <1>3 DEF String
<1>6. ~Defined(<< >>)
  BY DefinedIs DEF NamesNotEmpty
<1> QED
  BY <1>5, <1>6 DEF get_var, j, name

LEMMA PutOne ==
  ASSUME NEW token \in String, NEW base, NEW f, IsIterated(f, String, base, PutStep(token), Len(token)), NEW k \in 1..Len(token)
  PROVE  f[k-1] \in String /\ f[k] = PutName(f[k-1], token, k)
<1>1. k - 1 \in 0..Len(token) /\ k \in Nat
  BY StringIs
<1>2. f[k-1] \in String /\ f[k] = PutStep(token)[<<f[k-1], k>>]
  BY <1>1 DEF IsIterated
<1> QED
  BY <1>1, <1>2 DEF PutStep

(* Text is what goes before the first "$". *)
LEMMA TextIs ==
  ASSUME NEW token \in String, token # <<"$">>
  PROVE  TextOf(token) = UpToNext(token, "$", 1)
<1>0. Len(token) \in Nat /\ DOMAIN token = 1..Len(token) /\ 1 \in 1 .. Len(token) + 1
  BY StringIs
<1>1. CASE 1 \in PieceStarts(token, "$")
  BY <1>1 DEF TextOf, strtok
<1>2. CASE 1 \notin PieceStarts(token, "$")
  <2>1. Len(token) = 0 \/ token[1] = "$"
    BY <1>0, <1>2 DEF PieceStarts
  <2>2. IsNext(token, "$", 1, 1)
    BY <1>0, <2>1 DEF IsNext
  <2>3. UpToNext(token, "$", 1) \in String /\ Len(UpToNext(token, "$", 1)) = 1 - 1
    BY <1>0, <2>2, UpToNextIs
  <2>4. UpToNext(token, "$", 1) = << >>
    BY <2>3 DEF String
  <2> QED
    BY <1>2, <2>4 DEF TextOf
<1> QED
  BY <1>1, <1>2

LEMMA LoneDollar ==
  ASSUME ListOK, NEW final \in String
  PROVE  PutToken(final, <<"$">>) = PutText(final, <<"$">>)
<1> DEFINE token == <<"$">>
<1>1. token \in String /\ Len(token) = 1 /\ token[1] = "$"
  BY VarsAssumption, OneChar
<1>2. TextOf(token) = token
  BY DEF TextOf
<1>5. DOMAIN token = 1..1
  BY <1>1, StringIs
<1> HIDE DEF token
<1>3. PICK f : /\ IsIterated(f, String, PutText(final, TextOf(token)), PutStep(token), Len(token))
               /\ PutToken(final, token) = f[Len(token)]
  BY <1>1, PutTokenIs
<1>4. 1 \in 1..Len(token) /\ 2 \notin PieceStarts(token, "$")
  BY <1>1, <1>5 DEF PieceStarts
<1>6. PICK k \in 1..Len(token) : k = 1
  BY <1>4
<1>7. f[k] = PutName(f[k-1], token, k)
  BY <1>1, <1>3, PutOne
<1>8. f[1] = f[0]
  <2>1. k + 1 = 2 /\ k - 1 = 0
    BY <1>6
  <2> QED
    BY <1>4, <1>6, <1>7, <2>1 DEF PutName
<1>9. f[0] = PutText(final, token)
  BY <1>2, <1>3 DEF IsIterated
<1> QED
  BY <1>1, <1>3, <1>8, <1>9 DEF token

LEMMA TokenShows ==
  ASSUME ListOK, NamesNotEmpty, NEW final \in String, NEW full \in String, NEW token \in String, Shows(final, full)
  PROVE  Env!ShowWord(token) \in String /\ Shows(PutToken(final, token), full \o Env!ShowWord(token))
<1>a. CASE token = <<"$">>
  <2>1. Env!ShowWord(token) = token
    BY <1>a DEF Env!ShowWord
  <2>2. PutToken(final, token) = PutText(final, token)
    BY <1>a, LoneDollar
  <2> QED
    BY <2>1, <2>2, TextShows
<1>b. CASE token # <<"$">>
  <2> DEFINE line == [i \in DOMAIN token |-> Env!ShowChar(token, i)]
             n == Len(token)
  <2>0. n \in Nat /\ DOMAIN token = 1..n /\ 1 \in 1 .. Len(token) + 1
    BY StringIs
  <2>1. line \in Line /\ Len(line) = n /\ \A i \in 1..n : line[i] = Env!ShowChar(token, i)
    BY <2>0, ShowLineOf
  <2>2. Env!ShowWord(token) = FlattenSeq(line)
    BY <1>b, SameText DEF Env!ShowWord
  <2> HIDE DEF line
  <2>3. PICK h : IsIterated(h, String, << >>, AddStep(line), Len(line)) /\ FlattenSeq(line) = h[Len(line)]
    BY <2>1, FlattenIs
  <2>4. PICK f : /\ IsIterated(f, String, PutText(final, TextOf(token)), PutStep(token), Len(token))
                 /\ PutToken(final, token) = f[Len(token)]
    BY PutTokenIs
  <2>5. PICK p \in Nat : IsNext(token, "$", 1, p)
    BY <2>0, NextExists
  <2>6. p \in 1 .. n + 1 /\ (p = n + 1 \/ token[p] = "$") /\ \A j \in 1..p-1 : token[j] # "$"
    BY <2>5 DEF IsNext
  <2>7. ASSUME NEW i \in 1..p-1 PROVE line[i] = <<token[i]>>
    <3>1. i \in 1..n /\ \A j \in 1..i : token[j] # "$"
      BY <2>0, <2>6
    <3> QED
      BY <2>1, <3>1, ShowCharIs
  <2>8. h[p - 1] = TextOf(token) /\ h[p - 1] \in String
    <3>1. h[p - 1] = UpToNext(token, "$", 1)
      BY <2>1, <2>3, <2>5, <2>7, CopiedTo
    <3> QED
      BY <1>b, <3>1, TextIs, TextOfType
  <2>9. f[0] = PutText(final, h[p - 1]) /\ Shows(f[0], full \o h[p - 1])
    <3>1. f[0] = PutText(final, h[p - 1])
      BY <2>4, <2>8 DEF IsIterated
    <3> QED
      BY <2>8, <3>1, TextShows
  <2> DEFINE P == {i \in Nat : i <= n => IF i < p THEN f[i] = f[0] ELSE Shows(f[i], full \o h[i])}
  <2>10. 0 \in P
    BY <2>6
  <2>11. ASSUME NEW i \in Nat, i \in P PROVE i + 1 \in P
    <3> DEFINE k == i + 1
    <3> SUFFICES ASSUME k <= n PROVE IF k < p THEN f[k] = f[0] ELSE Shows(f[k], full \o h[k])
      OBVIOUS
    <3>1. k \in 1..n /\ k - 1 = i /\ k \in Nat
      BY <2>0
    <3> HIDE DEF k
    <3>2. f[i] \in String /\ f[k] = PutName(f[i], token, k)
      BY <2>4, <3>1, PutOne
    <3>3. h[i] \in String /\ h[k] = h[i] \o line[k]
      BY <2>1, <2>3, <3>1, AddOne
    <3>4. CASE k < p
      <4>1. token[k] # "$" /\ f[i] = f[0]
        BY <2>6, <2>11, <3>1, <3>4
      <4>2. k + 1 \notin PieceStarts(token, "$")
        <5> DEFINE j == k + 1
        <5>1. j > 1 /\ token[j-1] # "$"
          BY <3>1, <4>1
        <5> HIDE DEF j
        <5>2. j \notin PieceStarts(token, "$")
          BY <5>1 DEF PieceStarts
        <5> QED
          BY <5>2 DEF j
      <4> QED
        BY <3>2, <3>4, <4>1, <4>2 DEF PutName
    <3>5. CASE ~(k < p)
      <4>1. Shows(f[i], full \o h[i])
        <5>1. CASE i < p
          <6>1. i = p - 1 /\ f[i] = f[0]
            BY <2>6, <2>11, <3>1, <3>5, <5>1
          <6> QED
            BY <2>9, <6>1
        <5>2. CASE ~(i < p)
          BY <2>0, <2>11, <3>1, <5>2
        <5> QED
          BY <5>1, <5>2
      <4>2. line[k] = IF token[k] = "$" THEN get_var(UpToNext(token, "$", k + 1)) ELSE << >>
        <5>1. ~ \A j \in 1..k : token[j] # "$"
          BY <2>0, <2>6, <3>1, <3>5
        <5> QED
          BY <2>1, <3>1, <5>1, ShowCharIs
      <4>3. full \o h[i] \in String
        BY <3>3, JoinType
      <4>4. CASE k + 1 \in PieceStarts(token, "$")
        <5> DEFINE v == get_var(UpToNext(token, "$", k + 1))
        <5>1. token[k] = "$"
          <6> DEFINE j == k + 1
          <6>1. j > 1 /\ j - 1 = k /\ j \in PieceStarts(token, "$")
            BY <3>1, <4>4
          <6> HIDE DEF j
          <6> QED
            BY <6>1 DEF PieceStarts
        <5>2. line[k] = v /\ f[k] = PutValue(f[i], v) /\ v \in String
          BY <3>2, <4>2, <4>4, <5>1, ValueType DEF PutName, strtok
        <5> HIDE DEF v
        <5>3. Shows(PutValue(f[i], v), (full \o h[i]) \o v)
          BY <3>2, <4>1, <4>3, <5>2, ValueShows
        <5>4. (full \o h[i]) \o v = full \o h[k]
          <6>1. h[k] = h[i] \o v
            BY <3>3, <5>2
          <6>2. (full \o h[i]) \o v = full \o (h[i] \o v)
            BY <3>3, <5>2, Grouped
          <6> QED
            BY <6>1, <6>2
        <5> QED
          BY <3>5, <5>2, <5>3, <5>4
      <4>5. CASE k + 1 \notin PieceStarts(token, "$")
        <5>1. line[k] = << >>
          BY <3>1, <4>2, <4>5, NoName
        <5>2. f[k] = f[i]
          BY <3>2, <4>5 DEF PutName
        <5>3. h[k] = h[i]
          BY <3>3, <5>1, NothingAdded
        <5> QED
          BY <3>5, <4>1, <5>2, <5>3
      <4> QED
        BY <4>4, <4>5
    <3> QED
      BY <3>4, <3>5
  <2> HIDE DEF P
  <2>12. \A i \in Nat : i \in P
    BY <2>10, <2>11, NatSetInduction
  <2>13. Shows(f[n], full \o h[n])
    <3>1. IF n < p THEN f[n] = f[0] ELSE Shows(f[n], full \o h[n])
      BY <2>0, <2>12 DEF P
    <3>2. n < p => p - 1 = n
      BY <2>0, <2>6
    <3> QED
      BY <2>9, <3>1, <3>2
  <2>14. h[n] \in String
    BY <2>0, <2>1, <2>3 DEF IsIterated
  <2> QED
    BY <2>1, <2>2, <2>3, <2>4, <2>13, <2>14
<1> QED
  BY <1>a, <1>b

-----------------------------------------------------------------------------
(* The line.                                                               *)
Shown(words) ==
  [k \in DOMAIN words |->
     IF k = 1 THEN Env!ShowWord(words[k]) ELSE <<" ">> \o Env!ShowWord(words[k])]

LEMMA WordType ==
  ASSUME ListOK, NamesNotEmpty, NEW token \in String
  PROVE  Env!ShowWord(token) \in String
<1>1. Shows(Take(<< >>, MAX_STR_LEN - 1), << >>)
  BY DEF Shows
<1>2. Take(<< >>, MAX_STR_LEN - 1) \in String /\ << >> \in String
  <2>1. MAX_STR_LEN - 1 \in Int
    BY ArraySize
  <2> QED
    BY <2>1, EmptyString, TakeIs
<1> QED
  BY <1>1, <1>2, TokenShows

LEMMA ShownType ==
  ASSUME ListOK, NamesNotEmpty, NEW words \in Line
  PROVE  Shown(words) \in Line /\ Len(Shown(words)) = Len(words)
<1> DEFINE n == Len(words)
           f == [k \in 1..n |-> IF k = 1 THEN Env!ShowWord(words[k]) ELSE <<" ">> \o Env!ShowWord(words[k])]
<1>1. n \in Nat /\ DOMAIN words = 1..n
  BY LineIs
<1>2. ASSUME NEW k \in 1..n PROVE f[k] \in String
  <2>1. Env!ShowWord(words[k]) \in String
    BY LineIs, WordType
  <2>2. <<" ">> \o Env!ShowWord(words[k]) \in String
    BY <2>1, Blank, JoinType
  <2> QED
    BY <2>1, <2>2
<1>3. f \in [1..n -> String]
  BY <1>2
<1>4. Shown(words) = f
  BY <1>1 DEF Shown
<1> HIDE DEF f, n
<1>5. \A g \in [1..n -> String] : g \in Seq(String) /\ Len(g) = n
  BY <1>1
<1> QED
  BY <1>3, <1>4, <1>5 DEF n, Line

LEMMA NextOne ==
  ASSUME NEW tokens \in Line, NEW f, IsIterated(f, String, << >>, NextStep(tokens), Len(tokens)), NEW k \in 1..Len(tokens)
  PROVE  f[k-1] \in String /\ f[k] = PutNext(f[k-1], tokens, k)
<1>1. k - 1 \in 0..Len(tokens) /\ k \in Nat
  BY LineIs
<1>2. f[k-1] \in String /\ f[k] = NextStep(tokens)[<<f[k-1], k>>]
  BY <1>1 DEF IsIterated
<1> QED
  BY <1>1, <1>2 DEF NextStep

LEMMA LineShows ==
  ASSUME ListOK, NamesNotEmpty, NEW tokens \in Line
  PROVE  Env!ShowLine(tokens) \in String /\ Shows(echo_final(tokens), Env!ShowLine(tokens))
<1> DEFINE line == Shown(tokens)
           n == Len(tokens)
<1>0. n \in Nat /\ DOMAIN tokens = 1..n
  BY LineIs
<1>1. line \in Line /\ Len(line) = n
  BY <1>0, ShownType
<1>9. \A k \in 1..n : line[k] = IF k = 1 THEN Env!ShowWord(tokens[k]) ELSE <<" ">> \o Env!ShowWord(tokens[k])
  BY <1>0 DEF Shown
<1>2. Env!ShowLine(tokens) = FlattenSeq(line)
  BY SameText DEF Env!ShowLine, Shown
<1> HIDE DEF line
<1>3. PICK h : IsIterated(h, String, << >>, AddStep(line), Len(line)) /\ FlattenSeq(line) = h[Len(line)]
  BY <1>1, FlattenIs
<1>4. PICK f : IsIterated(f, String, << >>, NextStep(tokens), Len(tokens)) /\ echo_final(tokens) = f[Len(tokens)]
  BY EchoIs
<1> DEFINE P == {i \in Nat : i <= n => Shows(f[i], h[i])}
<1>5. 0 \in P
  <2>1. f[0] = << >> /\ h[0] = << >>
    BY <1>3, <1>4 DEF IsIterated
  <2>2. Take(<< >>, MAX_STR_LEN - 1) = << >>
    <3>1. MAX_STR_LEN - 1 \in Int /\ MAX_STR_LEN - 1 >= 0
      BY ArraySize
    <3> QED
      BY <3>1, EmptyString, TakeIs
  <2> QED
    BY <2>1, <2>2 DEF Shows
<1>6. ASSUME NEW i \in Nat, i \in P PROVE i + 1 \in P
  <2> DEFINE k == i + 1
  <2> SUFFICES ASSUME k <= n PROVE Shows(f[k], h[k])
    OBVIOUS
  <2>1. k \in 1..n /\ k - 1 = i /\ k \in Nat
    BY <1>0
  <2>2. Shows(f[i], h[i])
    BY <1>0, <1>6, <2>1
  <2> HIDE DEF k
  <2>3. f[i] \in String /\ f[k] = PutNext(f[i], tokens, k)
    BY <1>4, <2>1, NextOne
  <2>4. h[i] \in String /\ h[k] = h[i] \o line[k]
    BY <1>1, <1>3, <2>1, AddOne
  <2> DEFINE word == Env!ShowWord(tokens[k])
             before == IF k > 1 THEN PutText(f[i], <<" ">>) ELSE f[i]
  <2>5. tokens[k] \in String /\ word \in String
    BY <2>1, LineIs, WordType
  <2>6. f[k] = PutToken(before, tokens[k])
    BY <2>3 DEF PutNext
  <2>7. (k = 1 => line[k] = word) /\ (k # 1 => line[k] = <<" ">> \o word)
    BY <1>9, <2>1
  <2> HIDE DEF word
  <2>8. CASE k > 1
    <3>1. before = PutText(f[i], <<" ">>) /\ before \in String /\ Shows(before, h[i] \o <<" ">>) /\ h[i] \o <<" ">> \in String
      BY <2>2, <2>3, <2>4, <2>8, Blank, PutTextType, TextShows, JoinType
    <3>2. Shows(PutToken(before, tokens[k]), (h[i] \o <<" ">>) \o word)
      BY <2>5, <3>1, TokenShows DEF word
    <3>3. (h[i] \o <<" ">>) \o word = h[i] \o (<<" ">> \o word)
      BY <2>4, <2>5, Blank, Grouped
    <3>4. line[k] = <<" ">> \o word
      <4>1. k # 1
        BY <2>8
      <4> QED
        BY <2>7, <4>1
    <3> QED
      BY <2>4, <2>6, <3>2, <3>3, <3>4
  <2>9. CASE ~(k > 1)
    <3>1. before = f[i] /\ line[k] = word
      <4>1. k = 1
        BY <1>0, <2>1, <2>9
      <4> QED
        BY <2>7, <2>9, <4>1
    <3>2. Shows(PutToken(f[i], tokens[k]), h[i] \o word)
      BY <2>2, <2>3, <2>4, <2>5, TokenShows DEF word
    <3> QED
      BY <2>4, <2>6, <3>1, <3>2
  <2> QED
    BY <2>8, <2>9
<1> HIDE DEF P
<1>7. \A i \in Nat : i \in P
  BY <1>5, <1>6, NatSetInduction
<1>8. Shows(f[n], h[n])
  BY <1>0, <1>7 DEF P
<1>10. h[n] \in String
  BY <1>0, <1>1, <1>3 DEF IsIterated
<1> QED
  BY <1>1, <1>2, <1>3, <1>4, <1>8, <1>10

-----------------------------------------------------------------------------
(* The steps.                                                              *)
NameIn(n, k) == /\ k \in DOMAIN vars /\ vars[k].name = n
                /\ \A j \in DOMAIN vars : vars[j].name = n => k <= j

LEMMA FoundAt ==
  ASSUME ListOK, NEW n, NEW k, NameIn(n, k)
  PROVE  get_var(n) = vars[k].val
<1>1. Defined(n) /\ FirstNode(n) \in DOMAIN vars /\ vars[FirstNode(n)].name = n
      /\ FirstNode(n) <= k
  BY DefinedIs, FirstNodeIs DEF NameIn
<1>2. k <= FirstNode(n) /\ DOMAIN vars \subseteq Nat
  BY <1>1 DEF NameIn, ListOK
<1>3. k = FirstNode(n)
  BY <1>1, <1>2 DEF NameIn
<1> QED
  BY <1>1, <1>3 DEF get_var

LEMMA FoundAfter ==
  ASSUME ListOK', NEW n, NEW k,
         k \in DOMAIN vars', vars'[k].name = n,
         \A j \in DOMAIN vars' : vars'[j].name = n => k <= j
  PROVE  get_var(n)' = vars'[k].val
<1> DEFINE S == {i \in DOMAIN vars' : vars'[i].name = n}
           m == CHOOSE i \in S : \A j \in S : i <= j
<1>1. get_var(n)' = vars'[m].val
  <2>1. k \in S
    OBVIOUS
  <2> QED
    BY <2>1 DEF get_var, Defined, Nodes, FirstNode
<1>2. m \in S /\ \A j \in S : m <= j
  BY k \in S /\ \A j \in S : k <= j
<1>3. DOMAIN vars' \subseteq Nat
  BY DEF ListOK
<1>4. m = k
  <2>1. m <= k /\ k <= m /\ m \in Nat /\ k \in Nat
    BY <1>2, <1>3
  <2> QED
    BY <2>1
<1> QED
  BY <1>1, <1>4

(* def_var changes the value of one name. *)
LEMMA GetAfter ==
  ASSUME ListOK, ListOK', NEW name \in String, NEW val \in String, def_var(name, val), ~undefined',
         NEW n, Defined(n) \/ n = name
  PROVE  get_var(n)' = IF n = name THEN new_val(val) ELSE get_var(n)
<1> DEFINE v == new_val(val)
<1>0. v \in String /\ Len(vars) \in Nat /\ DOMAIN vars = 1..Len(vars)
  BY NewValueType DEF ListOK
<1>1. vars' = IF Overwrites(name) THEN [vars EXCEPT ![FirstNode(name)].val = v] ELSE NewNode(name, v)
  BY DEF def_var
<1> HIDE DEF v
<1>2. CASE Overwrites(name)
  <2> DEFINE q == FirstNode(name)
  <2>1. DOMAIN vars' = DOMAIN vars /\ \A i \in DOMAIN vars : vars'[i].name = vars[i].name
    BY <1>1, <1>2, SameNames
  <2>2. NameIn(name, q)
    BY <1>2, FirstNodeIs DEF Overwrites, NameIn
  <2>3. Defined(n)
    BY <1>2 DEF Overwrites
  <2> DEFINE k == FirstNode(n)
  <2>4. NameIn(n, k)
    BY <2>3, FirstNodeIs DEF NameIn
  <2>5. vars' = [vars EXCEPT ![q].val = v]
    BY <1>1, <1>2
  <2> HIDE DEF q, k
  <2>6. get_var(n)' = vars'[k].val
    BY <2>1, <2>4, FoundAfter DEF NameIn
  <2>7. vars[k] \in NodeType /\ vars'[k] = IF k = q THEN [vars[k] EXCEPT !.val = v] ELSE vars[k]
    BY <2>4, <2>5 DEF NameIn, ListOK
  <2>8. k = q <=> n = name
    <3>1. n = name => k <= q /\ q <= k /\ k \in Nat /\ q \in Nat
      BY <1>0, <2>2, <2>4 DEF NameIn
    <3>2. n = name => k = q
      BY <3>1
    <3> QED
      BY <2>2, <2>4, <3>2 DEF NameIn
  <2>9. get_var(n) = vars[k].val
    BY <2>4, FoundAt
  <2> QED
    BY <2>6, <2>7, <2>8, <2>9 DEF NodeType, v
<1>3. CASE ~Overwrites(name)
  <2>1. /\ DOMAIN vars' = 1 .. Len(vars) + 1
        /\ vars'[1] = [name |-> name, val |-> v]
        /\ \A i \in 1..Len(vars) : vars'[i + 1] = vars[i]
    BY <1>0, <1>1, <1>3, OneMore
  <2>2. CASE n = name
    <3>1. 1 \in DOMAIN vars' /\ vars'[1].name = n /\ \A j \in DOMAIN vars' : 1 <= j
      BY <1>0, <2>1, <2>2
    <3>2. get_var(n)' = vars'[1].val
      BY <3>1, FoundAfter
    <3> QED
      BY <2>1, <2>2, <3>2 DEF v
  <2>3. CASE n # name
    <3> DEFINE k == FirstNode(n)
               l == k + 1
    <3>1. NameIn(n, k)
      BY <2>3, FirstNodeIs DEF NameIn
    <3>2. k \in 1..Len(vars) /\ l \in 1 .. Len(vars) + 1 /\ vars'[l] = vars[k] /\ l = k + 1 /\ k \in Nat
      BY <1>0, <2>1, <3>1 DEF NameIn
    <3> HIDE DEF l, k
    <3>3. ASSUME NEW j \in DOMAIN vars', vars'[j].name = n PROVE l <= j
      <4> DEFINE i == j - 1
      <4>1. j # 1
        BY <2>1, <2>3, <3>3
      <4>2. i \in 1..Len(vars) /\ j = i + 1 /\ i \in Nat
        BY <1>0, <2>1, <4>1
      <4> HIDE DEF i
      <4>3. vars[i].name = n
        BY <2>1, <3>3, <4>2
      <4>4. k <= i
        BY <1>0, <3>1, <4>2, <4>3 DEF NameIn
      <4> QED
        BY <3>2, <4>2, <4>4
    <3>4. l \in DOMAIN vars' /\ vars'[l].name = n
      BY <2>1, <3>1, <3>2 DEF NameIn
    <3>5. get_var(n)' = vars'[l].val
      BY <3>3, <3>4, FoundAfter
    <3>6. get_var(n) = vars[k].val
      BY <3>1, FoundAt
    <3> QED
      BY <2>3, <3>2, <3>5, <3>6
  <2> QED
    BY <2>2, <2>3
<1> QED
  BY <1>2, <1>3

-----------------------------------------------------------------------------
(* The list as a map. *)
EnvNow == [n \in {vars[i].name : i \in DOMAIN vars} |-> get_var(n)]

LEMMA EnvAfter ==
  ASSUME ListOK, ListOK', NEW name \in String, NEW val \in String, def_var(name, val), ~undefined'
  PROVE  EnvNow' = [n \in DOMAIN EnvNow \cup {name} |-> IF n = name THEN Env!ValueOf(val) ELSE EnvNow[n]]
<1> DEFINE D == {vars[i].name : i \in DOMAIN vars}
           D2 == {vars'[i].name : i \in DOMAIN vars'}
<1>1. D2 = D \cup {name}
  <2>1. /\ \E i \in DOMAIN vars' : vars'[i].name = name
        /\ \A j \in DOMAIN vars : \E i \in DOMAIN vars' : vars'[i].name = vars[j].name
        /\ \A i \in DOMAIN vars' : vars'[i].name = name \/ \E j \in DOMAIN vars : vars'[i].name = vars[j].name
    BY Defines
  <2> QED
    BY <2>1
<1>2. EnvNow' = [n \in D2 |-> get_var(n)']
  BY DEF EnvNow
<1>3. DOMAIN EnvNow = D /\ \A n \in D : EnvNow[n] = get_var(n)
  BY DEF EnvNow
<1>4. ASSUME NEW n \in D2
      PROVE  get_var(n)' = IF n = name THEN Env!ValueOf(val) ELSE EnvNow[n]
  <2>1. Defined(n) \/ n = name
    BY <1>1, DefinedIs
  <2>2. get_var(n)' = IF n = name THEN new_val(val) ELSE get_var(n)
    BY <2>1, GetAfter
  <2>3. n # name => n \in D
    BY <1>1
  <2> QED
    BY <1>3, <2>2, <2>3, NewValueRight
<1> HIDE DEF D, D2
<1> QED
  BY <1>1, <1>2, <1>3, <1>4

LEMMA InitImplements == Init => Env!Init
<1> SUFFICES ASSUME Init PROVE Env!Init
  OBVIOUS
<1>1. EnvNow = << >>
  BY DEF Init, EnvNow
<1> QED
  BY <1>1 DEF Init, Env!Init, EnvNow

(* What the user assigns begins with a name. *)
Named == \A token \in AssignTokens : IsAssignment(token) => UserName(token) # << >>

LEMMA StepImplements ==
  ASSUME Milestone = 3, Named, TypeOK, TypeOK', NamesNotEmpty, [Next]_allvars
  PROVE  [Env!Next]_(Env!vars)
<1>0. ListOK /\ ListOK' /\ undefined \in BOOLEAN
  BY TypesAre DEF TypeOK, ListOK, NodeType, String
<1>1. ASSUME vars' = vars, out' = out, undefined' = undefined PROVE Env!vars' = Env!vars
  BY <1>1 DEF Env!vars, get_var, Defined, Nodes, FirstNode
<1>2. ASSUME NEW token \in AssignTokens, Assign(token) PROVE Env!Next
  <2> DEFINE name == UserName(token)
             val == UserValue(token)
  <2>1. token \in String /\ Tokenized(token) = token
    BY VarsAssumption, NotCut DEF String
  <2>2. ~undefined /\ IsAssignment(token) /\ HasNameAndValue(token)
    BY <1>2, <2>1 DEF Assign
  <2>3. SplitName(token) = name /\ SplitValue(token) = val
    BY <2>1, <2>2, UserSplit DEF Named
  <2>4. name \in String /\ val \in String
    BY <2>1, <2>2, UserType
  <2>5. def_var(name, val)
    BY <1>2, <2>1, <2>3 DEF Assign
  <2>6. <<name, val>> \in {<<UserName(t), UserValue(t)>> : t \in AssignTokens}
    OBVIOUS
  <2> HIDE DEF name, val
  <2>7. new_val(val) = Env!ValueOf(val) /\ new_val(val) \in String
    BY <1>0, <2>4, NewValueRight, NewValueType
  <2>8. Len(new_val(val)) \in Nat /\ VALUE_SIZE \in Nat
    BY <2>7, StringIs, VarsAssumption
  <2>9. CASE Len(new_val(val)) < VALUE_SIZE
    <3>1. UNCHANGED <<out, undefined>>
      BY <2>5, <2>9 DEF def_var
    <3>2. Env!Fits(Env!ValueOf(val), VALUE_SIZE - 1)
      BY <2>7, <2>8, <2>9 DEF Env!Fits
    <3>3. EnvNow' = [n \in DOMAIN EnvNow \cup {name} |-> IF n = name THEN Env!ValueOf(val) ELSE EnvNow[n]]
      BY <1>0, <2>2, <2>4, <2>5, <3>1, EnvAfter
    <3>4. Env!Assign(name, val)
      BY <2>2, <3>1, <3>2, <3>3 DEF Env!Assign, EnvNow
    <3> QED
      BY <2>6, <3>4 DEF Env!Next
  <2>10. CASE ~(Len(new_val(val)) < VALUE_SIZE)
    <3>1. undefined' = TRUE /\ UNCHANGED <<vars, out>>
      BY <2>5, <2>10 DEF def_var
    <3>2. ~Env!Fits(Env!ValueOf(val), VALUE_SIZE - 1)
      BY <2>7, <2>8, <2>10 DEF Env!Fits
    <3>3. Env!Break
      <4>1. PICK a \in {<<UserName(t), UserValue(t)>> : t \in AssignTokens} : a = <<name, val>>
        BY <2>6
      <4>2. ~Env!Fits(Env!ValueOf(a[2]), VALUE_SIZE - 1)
        BY <3>2, <4>1
      <4> QED
        BY <2>2, <3>1, <4>2 DEF Env!Break, get_var, Defined, Nodes, FirstNode
    <3> QED
      BY <3>3 DEF Env!Next
  <2> QED
    BY <2>9, <2>10
<1>3. ASSUME NEW token \in AssignTokens, AssignNothing(token) PROVE Env!vars' = Env!vars
  BY <1>1, <1>3 DEF AssignNothing
<1>4. ASSUME NEW tokens \in EchoLines, Echo(tokens) PROVE Env!Next
  <2>1. tokens \in Line /\ Len(tokens) \in Nat /\ DOMAIN tokens = 1..Len(tokens)
    BY TokensAre, LineIs
  <2>2. [k \in DOMAIN tokens |-> Tokenized(tokens[k])] = tokens
    <3>1. [k \in DOMAIN tokens |-> Tokenized(tokens[k])] = [k \in DOMAIN tokens |-> tokens[k]]
      BY NotCut
    <3> QED
      BY <2>1, <3>1 DEF Line
  <2>3. ~undefined /\ bn_echo(tokens)
    BY <1>4, <2>2 DEF Echo
  <2> DEFINE full == Env!ShowLine(tokens)
             final == echo_final(tokens)
             n == MAX_STR_LEN - 1
  <2>4. full \in String /\ Shows(final, full) /\ final \in String
    BY <1>0, <2>1, LineShows, EchoType
  <2>5. n \in Nat /\ n \in Int /\ MAX_STR_LEN = n + 1 /\ Len(final) \in Nat /\ Len(full) \in Nat
    BY <2>4, ArraySize, StringIs
  <2>6. CASE Len(final) < MAX_STR_LEN
    <3>1. out' = final /\ UNCHANGED <<vars, undefined>>
      BY <2>3, <2>6 DEF bn_echo
    <3>2. final = Take(full, n)
      BY <2>4, <2>5, <2>6 DEF Shows
    <3>3. out' = Env!Take(Env!ShowLine(tokens), MAX_STR_LEN - 1)
      BY <3>1, <3>2, SameText
    <3>4. Env!Echo(tokens)
      BY <2>3, <3>1, <3>3 DEF Env!Echo, get_var, Defined, Nodes, FirstNode
    <3> QED
      BY <3>4 DEF Env!Next
  <2>7. CASE ~(Len(final) < MAX_STR_LEN)
    <3>1. undefined' = TRUE /\ UNCHANGED <<vars, out>>
      BY <2>3, <2>7 DEF bn_echo
    <3>2. Len(full) > n
      <4>1. CASE Len(final) >= MAX_STR_LEN /\ Len(full) >= Len(final)
        BY <2>5, <4>1
      <4>2. CASE final = Take(full, n)
        <5>1. Len(final) = IF n < Len(full) THEN n ELSE Len(full)
          BY <2>4, <2>5, <4>2, TakeIs
        <5> QED
          BY <2>5, <2>7, <5>1
      <4> QED
        BY <2>4, <4>1, <4>2 DEF Shows
    <3>3. ~Env!Fits(Env!ShowLine(tokens), MAX_STR_LEN - 1)
      BY <2>5, <3>2 DEF Env!Fits
    <3>4. Env!Break
      BY <2>3, <3>1, <3>3 DEF Env!Break, get_var, Defined, Nodes, FirstNode
    <3> QED
      BY <3>4 DEF Env!Next
  <2> QED
    BY <2>6, <2>7
<1>5. CASE UNCHANGED allvars
  BY <1>1, <1>5 DEF allvars
<1> QED
  BY <1>2, <1>3, <1>4, <1>5 DEF Next

(***************************************************************************)
(* ImplementsShellEnv, in milestone 3: with the list as a map, every step  *)
(* of mysh assigns, shows or breaks as ShellEnv says, or changes nothing   *)
(* of it.  Before a leading "=" there is no name; strtok would skip it and *)
(* take what follows for one, which ShellEnv does not.                     *)
(***************************************************************************)
THEOREM ImplementsHolds == ASSUME Milestone = 3, Named PROVE Spec => ImplementsShellEnv
<1>1. Init => NamesNotEmpty
  BY DEF Init, NamesNotEmpty
<1>2. TypeOK /\ NamesNotEmpty /\ [Next]_allvars => NamesNotEmpty'
  BY StepNames
<1>3. TypeOK /\ TypeOK' /\ NamesNotEmpty /\ [Next]_allvars => [Env!Next]_(Env!vars)
  BY StepImplements
<1> QED
  BY <1>1, <1>2, <1>3, TypeOKHolds, InitImplements, PTL DEF Spec, ImplementsShellEnv, Env!Spec
===============================================================================
