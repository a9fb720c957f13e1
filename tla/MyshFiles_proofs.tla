--------------------------- MODULE MyshFiles_proofs ---------------------------
(***************************************************************************)
(* Theorems on MyshFiles, for every tree, link, depth, filter, number of   *)
(* descriptors, and whatever another process does to the tree.             *)
(***************************************************************************)
EXTENDS MyshFiles, SeqFacts

(* The calls in progress are a sequence; there is one while readdir goes on. *)
StackInv ==
  /\ \E S : stack \in Seq(S)
  /\ pc \in {"readdir", "lstat"} => stack # << >>
  /\ pc \in {"prompt", "done"} => stack = << >>
  /\ leaked \in Int
  /\ open = leaked + Len(stack)

LEMMA InitStack == Init => StackInv
<1> SUFFICES ASSUME Init PROVE StackInv
  OBVIOUS
<1>1. stack \in Seq({})
  BY DEF Init
<1> QED
  BY <1>1 DEF Init, StackInv

(* A frame is replaced by another: no call begins or ends. *)
LEMMA Replaced ==
  ASSUME NEW S, NEW s \in Seq(S), NEW t, DOMAIN t = DOMAIN s,
         t = [i \in DOMAIN s |-> t[i]]
  PROVE  \E T : t \in Seq(T) /\ Len(t) = Len(s)
<1> DEFINE T == {t[i] : i \in DOMAIN s}
<1>1. Len(s) \in Nat /\ DOMAIN s = 1..Len(s)
  OBVIOUS
<1>2. t \in [1..Len(s) -> T]
  BY <1>1
<1>3. t \in Seq(T) /\ Len(t) = Len(s)
  BY <1>1, <1>2
<1> QED
  BY <1>3

LEMMA StepStack == StackInv /\ [Next]_vars => StackInv'
<1> SUFFICES ASSUME StackInv, [Next]_vars PROVE StackInv'
  OBVIOUS
<1> PICK S : stack \in Seq(S)
  BY DEF StackInv
<1>0. Len(stack) \in Nat /\ DOMAIN stack = 1..Len(stack)
  OBVIOUS
<1>1. CASE UNCHANGED vars
  BY <1>1 DEF StackInv, vars, tree, ls, history
<1>2. ASSUME NEW path, CatOrWc(path) PROVE StackInv'
  BY <1>0, <1>2 DEF CatOrWc, LeftOpen, StackInv, tree, ls, history
<1>3. ASSUME NEW path, CatOrWcFails(path) PROVE StackInv'
  BY <1>3 DEF CatOrWcFails, StackInv, vars, tree, ls, history
<1>4. ASSUME NEW path, Cd(path) PROVE StackInv'
  BY <1>4 DEF Cd, StackInv, tree, ls, history
<1>5. CASE CdUp
  BY <1>5 DEF CdUp, StackInv, tree, ls, history
<1>6. ASSUME NEW path, NEW depth, NEW filter, Ls(path, depth, filter) PROVE StackInv'
  BY <1>6 DEF Ls, StackInv, tree
<1>7. CASE StopAtDepth
  BY <1>7 DEF StopAtDepth, ReturnTo, StackInv, tree, ls, history
<1>8. CASE OpenDir
  <2> DEFINE f == [path |-> call.path, dir |-> Opens(call.path), depth |-> call.depth,
                   todo |-> Dots \cup Children(Opens(call.path))]
  <2>1. stack' = Append(stack, f) /\ open' = open + 1 /\ leaked' = leaked /\ pc' = "readdir"
    BY <1>8 DEF OpenDir
  <2>2. stack \in Seq(S \cup {f})
    OBVIOUS
  <2>3. stack' \in Seq(S \cup {f}) /\ Len(stack') = Len(stack) + 1
    BY <2>1, <2>2
  <2>4. stack' # << >>
    BY <2>3, <1>0
  <2> QED
    BY <2>1, <2>3, <2>4, <1>0 DEF StackInv
<1>9. CASE OpenDirFails
  BY <1>9 DEF OpenDirFails, ReturnTo, StackInv
<1>10. ASSUME pc \in {"readdir", "lstat"}, pc' \in {"readdir", "lstat"},
              NEW e, stack' = Remaining(e), UNCHANGED <<leaked, open>>
       PROVE  StackInv'
  <2>1. stack # << >>
    BY <1>10 DEF StackInv
  <2>2. DOMAIN stack' = DOMAIN stack /\ stack' = [i \in DOMAIN stack |-> stack'[i]]
    BY <1>10 DEF Remaining
  <2>3. \E T : stack' \in Seq(T) /\ Len(stack') = Len(stack)
    BY <2>2, Replaced
  <2> QED
    BY <1>10, <2>1, <2>3, <1>0 DEF StackInv
<1>11. CASE ReadDir
  <2>1. PICK e : stack' = Remaining(e) /\ pc' = (IF GoesOn(e) THEN "lstat" ELSE "readdir")
    BY <1>11 DEF ReadDir
  <2> QED
    BY <1>10, <1>11, <2>1 DEF ReadDir
<1>12. CASE ReadDirMisses
  BY <1>10, <1>12 DEF ReadDirMisses
<1>13. CASE Lstat \/ LstatFails
  BY <1>13 DEF Lstat, LstatFails, StackInv, ls
<1>14. CASE CloseDir \/ ReadDirFails
  <2>0. LeaveDir
    BY <1>14 DEF CloseDir, ReadDirFails
  <2>1. Len(stack) > 0
    BY <2>0, <1>0 DEF LeaveDir, StackInv
  <2>2. Front(stack) \in Seq(S) /\ Len(Front(stack)) = Len(stack) - 1
    BY <2>1, <1>0 DEF Front
  <2> QED
    BY <2>0, <2>1, <2>2, <1>0 DEF LeaveDir, Closed, ReturnTo, StackInv
<1>15. CASE Done
  BY <1>15 DEF Done, StackInv, tree
<1>16. ASSUME NEW n, NEW k, Change(n, k) PROVE StackInv'
  <2>1. DOMAIN stack' = DOMAIN stack /\ stack' = [i \in DOMAIN stack |-> stack'[i]]
    BY <1>16 DEF Change
  <2>2. \E T : stack' \in Seq(T) /\ Len(stack') = Len(stack)
    BY <2>1, Replaced
  <2>3. stack = << >> <=> stack' = << >>
    BY <2>2, <1>0
  <2> QED
    BY <1>16, <2>2, <2>3 DEF Change, StackInv
<1> QED
  BY <1>1, <1>2, <1>3, <1>4, <1>5, <1>6, <1>7, <1>8, <1>9, <1>11, <1>12, <1>13,
     <1>14, <1>15, <1>16 DEF Next, User, Listing

(***************************************************************************)
(* Balanced: whatever fails, and whatever happens to the tree meanwhile,   *)
(* every directory that list_directory opens is closed when it returns.    *)
(***************************************************************************)
THEOREM BalancedHolds == Spec => []Balanced
<1>1. StackInv => Balanced
  BY DEF StackInv, Balanced
<1> QED
  BY InitStack, StepStack, <1>1, PTL DEF Spec

-----------------------------------------------------------------------------
(* How deep a call is, and how deep it may still go, add up to the depth   *)
(* that was asked for; a listing without --rec never leaves its directory. *)
DepthInv ==
  /\ asked.depth \in Nat \cup {-1}
  /\ \A i \in 1..Len(stack) :
       /\ stack[i].depth = asked.depth - i + 1
       /\ stack[i].depth # 0
  /\ asked.depth = -1 => Len(stack) <= 1
  /\ asked.depth >= 0 => Len(stack) <= asked.depth
  /\ pc = "call" => /\ call.depth = asked.depth - Len(stack)
                    /\ asked.depth = -1 => stack = << >>
  /\ pc = "lstat" => asked.depth # -1

LEMMA InitDepth == Init => DepthInv
<1> SUFFICES ASSUME Init PROVE DepthInv
  OBVIOUS
<1> QED
  BY DEF Init, DepthInv, NoCall

(* Steps that leave the calls in progress, but for their entries to come.  *)
LEMMA SameDepth ==
  ASSUME StackInv, DepthInv,
         Len(stack') = Len(stack),
         \A i \in 1..Len(stack) : stack'[i].depth = stack[i].depth,
         UNCHANGED asked,
         pc' = "call" => pc = "call" /\ UNCHANGED <<call, stack>>,
         pc' = "lstat" => asked.depth # -1
  PROVE  DepthInv'
BY DEF DepthInv

LEMMA StepDepth == StackInv /\ DepthInv /\ [Next]_vars => DepthInv'
<1> SUFFICES ASSUME StackInv, DepthInv, [Next]_vars PROVE DepthInv'
  OBVIOUS
<1> PICK S : stack \in Seq(S)
  BY DEF StackInv
<1>0. Len(stack) \in Nat /\ DOMAIN stack = 1..Len(stack)
  OBVIOUS
<1>00. ASSUME UNCHANGED <<stack, asked>>, pc' = "call" => pc = "call" /\ UNCHANGED call,
             pc' = "lstat" => pc = "lstat"
      PROVE  DepthInv'
  BY <1>00, SameDepth DEF DepthInv
<1>1. CASE UNCHANGED vars
  BY <1>1, <1>00 DEF vars, tree, ls, history
<1>2. ASSUME NEW path, CatOrWc(path) \/ CatOrWcFails(path) \/ Cd(path) \/ CdUp
      PROVE  DepthInv'
  BY <1>2, <1>00 DEF CatOrWc, CatOrWcFails, Cd, CdUp, vars, tree, ls, history
<1>3. ASSUME NEW path, NEW depth \in Depths, NEW filter, Ls(path, depth, filter)
      PROVE  DepthInv'
  <2>1. stack' = << >> /\ stack = << >>
    BY <1>3 DEF Ls, StackInv
  <2>2. depth \in Nat \cup {-1}
    BY FilesAssumption DEF FilesAssumption
  <2> QED
    BY <1>3, <2>1, <2>2 DEF Ls, DepthInv
<1>4. CASE StopAtDepth \/ OpenDirFails \/ LstatFails
  BY <1>4, <1>00 DEF StopAtDepth, OpenDirFails, LstatFails, ReturnTo, ls, history
<1>5. CASE OpenDir
  <2> DEFINE f == [path |-> call.path, dir |-> Opens(call.path), depth |-> call.depth,
                   todo |-> Dots \cup Children(Opens(call.path))]
  <2>1. stack' = Append(stack, f) /\ asked' = asked /\ pc' = "readdir"
    BY <1>5 DEF OpenDir, history
  <2>2. stack \in Seq(S \cup {f})
    OBVIOUS
  <2>3. Len(stack') = Len(stack) + 1 /\ stack'[Len(stack) + 1] = f
        /\ \A i \in 1..Len(stack) : stack'[i] = stack[i]
    BY <2>1, <2>2
  <2>4. call.depth = asked.depth - Len(stack) /\ call.depth # 0
        /\ (asked.depth = -1 => Len(stack) = 0)
    BY <1>5 DEF OpenDir, AtMaxDepth, DepthInv
  <2>5. \A i \in 1..Len(stack') : /\ stack'[i].depth = asked.depth - i + 1
                                 /\ stack'[i].depth # 0
    <3> TAKE i \in 1..Len(stack')
    <3>1. CASE i \in 1..Len(stack)
      BY <3>1, <2>3 DEF DepthInv
    <3>2. CASE i = Len(stack) + 1
      <4>1. stack'[i].depth = call.depth
        BY <3>2, <2>3
      <4> QED
        BY <3>2, <4>1, <2>4, <1>0 DEF DepthInv
    <3> QED
      BY <3>1, <3>2, <2>3, <1>0
  <2>6. asked.depth >= 0 => Len(stack') <= asked.depth
    BY <2>3, <2>4, <1>0 DEF DepthInv
  <2> QED
    BY <2>1, <2>3, <2>4, <2>5, <2>6, <1>0 DEF DepthInv
<1>6. ASSUME NEW e, stack' = Remaining(e), UNCHANGED asked, pc' # "call",
             pc' = "lstat" => asked.depth # -1, stack # << >>
      PROVE  DepthInv'
  <2>1. DOMAIN stack' = DOMAIN stack /\ stack' = [i \in DOMAIN stack |-> stack'[i]]
    BY <1>6 DEF Remaining
  <2>2. Len(stack') = Len(stack)
    BY <2>1, Replaced
  <2>3. \A i \in 1..Len(stack) : stack'[i].depth = stack[i].depth
    BY <1>6, <1>0 DEF Remaining
  <2> QED
    BY <1>6, <2>2, <2>3, SameDepth
<1>7. CASE ReadDir
  <2>1. PICK e : stack' = Remaining(e) /\ pc' = (IF GoesOn(e) THEN "lstat" ELSE "readdir")
    BY <1>7 DEF ReadDir
  <2>2. stack # << >>
    BY <1>7 DEF ReadDir, StackInv
  <2>3. GoesOn(e) => asked.depth # -1
    <3>1. Len(stack) >= 1
      BY <2>2, <1>0
    <3>2. stack[Len(stack)].depth = asked.depth - Len(stack) + 1
      BY <3>1, <1>0 DEF DepthInv
    <3>3. asked.depth = -1 => Len(stack) = 1
      BY <3>1, <1>0 DEF DepthInv
    <3> QED
      BY <3>2, <3>3 DEF GoesOn, Top
  <2> QED
    BY <1>6, <1>7, <2>1, <2>2, <2>3 DEF ReadDir, history
<1>8. CASE ReadDirMisses
  BY <1>6, <1>8 DEF ReadDirMisses, history, StackInv
<1>9. CASE Lstat
  <2>1. stack # << >> /\ UNCHANGED <<stack, asked>>
    BY <1>9 DEF Lstat, StackInv, history
  <2>2. asked.depth # -1
    BY <1>9 DEF Lstat, DepthInv
  <2>3. Top.depth - 1 = asked.depth - Len(stack)
    <3>1. Len(stack) >= 1
      BY <2>1, <1>0
    <3>2. stack[Len(stack)].depth = asked.depth - Len(stack) + 1
      BY <3>1, <1>0 DEF DepthInv
    <3> QED
      BY <3>2, <1>0 DEF Top, DepthInv
  <2>4. pc' \in {"call", "readdir"} /\ (pc' = "call" => call'.depth = Top.depth - 1)
    BY <1>9 DEF Lstat
  <2> QED
    BY <2>1, <2>2, <2>3, <2>4 DEF DepthInv
<1>10. CASE CloseDir \/ ReadDirFails
  <2>0. LeaveDir
    BY <1>10 DEF CloseDir, ReadDirFails
  <2>1. Len(stack) > 0
    BY <2>0, <1>0 DEF LeaveDir, StackInv
  <2>2. stack' = Front(stack) /\ asked' = asked /\ pc' \in {"done", "readdir"}
    BY <2>0 DEF LeaveDir, ReturnTo
  <2>3. Len(stack') = Len(stack) - 1 /\ \A i \in 1..Len(stack') : stack'[i] = stack[i]
    BY <2>1, <2>2, <1>0 DEF Front
  <2> QED
    BY <2>1, <2>2, <2>3, <1>0 DEF DepthInv
<1>11. CASE Done
  BY <1>11 DEF Done, StackInv, DepthInv, NoCall
<1>12. ASSUME NEW n, NEW k, Change(n, k) PROVE DepthInv'
  <2>1. DOMAIN stack' = DOMAIN stack /\ stack' = [i \in DOMAIN stack |-> stack'[i]]
    BY <1>12 DEF Change
  <2>2. Len(stack') = Len(stack)
    BY <2>1, Replaced
  <2>3. \A i \in 1..Len(stack) : stack'[i].depth = stack[i].depth
    BY <1>12, <1>0 DEF Change
  <2> QED
    BY <1>12, <2>2, <2>3, <1>0 DEF Change, DepthInv
<1> QED
  BY <1>1, <1>2, <1>3, <1>4, <1>5, <1>7, <1>8, <1>9, <1>10, <1>11, <1>12
     DEF Next, User, Listing

(***************************************************************************)
(* NeverTooDeep: the recursion of list_directory ends at the depth given,  *)
(* whatever links or new directories appear under it.                      *)
(***************************************************************************)
THEOREM NeverTooDeepHolds == Spec => []NeverTooDeep
<1>1. DepthInv => NeverTooDeep
  BY DEF DepthInv, NeverTooDeep
<1>2. StackInv /\ DepthInv /\ [Next]_vars => (StackInv /\ DepthInv)'
  BY StepStack, StepDepth
<1>3. Init => StackInv /\ DepthInv
  BY InitStack, InitDepth
<1> QED
  BY <1>1, <1>2, <1>3, PTL DEF Spec
-----------------------------------------------------------------------------
(* Where a path leads, one name after the other. *)
Place == Name \cup {"none"}
FileTree == kind \in [Name -> Kinds] /\ cwd \in Name

LEMMA FollowType == ASSUME NEW n \in Place PROVE Follow(n) \in Place
BY FilesAssumption DEF Follow, Place

LEMMA LookupType == ASSUME NEW d, NEW n PROVE Lookup(d, n) \in Place
BY DEF Lookup, Children, Place

OpenStep(path) == [x \in Place \X Nat |-> Follow(Lookup(x[1], path[x[2]]))]

LEMMA OpensIs ==
  ASSUME FileTree, NEW path \in Seq(Name)
  PROVE  \E f : IsIterated(f, Place, cwd, OpenStep(path), Len(path)) /\ Opens(path) = f[Len(path)]
<1> DEFINE n == Len(path)
           step == OpenStep(path)
           Eq(f) == f = [i \in 0..n |-> IF i = 0 THEN cwd ELSE Follow(Lookup(f[i-1], path[i]))]
           to == CHOOSE f : Eq(f)
<1>1. Opens(path) = to[n]
  BY Zenon DEF Opens
<1>2. n \in Nat
  OBVIOUS
<1>3. cwd \in Place /\ step \in [Place \X Nat -> Place]
  BY FollowType, LookupType DEF OpenStep, FileTree, Place
<1>4. ASSUME NEW s \in Place, NEW i \in 1..n PROVE Follow(Lookup(s, path[i])) = step[<<s, i>>]
  BY DEF OpenStep
<1> HIDE DEF step, n
<1>5. PICK f : IsIterated(f, Place, cwd, step, n)
  BY <1>2, <1>3, Iterates
<1>6. Eq(f)
  <2>1. ASSUME NEW i \in 1..n PROVE f[i] = Follow(Lookup(f[i-1], path[i]))
    <3>1. i - 1 \in 0..n
      BY <1>2
    <3>2. f[i-1] \in Place
      BY <1>5, <3>1 DEF IsIterated
    <3> QED
      BY <1>4, <1>5, <3>2 DEF IsIterated
  <2> QED
    BY <1>2, <1>5, <2>1 DEF IsIterated
<1>7. Eq(to)
  BY <1>6, Zenon
<1> HIDE DEF to
<1>8. TakesSteps(to, Place, cwd, step, n)
  <2>1. ASSUME NEW k \in 1..n, to[k-1] \in Place PROVE to[k] = step[<<to[k-1], k>>]
    <3>1. to[k] = Follow(Lookup(to[k-1], path[k]))
      BY <1>2, <1>7
    <3> QED
      BY <1>4, <2>1, <3>1
  <2>2. to = [k \in 0..n |-> to[k]] /\ to[0] = cwd
    BY <1>2, <1>7
  <2> QED
    BY <2>1, <2>2 DEF TakesSteps
<1>9. IsIterated(to, Place, cwd, step, n)
  BY <1>2, <1>3, <1>8, StepsIterate
<1> QED
  BY <1>1, <1>9 DEF step, n

LEMMA OpensType ==
  ASSUME FileTree, NEW path \in Seq(Name)
  PROVE  Opens(path) \in Place /\ (path = << >> => Opens(path) = cwd)
<1>1. PICK f : IsIterated(f, Place, cwd, OpenStep(path), Len(path)) /\ Opens(path) = f[Len(path)]
  BY OpensIs
<1>2. Len(path) \in 0..Len(path)
  OBVIOUS
<1> QED
  BY <1>1, <1>2 DEF IsIterated

LEMMA OpensFurther ==
  ASSUME FileTree, NEW path \in Seq(Name), NEW e \in Name
  PROVE  Opens(Append(path, e)) = Follow(At(path, e))
<1> DEFINE far == Append(path, e)
           n == Len(path)
           m == n + 1
<1>1. /\ far \in Seq(Name) /\ Len(far) = m /\ far[m] = e /\ \A i \in 1..n : far[i] = path[i]
      /\ n \in Nat /\ m \in Nat /\ n <= m /\ m \in 1..m /\ m - 1 = n
  OBVIOUS
<1> HIDE DEF far, n, m
<1>2. PICK f : IsIterated(f, Place, cwd, OpenStep(path), n) /\ Opens(path) = f[n]
  BY OpensIs DEF n
<1>3. PICK g : IsIterated(g, Place, cwd, OpenStep(far), m) /\ Opens(far) = g[m]
  BY <1>1, OpensIs
<1>4. IsIterated(f, Place, cwd, OpenStep(far), n)
  <2>1. ASSUME NEW k \in 1..n PROVE f[k] = OpenStep(far)[<<f[k-1], k>>]
    <3>1. k - 1 \in 0..n /\ k \in Nat
      BY <1>1
    <3>2. f[k-1] \in Place /\ f[k] = OpenStep(path)[<<f[k-1], k>>]
      BY <1>2, <3>1 DEF IsIterated
    <3> QED
      BY <1>1, <3>1, <3>2 DEF OpenStep
  <2> QED
    BY <1>2, <2>1 DEF IsIterated
<1>5. f[n] = g[n]
  <2>1. \A k \in 0..n : f[k] = g[k]
    BY <1>1, <1>3, <1>4, IteratesOnce
  <2> QED
    BY <1>1, <2>1
<1>6. g[m] = OpenStep(far)[<<g[n], m>>] /\ g[n] \in Place
  <2>1. n \in 0..m
    BY <1>1
  <2> QED
    BY <1>1, <1>3, <2>1 DEF IsIterated
<1>7. g[m] = Follow(Lookup(g[n], e))
  BY <1>1, <1>6 DEF OpenStep
<1> QED
  BY <1>2, <1>3, <1>5, <1>7 DEF At, far

LEMMA CanOpenIs ==
  ASSUME FileTree, NEW path \in Seq(Name), CanOpen(path)
  PROVE  Opens(path) \in Name
BY OpensType DEF CanOpen, IsDir, FileTree

(* A directory that lstat sees is opened under its name. *)
LEMMA OpensSeen ==
  ASSUME FileTree, NEW path \in Seq(Name), NEW e, Descends(path, e)
  PROVE  /\ e \in Name /\ At(path, e) = e /\ Append(path, e) \in Seq(Name)
         /\ Opens(Append(path, e)) = e /\ CanOpen(Append(path, e))
         /\ Opens(path) \in Name /\ e \in Children(Opens(path)) /\ IsDir(e)
<1>1. At(path, e) \in Name /\ kind[At(path, e)] = "dir"
  BY DEF Descends, IsDir
<1>2. /\ At(path, e) = e /\ Opens(path) \in Name /\ e \in Children(Opens(path))
  BY <1>1, FilesAssumption DEF At, Lookup
<1>3. Opens(Append(path, e)) = Follow(e)
  BY <1>1, <1>2, OpensFurther
<1>4. Follow(e) = e
  BY <1>1, <1>2 DEF Follow
<1> QED
  BY <1>1, <1>2, <1>3, <1>4 DEF CanOpen, IsDir

-----------------------------------------------------------------------------
(* The types.                                                              *)

(* The recursion goes on from a name, never from . or .. *)
TInv == TypeOK /\ (pc = "lstat" => entry \in Name)

LEMMA InitType == Init => TInv
BY FilesAssumption DEF Init, TInv, TypeOK, NoCall, IsABag, EmptyBag, SetToBag, Kinds, Dots

(* What can be opened is a name. *)
LEMMA OpensName ==
  ASSUME TypeOK, NEW path \in Seq(Name), CanOpen(path)
  PROVE  Opens(path) \in Name
BY CanOpenIs DEF FileTree, TypeOK

(* One more of an entry is still a bag. *)
LEMMA DisplayedBag ==
  ASSUME IsABag(shown), NEW e
  PROVE  IsABag(Displayed(e))
<1> DEFINE x == <<Top.path, e>>
           b == SetToBag({x})
<1> HIDE DEF x
<1>1. DOMAIN b = {x} /\ \A y \in {x} : b[y] = 1
  BY DEF SetToBag
<1>2. shown \in [DOMAIN shown -> {n \in Nat : n > 0}]
  BY DEF IsABag
<1>3. IsABag(shown (+) b)
  <2> HIDE DEF b
  <2>1. shown (+) b = [y \in (DOMAIN shown) \cup {x} |->
                         (IF y \in DOMAIN shown THEN shown[y] ELSE 0)
                       + (IF y \in {x} THEN b[y] ELSE 0)]
    BY <1>1 DEF (+)
  <2>2. \A y \in (DOMAIN shown) \cup {x} :
          (IF y \in DOMAIN shown THEN shown[y] ELSE 0) + (IF y \in {x} THEN b[y] ELSE 0)
            \in {n \in Nat : n > 0}
    BY <1>1, <1>2
  <2> QED
    BY <2>1, <2>2 DEF IsABag
<1> QED
  BY <1>3 DEF Displayed, x

(* An entry is taken from those to come. *)
LEMMA RemainingType ==
  ASSUME TInv, StackInv, pc = "readdir", NEW e \in Top.todo
  PROVE  Remaining(e) \in Seq(Frame) /\ Remaining(e) # << >> /\ e \in Name \cup Dots
<1>1. stack \in Seq(Frame) /\ stack # << >> /\ Len(stack) \in Nat
  BY DEF TInv, TypeOK
<1>2. Len(stack) \in 1 .. Len(stack) /\ Top \in Frame
  BY <1>1 DEF Top
<1>3. [Top EXCEPT !.todo = @ \ {e}] \in Frame
  BY <1>2 DEF Frame
<1>4. Remaining(e) = [stack EXCEPT ![Len(stack)] = [Top EXCEPT !.todo = @ \ {e}]]
  BY <1>1, <1>2 DEF Remaining, Top
<1>5. Remaining(e) \in Seq(Frame) /\ Len(Remaining(e)) = Len(stack)
  BY <1>1, <1>2, <1>3, <1>4
<1> QED
  BY <1>1, <1>2, <1>5 DEF Frame

LEMMA UserType ==
  ASSUME TInv, StackInv, User
  PROVE  TInv'
<1>1. ASSUME NEW path, CatOrWc(path) PROVE TInv'
  BY <1>1, FilesAssumption DEF CatOrWc, LeftOpen, TInv, TypeOK, tree, ls, history, failures
<1>2. ASSUME NEW path, CatOrWcFails(path) PROVE TInv'
  BY <1>2 DEF CatOrWcFails, TInv, TypeOK, vars, tree, ls, history, failures
<1>0. \A path \in Paths : path \in Seq(Name)
  <2>1. ASSUME NEW n \in Name PROVE <<n>> \in Seq(Name)
    OBVIOUS
  <2>2. << >> \in Seq(Name)
    OBVIOUS
  <2> QED
    BY <2>1, <2>2 DEF Paths
<1>3. ASSUME NEW path \in Paths, Cd(path) PROVE TInv'
  <2>1. Opens(path) \in Name
    BY <1>0, <1>3, OpensName DEF Cd, TInv
  <2> QED
    BY <1>3, <2>1 DEF Cd, TInv, TypeOK, tree, ls, history, failures
<1>4. CASE CdUp
  BY <1>4, FilesAssumption DEF CdUp, TInv, TypeOK, tree, ls, history, failures
<1>5. ASSUME NEW path \in Paths, NEW depth \in Depths, NEW filter \in Filters, Ls(path, depth, filter)
      PROVE  TInv'
  <2>1. depth \in Int /\ filter \subseteq Name \cup Dots
    BY FilesAssumption DEF Dots
  <2>2. path \in Seq(Name)
    BY <1>0
  <2> QED
    BY <1>5, <2>1, <2>2 DEF Ls, TInv, TypeOK, tree, failures
<1> QED
  BY <1>1, <1>2, <1>3, <1>4, <1>5 DEF User

LEMMA AppendsName ==
  ASSUME NEW path \in Seq(Name), NEW e \in Name \cup Dots
  PROVE  Append(path, e) \in Seq(Name \cup Dots)
<1>1. path \in Seq(Name \cup Dots)
  OBVIOUS
<1> QED
  BY <1>1

LEMMA ListingType ==
  ASSUME TInv, StackInv, Listing
  PROVE  TInv'
<1>0. stack \in Seq(Frame) /\ Len(stack) \in Nat /\ MaxFds \in Nat
  BY FilesAssumption DEF TInv, TypeOK
<1>01. /\ MaxSilent \in Nat /\ silent \in 0..MaxSilent
       /\ unread \subseteq Seq(Name \cup Dots)
       /\ unseen \subseteq Seq(Name) \X (Name \cup Dots)
  BY FilesAssumption DEF TInv, TypeOK
<1>1. CASE StopAtDepth
  BY <1>1 DEF StopAtDepth, ReturnTo, TInv, TypeOK, tree, ls, history, failures
<1>2. CASE OpenDir
  <2> DEFINE f == [path |-> call.path, dir |-> Opens(call.path), depth |-> call.depth,
                   todo |-> Dots \cup Children(Opens(call.path))]
  <2>1. f \in Frame
    BY <1>2, OpensName DEF OpenDir, TInv, TypeOK, Frame, Children
  <2>2. stack' = Append(stack, f) /\ open' = open + 1 /\ open < MaxFds /\ pc' = "readdir"
    BY <1>2 DEF OpenDir
  <2>3. stack' \in Seq(Frame) /\ stack' # << >>
    <3> HIDE DEF f
    <3>1. stack' \in Seq(Frame) /\ Len(stack') = Len(stack) + 1
      BY <1>0, <2>1, <2>2
    <3> QED
      BY <1>0, <3>1
  <2> QED
    BY <1>0, <1>2, <2>2, <2>3 DEF OpenDir, TInv, TypeOK, tree, history, failures
<1>3. CASE OpenDirFails
  <2>1. call.path \in Seq(Name \cup Dots)
    <3>1. call.path \in Seq(Name)
      BY DEF TInv, TypeOK
    <3> QED
      BY <3>1
  <2>2. unread' \subseteq Seq(Name \cup Dots)
    BY <1>3, <2>1 DEF OpenDirFails, TInv, TypeOK
  <2> QED
    BY <1>3, <2>2 DEF OpenDirFails, Reported, ReturnTo, TInv, TypeOK, tree
<1>4. CASE ReadDir
  <2>1. PICK e \in Top.todo :
          /\ shown' = Displayed(e) /\ entry' = e /\ stack' = Remaining(e)
          /\ pc' = IF GoesOn(e) THEN "lstat" ELSE "readdir"
    BY <1>4 DEF ReadDir
  <2>2. Remaining(e) \in Seq(Frame) /\ Remaining(e) # << >> /\ e \in Name \cup Dots
    BY <1>4, RemainingType DEF ReadDir
  <2>3. IsABag(shown')
    BY <2>1, DisplayedBag DEF TInv, TypeOK
  <2>4. pc' \in {"lstat", "readdir"} /\ (pc' = "lstat" => e \in Name)
    BY <2>1, <2>2 DEF GoesOn
  <2> QED
    BY <1>4, <2>1, <2>2, <2>3, <2>4 DEF ReadDir, TInv, TypeOK, tree, history, failures
<1>5. CASE ReadDirMisses
  <2>1. PICK e \in Top.todo : stack' = Remaining(e)
    BY <1>5 DEF ReadDirMisses
  <2>2. Remaining(e) \in Seq(Frame) /\ Remaining(e) # << >>
    BY <1>5, RemainingType DEF ReadDirMisses
  <2> QED
    BY <1>5, <2>1, <2>2 DEF ReadDirMisses, TInv, TypeOK, tree, history, failures
<1>6. CASE Lstat
  <2>1. stack # << >> /\ Top \in Frame /\ entry \in Name
    BY <1>0, <1>6 DEF Lstat, TInv, TypeOK, Top
  <2>2. Append(Top.path, entry) \in Seq(Name) /\ Top.depth - 1 \in Int
    BY <2>1 DEF Frame
  <2> DEFINE deeper == [path |-> Append(Top.path, entry), depth |-> Top.depth - 1]
  <2>3. deeper \in [path : Seq(Name), depth : Int]
    BY <2>2
  <2>4. call' \in {deeper, call} /\ pc' \in {"call", "readdir"}
    BY <1>6 DEF Lstat
  <2>5. call' \in [path : Seq(Name), depth : Int]
    <3> HIDE DEF deeper
    <3> QED
      BY <2>3, <2>4 DEF TInv, TypeOK
  <2> QED
    BY <1>6, <2>1, <2>4, <2>5 DEF Lstat, TInv, TypeOK, tree, history, failures
<1>7. CASE CloseDir \/ ReadDirFails
  <2>0. LeaveDir
    BY <1>7 DEF CloseDir, ReadDirFails
  <2>1. Len(stack) > 0
    BY <1>0, <2>0 DEF LeaveDir, TInv, TypeOK
  <2>2. Front(stack) \in Seq(Frame) /\ open - 1 \in 0..MaxFds
    BY <1>0, <2>1 DEF Front, StackInv, TInv, TypeOK
  <2>3. Top \in Frame
    BY <1>0, <2>1 DEF Top
  <2>4. /\ Top.path \in Seq(Name)
        /\ \A e \in Top.todo : e \in Name \cup Dots /\ Append(Top.path, e) \in Seq(Name \cup Dots)
    BY <2>3, AppendsName DEF Frame
  <2>5. /\ silent' \in 0..MaxSilent
        /\ unread' \subseteq Seq(Name \cup Dots)
        /\ unseen' \subseteq Seq(Name) \X (Name \cup Dots)
    <3>1. CASE CloseDir
      BY <3>1 DEF CloseDir, failures, TInv, TypeOK
    <3>2. CASE ReadDirFails
      <4>1. silent' \in 0..MaxSilent
        BY <1>01, <3>2 DEF ReadDirFails
      <4>2. unread' \subseteq Seq(Name \cup Dots)
        BY <1>01, <2>4, <3>2 DEF ReadDirFails
      <4>3. unseen' \subseteq Seq(Name) \X (Name \cup Dots)
        BY <1>01, <2>4, <3>2 DEF ReadDirFails
      <4> QED
        BY <4>1, <4>2, <4>3
    <3> QED
      BY <1>7, <3>1, <3>2
  <2> QED
    BY <2>0, <2>2, <2>5 DEF LeaveDir, Closed, ReturnTo, TInv, TypeOK, tree
<1>9. CASE LstatFails
  <2>1. stack # << >> /\ Top \in Frame /\ entry \in Name
    BY <1>0, <1>9 DEF LstatFails, TInv, TypeOK, Top
  <2>2. Append(Top.path, entry) \in Seq(Name \cup Dots)
    BY <2>1, AppendsName DEF Frame
  <2>3. silent' \in 0..MaxSilent /\ unread' \subseteq Seq(Name \cup Dots)
    BY <1>01, <1>9, <2>2 DEF LstatFails
  <2> QED
    BY <1>9, <2>1, <2>3 DEF LstatFails, TInv, TypeOK, tree, ls
<1>8. CASE Done
  BY <1>01, <1>8 DEF Done, NoCall, IsABag, EmptyBag, SetToBag, TInv, TypeOK, tree, Dots
<1> QED
  BY <1>1, <1>2, <1>3, <1>4, <1>5, <1>6, <1>7, <1>8, <1>9 DEF Listing

LEMMA ChangeType ==
  ASSUME TInv, NEW n \in Name, NEW k \in Kinds, Change(n, k)
  PROVE  TInv'
<1>1. stack \in Seq(Frame) /\ Len(stack) \in Nat /\ DOMAIN stack = 1 .. Len(stack)
  BY DEF TInv, TypeOK
<1>2. PICK seen :
        stack' = [i \in DOMAIN stack |->
                    IF i \in seen THEN [stack[i] EXCEPT !.todo = @ \cup {n}] ELSE stack[i]]
  BY DEF Change
<1>3. ASSUME NEW i \in 1 .. Len(stack)
      PROVE  (IF i \in seen THEN [stack[i] EXCEPT !.todo = @ \cup {n}] ELSE stack[i]) \in Frame
  <2>1. stack[i] \in Frame
    BY <1>1
  <2> QED
    BY <2>1 DEF Frame
<1>4. stack' \in Seq(Frame) /\ Len(stack') = Len(stack)
  BY <1>1, <1>2, <1>3
<1>5. stack # << >> => stack' # << >>
  BY <1>1, <1>4
<1>6. kind' \in [Name -> Kinds]
  BY DEF Change, TInv, TypeOK, Kinds
<1>7. changes' \in 0..MaxChanges
  BY FilesAssumption DEF Change, TInv, TypeOK
<1> QED
  BY <1>4, <1>5, <1>6, <1>7 DEF Change, TInv, TypeOK, failures

LEMMA StepType == TInv /\ StackInv /\ [Next]_vars => TInv'
<1> SUFFICES ASSUME TInv, StackInv, [Next]_vars PROVE TInv'
  OBVIOUS
<1>1. CASE UNCHANGED vars
  BY <1>1 DEF vars, tree, ls, history, failures, TInv, TypeOK
<1> QED
  BY <1>1, UserType, ListingType, ChangeType DEF Next

(* The state of the shell and of a listing has its types: descriptors in   *)
(* use never exceed the limit, and entries, frames and paths are made of   *)
(* names of the tree.                                                      *)
THEOREM TypeCorrect == Spec => []TypeOK
<1>1. TInv => TypeOK
  BY DEF TInv
<1> QED
  BY <1>1, InitType, InitStack, StepType, StepStack, PTL DEF Spec

-----------------------------------------------------------------------------
(* Subdirs and DirsWithin.                                                 *)
LEMMA SubdirsAre ==
  ASSUME FileTree, NEW path \in Seq(Name), CanOpen(path)
  PROVE  Subdirs(path) = {Append(path, e) : e \in {n \in Name : Descends(path, n)}}
<1>1. ASSUME NEW n PROVE (n \in Children(Opens(path)) /\ IsDir(n)) <=> (n \in Name /\ Descends(path, n))
  <2>1. ASSUME n \in Children(Opens(path)), IsDir(n) PROVE n \in Name /\ Descends(path, n)
    <3>1. Opens(path) \in Name
      BY CanOpenIs
    <3> QED
      BY <2>1, <3>1 DEF Descends, At, Lookup, Children
  <2>2. ASSUME n \in Name, Descends(path, n) PROVE n \in Children(Opens(path)) /\ IsDir(n)
    BY <2>2, OpensSeen
  <2> QED
    BY <2>1, <2>2
<1>2. {m \in Children(Opens(path)) : IsDir(m)} = {n \in Name : Descends(path, n)}
  BY <1>1
<1> QED
  BY <1>2 DEF Subdirs

LEMMA SubdirsType ==
  ASSUME NEW path \in Seq(Name)
  PROVE  Subdirs(path) \subseteq Seq(Name)
         /\ \A q \in Subdirs(path) : \E e \in Name : q = Append(path, e)
<1>1. \A e \in Name : Append(path, e) \in Seq(Name)
  OBVIOUS
<1> QED
  BY <1>1 DEF Subdirs, Children

SetsOfPaths == SUBSET Seq(Name)
WStep == [x \in SetsOfPaths \X Nat |-> UNION {{p} \cup Subdirs(p) : p \in x[1]}]

LEMMA WStepType == WStep \in [SetsOfPaths \X Nat -> SetsOfPaths]
<1>1. ASSUME NEW P \in SetsOfPaths PROVE UNION {{p} \cup Subdirs(p) : p \in P} \in SetsOfPaths
  <2>1. \A p \in P : p \in Seq(Name) /\ Subdirs(p) \subseteq Seq(Name)
    BY SubdirsType DEF SetsOfPaths
  <2> QED
    BY <2>1 DEF SetsOfPaths
<1> QED
  BY <1>1 DEF WStep

LEMMA WStepIs ==
  ASSUME NEW P \in SetsOfPaths, NEW k \in Nat, NEW p
  PROVE  p \in WStep[<<P, k>>] <=> \E q \in P : p = q \/ p \in Subdirs(q)
BY DEF WStep

Down(q) == CHOOSE f : IsRecursion(f, SetsOfPaths, {q}, WStep)

LEMMA DownIs ==
  ASSUME NEW q \in Seq(Name)
  PROVE  IsRecursion(Down(q), SetsOfPaths, {q}, WStep)
<1>1. {q} \in SetsOfPaths
  BY DEF SetsOfPaths
<1>2. \E f : IsRecursion(f, SetsOfPaths, {q}, WStep)
  BY <1>1, WStepType, IteratesOn
<1> QED
  BY <1>2, Zenon DEF Down

LEMMA DownStep ==
  ASSUME NEW q \in Seq(Name), NEW k \in Nat
  PROVE  /\ Down(q)[k] \in SetsOfPaths
         /\ Down(q)[0] = {q}
         /\ \A p : p \in Down(q)[k + 1] <=> \E r \in Down(q)[k] : p = r \/ p \in Subdirs(r)
<1> DEFINE j == k + 1
<1>1. j \in Nat \ {0} /\ j - 1 = k /\ j \in Nat
  OBVIOUS
<1> HIDE DEF j
<1>2. Down(q)[k] \in SetsOfPaths /\ Down(q)[0] = {q} /\ Down(q)[j] = WStep[<<Down(q)[k], j>>]
  BY <1>1, DownIs DEF IsRecursion
<1> QED
  BY <1>1, <1>2, WStepIs DEF j

(* The first level taken apart. *)
LEMMA DownSplit ==
  \A k \in Nat : \A q \in Seq(Name) :
    \A p : p \in Down(q)[k + 1] <=> p = q \/ \E r \in Subdirs(q) : p \in Down(r)[k]
<1> DEFINE Split(k) == \A q \in Seq(Name) :
             \A p : p \in Down(q)[k + 1] <=> p = q \/ \E r \in Subdirs(q) : p \in Down(r)[k]
           P == {k \in Nat : Split(k)}
<1>1. 0 \in P
  <2> SUFFICES ASSUME NEW q \in Seq(Name), NEW p
               PROVE  p \in Down(q)[0 + 1] <=> p = q \/ \E r \in Subdirs(q) : p \in Down(r)[0]
    OBVIOUS
  <2>1. p \in Down(q)[0 + 1] <=> \E r \in Down(q)[0] : p = r \/ p \in Subdirs(r)
    BY DownStep
  <2>2. Down(q)[0] = {q} /\ \A r \in Subdirs(q) : Down(r)[0] = {r}
    BY DownStep, SubdirsType
  <2> QED
    BY <2>1, <2>2
<1>2. ASSUME NEW k \in Nat, k \in P PROVE k + 1 \in P
  <2> DEFINE j == k + 1
  <2>0. j \in Nat /\ Split(k)
    BY <1>2
  <2> SUFFICES Split(j)
    BY <2>0
  <2> HIDE DEF j, Split
  <2>1. ASSUME NEW q \in Seq(Name), NEW p
        PROVE  p \in Down(q)[j + 1] <=> p = q \/ \E r \in Subdirs(q) : p \in Down(r)[j]
    <3>1. p \in Down(q)[j + 1] <=> \E s \in Down(q)[j] : p = s \/ p \in Subdirs(s)
      BY <2>0, DownStep
    <3>2. \A s : s \in Down(q)[j] <=> s = q \/ \E r \in Subdirs(q) : s \in Down(r)[k]
      BY <2>0 DEF Split, j
    <3>3. ASSUME NEW r \in Subdirs(q)
          PROVE  p \in Down(r)[j] <=> \E s \in Down(r)[k] : p = s \/ p \in Subdirs(s)
      <4>1. r \in Seq(Name)
        BY SubdirsType
      <4> QED
        BY <4>1, DownStep DEF j
    <3>4. ASSUME NEW r \in Subdirs(q) PROVE r \in Down(r)[j]
      <4>1. r \in Seq(Name)
        BY SubdirsType
      <4> QED
        BY <2>0, <4>1 DEF Split, j
    <3> QED
      BY <3>1, <3>2, <3>3, <3>4
  <2> QED
    BY <2>1 DEF Split
<1> HIDE DEF P, Split
<1>3. \A k \in Nat : k \in P
  BY <1>1, <1>2, NatSetInduction
<1>4. \A k \in Nat : Split(k)
  BY <1>3 DEF P
<1> QED
  BY <1>4 DEF Split

(* A path on the way begins with the path it came from. *)
Extends(p, q) == p \in Seq(Name) /\ Len(p) >= Len(q) /\ \A i \in 1..Len(q) : p[i] = q[i]

LEMMA DownExtends ==
  ASSUME NEW q \in Seq(Name)
  PROVE  \A k \in Nat : \A p \in Down(q)[k] : Extends(p, q)
<1> DEFINE All(k) == \A p \in Down(q)[k] : Extends(p, q)
           P == {k \in Nat : All(k)}
<1>1. 0 \in P
  <2>1. Down(q)[0] = {q}
    BY DownStep
  <2>2. Extends(q, q)
    BY DEF Extends
  <2> QED
    BY <2>1, <2>2
<1>2. ASSUME NEW k \in Nat, k \in P PROVE k + 1 \in P
  <2>1. ASSUME NEW p \in Down(q)[k + 1] PROVE Extends(p, q)
    <3>1. PICK r \in Down(q)[k] : p = r \/ p \in Subdirs(r)
      BY DownStep
    <3>2. Extends(r, q)
      BY <1>2
    <3>3. CASE p \in Subdirs(r)
      <4>1. r \in Seq(Name)
        BY <3>2 DEF Extends
      <4>2. PICK e \in Name : p = Append(r, e)
        BY <3>3, <4>1, SubdirsType
      <4>3. p \in Seq(Name) /\ Len(p) = Len(r) + 1 /\ \A i \in 1..Len(r) : p[i] = r[i]
        BY <4>1, <4>2
      <4>4. Len(r) \in Nat /\ Len(q) \in Nat
        BY <4>1
      <4> QED
        BY <3>2, <4>3, <4>4 DEF Extends
    <3> QED
      BY <3>1, <3>2, <3>3
  <2> QED
    BY <2>1
<1> HIDE DEF P, All
<1>3. \A k \in Nat : k \in P
  BY <1>1, <1>2, NatSetInduction
<1> QED
  BY <1>3 DEF P, All

(***************************************************************************)
(* The directories within a depth: none, the one, or as far down as the    *)
(* depth allows.                                                           *)
(***************************************************************************)
LEMMA DirsAre ==
  ASSUME FileTree, NEW path \in Seq(Name), NEW depth \in Nat \ {0}, CanOpen(path)
  PROVE  DirsWithin(path, depth) = Down(path)[depth - 1]
<1> DEFINE Eq(f) == f = [k \in 0..depth |-> IF k = 0 THEN {path}
                                           ELSE UNION {{p} \cup Subdirs(p) : p \in f[k-1]}]
           down == CHOOSE f : Eq(f)
           n == depth - 1
<1>0. n \in Nat /\ depth \in Nat /\ n \in 0..depth /\ n <= depth /\ depth # 0 /\ depth # -1
  OBVIOUS
<1>1. DirsWithin(path, depth) = down[n]
  BY <1>0, Zenon DEF DirsWithin
<1>2. {path} \in SetsOfPaths
  BY DEF SetsOfPaths
<1>3. ASSUME NEW P \in SetsOfPaths, NEW k \in 1..depth
      PROVE  UNION {{p} \cup Subdirs(p) : p \in P} = WStep[<<P, k>>]
  BY DEF WStep
<1> HIDE DEF n, down
<1>4. PICK f : IsIterated(f, SetsOfPaths, {path}, WStep, depth)
  BY <1>0, <1>2, WStepType, Iterates
<1>5. Eq(f)
  <2>1. ASSUME NEW i \in 1..depth PROVE f[i] = UNION {{p} \cup Subdirs(p) : p \in f[i-1]}
    <3>1. i - 1 \in 0..depth
      OBVIOUS
    <3>2. f[i-1] \in SetsOfPaths
      BY <1>4, <3>1 DEF IsIterated
    <3> QED
      BY <1>3, <1>4, <3>2 DEF IsIterated
  <2> QED
    BY <1>4, <2>1 DEF IsIterated
<1>6. Eq(down)
  BY <1>5, Zenon DEF down
<1>7. TakesSteps(down, SetsOfPaths, {path}, WStep, depth)
  <2>1. ASSUME NEW k \in 1..depth, down[k-1] \in SetsOfPaths PROVE down[k] = WStep[<<down[k-1], k>>]
    <3>1. down[k] = UNION {{p} \cup Subdirs(p) : p \in down[k-1]}
      <4>1. k \in 0..depth /\ k # 0
        OBVIOUS
      <4> QED
        BY <1>6, <4>1, Zenon
    <3> QED
      BY <1>3, <2>1, <3>1
  <2>2. down = [k \in 0..depth |-> down[k]] /\ down[0] = {path}
    BY <1>6
  <2> QED
    BY <2>1, <2>2 DEF TakesSteps
<1>8. IsIterated(down, SetsOfPaths, {path}, WStep, depth)
  BY <1>0, <1>2, <1>7, WStepType, StepsIterate
<1> DEFINE g == [k \in 0..depth |-> Down(path)[k]]
<1>9. IsIterated(g, SetsOfPaths, {path}, WStep, depth)
  <2>1. IsRecursion(Down(path), SetsOfPaths, {path}, WStep)
    BY DownIs
  <2>2. g \in [0..depth -> SetsOfPaths] /\ g[0] = {path}
    BY <2>1 DEF IsRecursion
  <2>3. ASSUME NEW k \in 1..depth PROVE g[k] = WStep[<<g[k-1], k>>]
    <3>1. k - 1 \in 0..depth /\ k \in 0..depth /\ k \in Nat \ {0}
      OBVIOUS
    <3> QED
      BY <2>1, <3>1 DEF IsRecursion
  <2> QED
    BY <2>2, <2>3 DEF IsIterated
<1>10. g[n] = down[n]
  <2> HIDE DEF g
  <2>1. \A k \in 0..depth : g[k] = down[k]
    BY <1>0, <1>8, <1>9, IteratesOnce
  <2> QED
    BY <1>0, <2>1
<1> QED
  BY <1>0, <1>1, <1>10 DEF n

(* The first directory taken apart: it, and those within one less depth of *)
(* its subdirectories.                                                     *)
LEMMA DirsSplit ==
  ASSUME FileTree, NEW path \in Seq(Name), NEW depth \in Nat \ {0}, CanOpen(path), NEW p
  PROVE  p \in DirsWithin(path, depth) <=>
           \/ p = path
           \/ \E n \in Name : Descends(path, n) /\ p \in DirsWithin(Append(path, n), depth - 1)
<1> DEFINE d == depth - 1
<1>1. DirsWithin(path, depth) = Down(path)[d]
  BY DirsAre
<1>2. d \in Nat
  OBVIOUS
<1> HIDE DEF d
<1>3. CASE d = 0
  <2>1. \A q : DirsWithin(q, d) = {}
    BY <1>3, Zenon DEF DirsWithin
  <2>2. Down(path)[d] = {path}
    BY <1>2, <1>3, DownStep
  <2> QED
    BY <1>1, <2>1, <2>2 DEF d
<1>4. CASE d # 0
  <2> DEFINE k == d - 1
  <2>1. k \in Nat /\ d = k + 1 /\ d \in Nat \ {0}
    BY <1>2, <1>4
  <2> HIDE DEF k
  <2>2. p \in Down(path)[d] <=> p = path \/ \E r \in Subdirs(path) : p \in Down(r)[k]
    BY <2>1, DownSplit
  <2>3. ASSUME NEW n \in Name, Descends(path, n) PROVE DirsWithin(Append(path, n), d) = Down(Append(path, n))[k]
    <3>1. Append(path, n) \in Seq(Name) /\ CanOpen(Append(path, n))
      BY <2>3, OpensSeen
    <3> QED
      BY <2>1, <3>1, DirsAre DEF k
  <2>4. \A r : r \in Subdirs(path) <=> \E n \in Name : Descends(path, n) /\ r = Append(path, n)
    BY SubdirsAre
  <2>5. (\E r \in Subdirs(path) : p \in Down(r)[k])
          <=> \E n \in Name : Descends(path, n) /\ p \in Down(Append(path, n))[k]
    BY <2>4, Zenon
  <2>6. (\E n \in Name : Descends(path, n) /\ p \in Down(Append(path, n))[k])
          <=> \E n \in Name : Descends(path, n) /\ p \in DirsWithin(Append(path, n), d)
    BY <2>3, Zenon
  <2>7. p \in DirsWithin(path, depth) <=> p \in Down(path)[d]
    BY <1>1
  <2> QED
    BY <2>2, <2>5, <2>6, <2>7, Zenon DEF d
<1> QED
  BY <1>3, <1>4

(* Every directory found begins with the path it was looked for from. *)
LEMMA DirsExtend ==
  ASSUME FileTree, NEW path \in Seq(Name), NEW depth \in Nat \cup {-1}, NEW p \in DirsWithin(path, depth)
  PROVE  Extends(p, path)
<1>1. depth # 0 /\ CanOpen(path)
  BY Zenon DEF DirsWithin
<1>2. CASE depth = -1
  <2>1. DirsWithin(path, -1) = {path}
    BY <1>1, <1>2, SMT DEF DirsWithin
  <2> QED
    BY <1>2, <2>1 DEF Extends
<1>3. CASE depth # -1
  <2>1. depth \in Nat \ {0} /\ depth - 1 \in Nat
    BY <1>1, <1>3
  <2>2. p \in Down(path)[depth - 1]
    BY <1>1, <2>1, DirsAre
  <2> QED
    BY <2>1, <2>2, DownExtends
<1> QED
  BY <1>2, <1>3

-----------------------------------------------------------------------------
(* What is shown and what is still to come.                               *)

(* What ls has to show of a directory, and of one and what is below it. *)
Entries(path) == match \cap (Dots \cup Children(Opens(path)))
Pairs(path, depth) == UNION {{p} \X Entries(p) : p \in DirsWithin(path, depth)}

(* What the recursion into an entry will show, if it is a directory. *)
Into(path, n, depth) == IF Descends(path, n) THEN Pairs(Append(path, n), depth) ELSE {}

(* What a call in progress has still to show. *)
Rest(f) ==
  ({f.path} \X (match \cap f.todo))
    \cup (IF f.depth = -1 THEN {} ELSE UNION {Into(f.path, n, f.depth - 1) : n \in f.todo})

Rests(s) == UNION {Rest(s[i]) : i \in 1..Len(s)}

(***************************************************************************)
(* What a listing has still to show when it is at p, with the call c to be *)
(* made, the calls s in progress and the entry e.                          *)
(***************************************************************************)
Left(p, c, s, e) ==
  (IF p = "call" THEN Pairs(c.path, c.depth)
   ELSE IF p = "lstat" THEN Into(s[Len(s)].path, e, s[Len(s)].depth - 1) ELSE {})
  \cup Rests(s)

(* The path is further down, by an entry that is no longer to come. *)
Beyond(path, f) == Len(path) > Len(f.path) /\ path[Len(f.path) + 1] \notin f.todo

IsReading(f) == CanOpen(f.path) /\ f.todo \subseteq Dots \cup Children(Opens(f.path))

Apart(p, c, s, e) ==
  /\ \A i \in 1..Len(s) : IsReading(s[i]) /\ \A j \in 1..i-1 : Beyond(s[i].path, s[j])
  /\ p = "call" => \A i \in 1..Len(s) : Beyond(c.path, s[i])
  /\ p = "lstat" => e \notin s[Len(s)].todo

(* Missed, for any paths un not read and any entries us not seen. *)
Hides(un, us, x) == x \in us \/ \E p \in un : IsPrefix(p, x[1])

(* What is shown and what is left are expected, none of it twice; and what *)
(* is expected is shown, or left, or a call that failed hides it.          *)
Divided(sh, un, us, left, expected) ==
  /\ \A x \in DOMAIN sh : sh[x] = 1 /\ x \notin left /\ x \in expected
  /\ \A x \in left : x \in expected
  /\ \A x \in expected : x \in left \/ x \in DOMAIN sh \/ Hides(un, us, x)

OnTheWay(p, c, s, e, sh, un, us, expected) ==
  Apart(p, c, s, e) /\ Divided(sh, un, us, Left(p, c, s, e), expected)

ListInv ==
  /\ pc = "prompt" => shown = EmptyBag
  /\ steady /\ pc # "prompt" => OnTheWay(pc, call, stack, entry, shown, unread, unseen, Expected)

(* As long as the tree stays, these depend on where the listing is only. *)
LEMMA SameExpected ==
  ASSUME UNCHANGED <<kind, cwd, match, asked>>
  PROVE  Expected' = Expected
BY SMTT(30) DEF Expected, DirsWithin, CanOpen, Subdirs, Opens, Lookup, Follow, Children,
                IsDir, Dots

LEMMA SameLeft ==
  ASSUME UNCHANGED <<kind, cwd, match>>
  PROVE  Left(pc, call, stack, entry)' = Left(pc', call', stack', entry')
BY SMTT(30) DEF Left, Rests, Rest, Into, Descends, At, Pairs, Entries, DirsWithin, CanOpen,
                Subdirs, Opens, Lookup, Follow, Children, IsDir, Dots

LEMMA SameApart ==
  ASSUME UNCHANGED <<kind, cwd, match>>
  PROVE  Apart(pc, call, stack, entry)' = Apart(pc', call', stack', entry')
BY SMTT(30) DEF Apart, IsReading, Beyond, CanOpen, Opens, Lookup, Follow, Children, IsDir, Dots

LEMMA SameWay ==
  ASSUME UNCHANGED <<kind, cwd, match, asked>>
  PROVE  OnTheWay(pc, call, stack, entry, shown, unread, unseen, Expected)'
           = OnTheWay(pc', call', stack', entry', shown', unread', unseen', Expected)
BY SameExpected, SameLeft, SameApart, Zenon DEF OnTheWay, Divided, Hides

LEMMA PairsAre ==
  ASSUME NEW path, NEW depth, NEW x
  PROVE  x \in Pairs(path, depth) <=>
           \E p \in DirsWithin(path, depth) : \E e \in Entries(p) : x = <<p, e>>
BY DEF Pairs

LEMMA RestIs ==
  ASSUME NEW f, NEW x
  PROVE  x \in Rest(f) <=>
           \/ \E e \in match \cap f.todo : x = <<f.path, e>>
           \/ f.depth # -1 /\ \E n \in f.todo : x \in Into(f.path, n, f.depth - 1)
BY DEF Rest

Depth == Nat \cup {-1}

(* Nothing is to be shown of what is too deep or cannot be opened. *)
LEMMA NoPairs ==
  ASSUME NEW path, Pairs(path, 0) # {}
  PROVE  FALSE
<1>1. DirsWithin(path, 0) = {}
  BY SMT DEF DirsWithin
<1> QED
  BY <1>1 DEF Pairs

(* A directory is read entry by entry. *)
LEMMA PairsSplit ==
  ASSUME FileTree, NEW path \in Seq(Name), NEW depth \in Depth \ {0}, CanOpen(path), NEW x
  PROVE  x \in Pairs(path, depth) <=>
           \/ \E e \in Entries(path) : x = <<path, e>>
           \/ depth # -1 /\ \E n \in Name : x \in Into(path, n, depth - 1)
<1>1. CASE depth = -1
  <2>1. DirsWithin(path, -1) = {path}
    BY SMT DEF DirsWithin
  <2> QED
    BY <1>1, <2>1, PairsAre
<1>2. CASE depth # -1
  <2>1. depth \in Nat \ {0}
    BY <1>2 DEF Depth
  <2> DEFINE d == depth - 1
             Deeper(p) == \E n \in Name : Descends(path, n) /\ p \in DirsWithin(Append(path, n), d)
  <2>2. \A p : p \in DirsWithin(path, depth) <=> p = path \/ Deeper(p)
    BY <2>1, DirsSplit
  <2>3. \A n \in Name : x \in Into(path, n, d) <=>
             Descends(path, n) /\ \E p \in DirsWithin(Append(path, n), d) : \E e \in Entries(p) : x = <<p, e>>
    BY PairsAre DEF Into
  <2> HIDE DEF d
  <2>4. (\E n \in Name : x \in Into(path, n, d)) <=> \E p, e : Deeper(p) /\ e \in Entries(p) /\ x = <<p, e>>
    BY <2>3, Zenon
  <2> HIDE DEF Deeper
  <2>5. x \in Pairs(path, depth) <=>
             (\E e \in Entries(path) : x = <<path, e>>) \/ \E p, e : Deeper(p) /\ e \in Entries(p) /\ x = <<p, e>>
    <3>1. x \in Pairs(path, depth) <=>
            \E p \in DirsWithin(path, depth) : \E e \in Entries(p) : x = <<p, e>>
      BY PairsAre
    <3> QED
      BY <2>2, <3>1, Zenon
  <2> QED
    BY <1>2, <2>4, <2>5, Zenon DEF d
<1> QED
  BY <1>1, <1>2

(* What is shown of an entry that is a directory is further down. *)
LEMMA IntoFurther ==
  ASSUME FileTree, NEW path \in Seq(Name), NEW n, NEW depth \in Depth, NEW x \in Into(path, n, depth)
  PROVE  /\ n \in Name /\ n \in Children(Opens(path))
         /\ \E p, e : x = <<p, e>> /\ Len(p) > Len(path) /\ p[Len(path) + 1] = n
<1>1. Descends(path, n) /\ x \in Pairs(Append(path, n), depth)
  BY DEF Into
<1>2. n \in Name /\ n \in Children(Opens(path)) /\ Append(path, n) \in Seq(Name)
  BY <1>1, OpensSeen
<1>3. PICK p \in DirsWithin(Append(path, n), depth) : \E e \in Entries(p) : x = <<p, e>>
  BY <1>1, PairsAre
<1>4. Extends(p, Append(path, n))
  BY <1>2, DirsExtend DEF Depth
<1>5. Len(path) \in Nat /\ Len(Append(path, n)) = Len(path) + 1 /\ Append(path, n)[Len(path) + 1] = n
  BY <1>2
<1>6. Len(p) > Len(path) /\ p[Len(path) + 1] = n
  <2>1. Len(p) \in Nat
    BY <1>4 DEF Extends
  <2> QED
    BY <1>4, <1>5, <2>1 DEF Extends
<1> QED
  BY <1>2, <1>3, <1>6

(* The call that opens a directory has all of it to show. *)
LEMMA OpenedRest ==
  ASSUME FileTree, NEW path \in Seq(Name), NEW depth \in Depth \ {0}, CanOpen(path), NEW f,
         f.path = path, f.depth = depth, f.todo = Dots \cup Children(Opens(path))
  PROVE  Rest(f) = Pairs(path, depth)
<1> SUFFICES ASSUME NEW x PROVE x \in Rest(f) <=> x \in Pairs(path, depth)
  OBVIOUS
<1>1. x \in Rest(f) <=> \/ \E e \in match \cap f.todo : x = <<path, e>>
                        \/ depth # -1 /\ \E n \in f.todo : x \in Into(path, n, depth - 1)
  BY RestIs
<1>2. Entries(path) = match \cap f.todo
  BY DEF Entries
<1>3. depth # -1 => (\A n : x \in Into(path, n, depth - 1) => n \in Name /\ n \in f.todo)
  <2> SUFFICES ASSUME depth # -1, NEW n, x \in Into(path, n, depth - 1) PROVE n \in Name /\ n \in f.todo
    OBVIOUS
  <2>1. depth - 1 \in Depth
    BY DEF Depth
  <2> QED
    BY <2>1, IntoFurther
<1>4. x \in Pairs(path, depth) <=>
        \/ \E e \in Entries(path) : x = <<path, e>>
        \/ depth # -1 /\ \E n \in Name : x \in Into(path, n, depth - 1)
  BY PairsSplit
<1> QED
  BY <1>1, <1>2, <1>3, <1>4, Zenon

IsFrame(f) == f.path \in Seq(Name) /\ f.depth \in Depth \ {0}

(* Nothing of a directory further down is shown again. *)
LEMMA NotAgain ==
  ASSUME FileTree, NEW f, IsFrame(f), NEW path, Beyond(path, f), NEW e
  PROVE  <<path, e>> \notin Rest(f)
<1> SUFFICES ASSUME <<path, e>> \in Rest(f) PROVE FALSE
  OBVIOUS
<1>1. Len(f.path) \in Nat /\ f.path \in Seq(Name)
  BY DEF IsFrame
<1>2. Len(path) # Len(f.path)
  BY <1>1 DEF Beyond
<1>3. f.depth # -1 /\ \E n \in f.todo : <<path, e>> \in Into(f.path, n, f.depth - 1)
  BY <1>2, RestIs
<1>4. PICK n \in f.todo : <<path, e>> \in Into(f.path, n, f.depth - 1)
  BY <1>3
<1>5. f.depth - 1 \in Depth
  BY <1>3 DEF IsFrame, Depth
<1>6. PICK p, o : <<path, e>> = <<p, o>> /\ p[Len(f.path) + 1] = n
  BY <1>1, <1>4, <1>5, IntoFurther
<1> QED
  BY <1>6 DEF Beyond

LEMMA BeyondFurther ==
  ASSUME NEW f, IsFrame(f), NEW path \in Seq(Name), NEW n \in Name, Beyond(path, f)
  PROVE  Beyond(Append(path, n), f)
<1>1. Len(f.path) \in Nat /\ Len(path) \in Nat /\ Len(path) > Len(f.path)
  BY DEF IsFrame, Beyond
<1> DEFINE k == Len(f.path) + 1
           q == Append(path, n)
<1>2. k \in 1..Len(path) /\ Len(q) = Len(path) + 1
  BY <1>1
<1>3. q[k] = path[k]
  BY <1>2
<1> QED
  BY <1>1, <1>2, <1>3 DEF Beyond

-----------------------------------------------------------------------------
(* A step shows an entry, or moves what is left from one place to another: *)
(* from the call to its frame, from an entry to the call for it.           *)

(* The parts of the state that a listing works with have their types. *)
Well ==
  /\ FileTree
  /\ stack \in Seq(Frame)
  /\ \A i \in 1..Len(stack) : IsFrame(stack[i])
  /\ pc = "call" => call.path \in Seq(Name) /\ call.depth \in Depth
  /\ pc \in {"readdir", "lstat"} => stack # << >>
  /\ pc = "lstat" => Top.depth # -1

(* Where the listing is, before and after a step that leaves the tree. *)
Way == OnTheWay(pc, call, stack, entry, shown, unread, unseen, Expected)
WayNext == OnTheWay(pc', call', stack', entry', shown', unread', unseen', Expected)

(* What is left may only be dropped when a call that failed hides it. *)
LEMMA Drops ==
  ASSUME NEW sh, NEW un, NEW us, NEW left, NEW expected, Divided(sh, un, us, left, expected),
         NEW un2, NEW us2, NEW left2, un \subseteq un2, us \subseteq us2,
         \A x \in left2 : x \in left,
         \A x \in left : x \in left2 \/ Hides(un2, us2, x)
  PROVE  Divided(sh, un2, us2, left2, expected)
<1>1. \A x : Hides(un, us, x) => Hides(un2, us2, x)
  BY DEF Hides
<1> HIDE DEF Hides
<1> QED
  BY <1>1 DEF Divided

(* All that a directory has to show is below it. *)
LEMMA ExtendsPrefix ==
  ASSUME NEW q \in Seq(Name), NEW p, Extends(p, q)
  PROVE  IsPrefix(q, p)
<1>1. Len(q) \in Nat /\ Len(q) <= Len(p) /\ p \in Seq(Name) /\ \A i \in 1..Len(q) : p[i] = q[i]
  BY DEF Extends
<1>2. SubSeq(q, 1, Len(q)) = SubSeq(p, 1, Len(q))
  BY <1>1
<1> QED
  BY <1>1, <1>2 DEF IsPrefix

LEMMA PairsBelow ==
  ASSUME FileTree, NEW path \in Seq(Name), NEW depth \in Depth, NEW x \in Pairs(path, depth)
  PROVE  IsPrefix(path, x[1])
<1>1. PICK p \in DirsWithin(path, depth) : \E e \in Entries(p) : x = <<p, e>>
  BY PairsAre
<1>2. x[1] = p /\ Extends(p, path)
  BY <1>1, DirsExtend DEF Depth
<1> QED
  BY <1>2, ExtendsPrefix

LEMMA IntoBelow ==
  ASSUME FileTree, NEW path \in Seq(Name), NEW n, NEW depth \in Depth, NEW x \in Into(path, n, depth)
  PROVE  IsPrefix(Append(path, n), x[1])
<1>1. Descends(path, n) /\ x \in Pairs(Append(path, n), depth)
  BY DEF Into
<1>2. Append(path, n) \in Seq(Name)
  BY <1>1, OpensSeen
<1> QED
  BY <1>1, <1>2, PairsBelow

LEMMA RestsIs ==
  ASSUME NEW s, NEW x
  PROVE  x \in Rests(s) <=> \E i \in 1..Len(s) : x \in Rest(s[i])
BY DEF Rests

(* A call that is not made, or that ends, leaves what the others have left. *)
LEMMA NotMade ==
  ASSUME Way, pc = "call", pc' \in {"readdir", "done"}, UNCHANGED <<stack, shown>>,
         unread \subseteq unread', unseen' = unseen,
         \A x \in Pairs(call.path, call.depth) : Hides(unread', unseen', x)
  PROVE  WayNext
<1>1. Left(pc', call', stack', entry') = Rests(stack)
  BY DEF Left
<1>2. Left(pc, call, stack, entry) = Pairs(call.path, call.depth) \cup Rests(stack)
  BY DEF Left
<1>3. Apart(pc', call', stack', entry')
  BY DEF Way, OnTheWay, Apart
<1>4. Divided(shown, unread, unseen, Left(pc, call, stack, entry), Expected)
  BY DEF Way, OnTheWay
<1> HIDE DEF Hides
<1>5. /\ \A x \in Left(pc', call', stack', entry') : x \in Left(pc, call, stack, entry)
      /\ \A x \in Left(pc, call, stack, entry) :
             x \in Left(pc', call', stack', entry') \/ Hides(unread', unseen', x)
  BY <1>1, <1>2
<1>6. Divided(shown, unread', unseen', Left(pc', call', stack', entry'), Expected)
  BY <1>4, <1>5, Drops
<1> QED
  BY <1>3, <1>6 DEF WayNext, OnTheWay

LEMMA StopWay ==
  ASSUME Well, Way, StopAtDepth
  PROVE  WayNext
<1>1. Pairs(call.path, call.depth) = {}
  BY NoPairs DEF StopAtDepth, AtMaxDepth
<1> QED
  BY <1>1, NotMade DEF StopAtDepth, ReturnTo, ls, history, failures

LEMMA FailsWay ==
  ASSUME Well, Way, OpenDirFails
  PROVE  WayNext
<1>1. /\ pc = "call" /\ pc' \in {"readdir", "done"} /\ UNCHANGED <<stack, shown, unseen>>
      /\ unread' = unread \cup {call.path}
  BY DEF OpenDirFails, ReturnTo
<1>2. ASSUME NEW x \in Pairs(call.path, call.depth) PROVE Hides(unread', unseen', x)
  <2>1. IsPrefix(call.path, x[1])
    BY <1>1, PairsBelow DEF Well
  <2> QED
    BY <1>1, <2>1 DEF Hides
<1> QED
  BY <1>1, <1>2, NotMade

LEMMA OpenWay ==
  ASSUME Well, Way, OpenDir
  PROVE  WayNext
<1> DEFINE f == [path |-> call.path, dir |-> Opens(call.path), depth |-> call.depth,
                 todo |-> Dots \cup Children(Opens(call.path))]
           n == Len(stack)
<1>1. /\ pc = "call" /\ pc' = "readdir" /\ stack' = Append(stack, f)
      /\ UNCHANGED <<call, entry, shown, unread, unseen>> /\ CanOpen(call.path)
      /\ call.path \in Seq(Name) /\ call.depth \in Depth \ {0}
  BY DEF OpenDir, AtMaxDepth, Well, history, failures
<1>2. f.path = call.path /\ f.depth = call.depth /\ f.todo = Dots \cup Children(Opens(call.path))
  OBVIOUS
<1>3. FileTree /\ stack \in Seq(Frame)
  BY DEF Well
<1> HIDE DEF f
<1>4. n \in Nat /\ Len(stack') = n + 1 /\ stack'[n + 1] = f /\ \A i \in 1..n : stack'[i] = stack[i]
  <2>1. stack \in Seq(Frame \cup {f})
    BY <1>3
  <2> QED
    BY <1>1, <2>1
<1>5. Rest(f) = Pairs(call.path, call.depth)
  BY <1>1, <1>2, <1>3, OpenedRest
<1> HIDE DEF n
<1>6. Rests(stack') = Rest(f) \cup Rests(stack)
  <2> SUFFICES ASSUME NEW x PROVE x \in Rests(stack') <=> x \in Rest(f) \/ x \in Rests(stack)
    OBVIOUS
  <2>1. x \in Rests(stack') <=> \E i \in 1..n+1 : x \in Rest(stack'[i])
    BY <1>4, RestsIs
  <2>2. x \in Rests(stack) <=> \E i \in 1..n : x \in Rest(stack[i])
    BY RestsIs DEF n
  <2>3. \A i : i \in 1..n+1 <=> i \in 1..n \/ i = n + 1
    BY <1>4
  <2> QED
    BY <1>4, <2>1, <2>2, <2>3
<1>7. Left(pc', call', stack', entry') = Left(pc, call, stack, entry)
  BY <1>1, <1>5, <1>6 DEF Left
<1>8. Divided(shown, unread, unseen, Left(pc, call, stack, entry), Expected) /\ Apart(pc, call, stack, entry)
  BY DEF Way, OnTheWay
<1>9. Divided(shown', unread', unseen', Left(pc', call', stack', entry'), Expected)
  BY <1>1, <1>7, <1>8
<1>10. Apart(pc', call', stack', entry')
  <2> SUFFICES ASSUME NEW i \in 1..n+1
               PROVE  IsReading(stack'[i]) /\ \A j \in 1..i-1 : Beyond(stack'[i].path, stack'[j])
    BY <1>1, <1>4 DEF Apart
  <2>1. CASE i \in 1..n
    <3>1. \A j \in 1..i-1 : j \in 1..n
      BY <1>4, <2>1
    <3>2. IsReading(stack[i]) /\ \A j \in 1..i-1 : Beyond(stack[i].path, stack[j])
      BY <1>8, <2>1 DEF Apart, n
    <3> QED
      BY <1>4, <2>1, <3>1, <3>2
  <2>2. CASE i = n + 1
    <3>1. i - 1 = n /\ stack'[i] = f
      BY <1>4, <2>2
    <3>2. \A j \in 1..n : Beyond(f.path, stack[j])
      BY <1>1, <1>2, <1>8 DEF Apart, n
    <3>3. IsReading(f)
      BY <1>1, <1>2 DEF IsReading
    <3> QED
      BY <1>4, <3>1, <3>2, <3>3
  <2> QED
    BY <1>4, <2>1, <2>2
<1> QED
  BY <1>9, <1>10 DEF WayNext, OnTheWay

(* An entry that is read is taken from what its call has left, and with it *)
(* what is below it, when it is a directory to go on with.                 *)
LEMMA RestTaken ==
  ASSUME NEW f, NEW g, NEW e \in f.todo, NEW x,
         g.path = f.path, g.depth = f.depth, g.todo = f.todo \ {e}
  PROVE  x \in Rest(f) <=> \/ x \in Rest(g)
                           \/ e \in match /\ x = <<f.path, e>>
                           \/ f.depth # -1 /\ x \in Into(f.path, e, f.depth - 1)
<1> DEFINE Goes(n, y) == f.depth # -1 /\ y \in Into(f.path, n, f.depth - 1)
<1>1. x \in Rest(f) <=> \/ \E n \in match \cap f.todo : x = <<f.path, n>>
                        \/ \E n \in f.todo : Goes(n, x)
  BY RestIs
<1>2. x \in Rest(g) <=> \/ \E n \in match \cap g.todo : x = <<f.path, n>>
                        \/ \E n \in g.todo : Goes(n, x)
  BY RestIs
<1>3. x \in Rest(f) <=> x \in Rest(g) \/ (e \in match /\ x = <<f.path, e>>) \/ Goes(e, x)
  <2> HIDE DEF Goes
  <2>1. (\E n \in f.todo : Goes(n, x)) <=> Goes(e, x) \/ \E n \in g.todo : Goes(n, x)
    OBVIOUS
  <2>2. (\E n \in match \cap f.todo : x = <<f.path, n>>)
          <=> (e \in match /\ x = <<f.path, e>>) \/ \E n \in match \cap g.todo : x = <<f.path, n>>
    OBVIOUS
  <2> QED
    BY <1>1, <1>2, <2>1, <2>2
<1> QED
  BY <1>3

(* It is not shown again, by its call or by what is below it. *)
LEMMA TakenOnce ==
  ASSUME FileTree, NEW f, IsFrame(f), NEW g, NEW e,
         g.path = f.path, g.depth = f.depth, g.todo = f.todo \ {e}
  PROVE  /\ <<f.path, e>> \notin Rest(g)
         /\ f.depth # -1 => <<f.path, e>> \notin Into(f.path, e, f.depth - 1)
<1>1. ASSUME f.depth # -1, NEW n, <<f.path, e>> \in Into(f.path, n, f.depth - 1) PROVE FALSE
  <2>1. f.depth - 1 \in Depth /\ f.path \in Seq(Name)
    BY <1>1 DEF IsFrame, Depth
  <2>2. PICK p, o : <<f.path, e>> = <<p, o>> /\ Len(p) > Len(f.path)
    BY <1>1, <2>1, IntoFurther
  <2> QED
    BY <2>1, <2>2
<1>2. <<f.path, e>> \notin Rest(g)
  BY <1>1, RestIs
<1> QED
  BY <1>1, <1>2

(* . and .. are no directories to go on with. *)
LEMMA IntoDots ==
  ASSUME FileTree, NEW path \in Seq(Name), NEW depth \in Depth, NEW x \in Into(path, ".", depth)
  PROVE  FALSE
<1>1. "." \in Name
  BY IntoFurther
<1> QED
  BY <1>1, FilesAssumption

(* The stack with one entry less to come in the call on top. *)
LEMMA RemainingIs ==
  ASSUME Well, pc = "readdir", NEW e \in Top.todo
  PROVE  LET n == Len(stack)
             g == Remaining(e)[n]
         IN  /\ n \in Nat \ {0} /\ Len(Remaining(e)) = n
             /\ \A i \in 1..n-1 : Remaining(e)[i] = stack[i]
             /\ g.path = Top.path /\ g.depth = Top.depth /\ g.todo = Top.todo \ {e}
<1> DEFINE n == Len(stack)
           top == stack[n]
           less == [top EXCEPT !.todo = @ \ {e}]
<1>1. stack \in Seq(Frame) /\ n \in Nat \ {0}
  BY DEF Well
<1>2. n \in 1..n /\ top \in Frame
  BY <1>1
<1>3. less.path = top.path /\ less.depth = top.depth /\ less.todo = top.todo \ {e}
  BY <1>2 DEF Frame
<1>4. Remaining(e) = [stack EXCEPT ![n] = less]
  BY DEF Remaining
<1> HIDE DEF less
<1>5. Len(Remaining(e)) = n /\ Remaining(e)[n] = less /\ \A i \in 1..n-1 : Remaining(e)[i] = stack[i]
  BY <1>1, <1>2, <1>4
<1> QED
  BY <1>1, <1>3, <1>5 DEF Top

(* Nothing of what is read is left, on the way or above. *)
LEMMA NotLeft ==
  ASSUME Well, Way, pc = "readdir", NEW e \in Top.todo, NEW i \in 1..Len(stack), i # Len(stack)
  PROVE  <<Top.path, e>> \notin Rest(stack[i])
<1> DEFINE n == Len(stack)
<1>1. n \in Nat /\ i \in 1..n-1 /\ n \in 1..n /\ FileTree /\ IsFrame(stack[i])
  BY DEF Well
<1>2. Beyond(stack[n].path, stack[i])
  BY <1>1 DEF Way, OnTheWay, Apart
<1> QED
  BY <1>1, <1>2, NotAgain DEF Top

LEMMA ReadWay ==
  ASSUME Well, Way, NEW e \in Top.todo, pc = "readdir",
         stack' = Remaining(e), shown' = Displayed(e), entry' = e, UNCHANGED <<call, unread, unseen>>,
         pc' = IF GoesOn(e) THEN "lstat" ELSE "readdir", IsABag(shown)
  PROVE  WayNext
<1> DEFINE n == Len(stack)
           g == stack'[n]
           x == <<Top.path, e>>
           left == Left(pc, call, stack, entry)
           next == Left(pc', call', stack', entry')
           into == IF GoesOn(e) THEN Into(Top.path, e, Top.depth - 1) ELSE {}
<1>1. /\ n \in Nat \ {0} /\ n \in 1..n /\ n - 1 \in Nat /\ Len(stack') = n
      /\ \A i \in 1..n-1 : stack'[i] = stack[i]
      /\ g.path = Top.path /\ g.depth = Top.depth /\ g.todo = Top.todo \ {e}
  BY RemainingIs
<1>2. FileTree /\ IsFrame(Top) /\ Top = stack[n] /\ \A i \in 1..n : IsFrame(stack[i])
  BY <1>1 DEF Well, Top
<1> HIDE DEF g
<1>3. \A y : y \in left <=> \E i \in 1..n : y \in Rest(stack[i])
  BY RestsIs DEF Left
<1>4. \A y : y \in next <=> y \in into \/ (\E i \in 1..n-1 : y \in Rest(stack[i])) \/ y \in Rest(g)
  <2>1. next = into \cup Rests(stack')
    BY <1>1 DEF Left, g
  <2>2. \A y : y \in Rests(stack') <=> \E i \in 1..n : y \in Rest(stack'[i])
    BY <1>1, RestsIs
  <2>3. \A i : i \in 1..n <=> i \in 1..n-1 \/ i = n
    BY <1>1
  <2> HIDE DEF into, next
  <2>4. \A y : y \in Rests(stack') <=> (\E i \in 1..n-1 : y \in Rest(stack[i])) \/ y \in Rest(g)
    BY <1>1, <2>2, <2>3 DEF g
  <2> QED
    BY <2>1, <2>4
<1>5. \A y : y \in Rest(Top) <=> y \in Rest(g) \/ (e \in match /\ y = x) \/ y \in into
  <2> SUFFICES ASSUME NEW y PROVE y \in Rest(Top) <=> y \in Rest(g) \/ (e \in match /\ y = x) \/ y \in into
    OBVIOUS
  <2>1. y \in Rest(Top) <=> \/ y \in Rest(g)
                            \/ e \in match /\ y = x
                            \/ Top.depth # -1 /\ y \in Into(Top.path, e, Top.depth - 1)
    BY <1>1, RestTaken
  <2>2. Top.depth # -1 /\ y \in Into(Top.path, e, Top.depth - 1) => y \in into
    <3> SUFFICES ASSUME Top.depth # -1, y \in Into(Top.path, e, Top.depth - 1), e = "." PROVE FALSE
      BY DEF GoesOn, Dots
    <3>1. Top.depth - 1 \in Depth /\ Top.path \in Seq(Name)
      BY <1>2 DEF IsFrame, Depth
    <3> QED
      BY <1>2, <3>1, IntoDots
  <2>3. y \in into => Top.depth # -1 /\ y \in Into(Top.path, e, Top.depth - 1)
    BY DEF GoesOn
  <2> HIDE DEF into, x
  <2> QED
    BY <2>1, <2>2, <2>3
<1>6. x \notin Rest(g) /\ x \notin into
  <2>1. x \notin Rest(g) /\ (Top.depth # -1 => x \notin Into(Top.path, e, Top.depth - 1))
    BY <1>1, <1>2, TakenOnce
  <2> QED
    BY <2>1 DEF GoesOn
<1>7. \A i \in 1..n-1 : x \notin Rest(stack[i])
  BY <1>1, NotLeft
<1> HIDE DEF into, x, left, next
<1>8. \A y : y \in left <=> y \in next \/ (e \in match /\ y = x)
  <2>1. \A i : i \in 1..n <=> i \in 1..n-1 \/ i = n
    BY <1>1
  <2> HIDE DEF n
  <2>2. \A y : y \in left <=> (\E i \in 1..n-1 : y \in Rest(stack[i])) \/ y \in Rest(Top)
    BY <1>2, <1>3, <2>1
  <2> QED
    BY <1>4, <1>5, <2>2
<1>9. x \notin next
  BY <1>4, <1>6, <1>7
<1>10. Divided(shown, unread, unseen, left, Expected) /\ Apart(pc, call, stack, entry)
  BY DEF Way, OnTheWay, left
<1>11. Divided(shown', unread', unseen', next, Expected)
  <2>1. CASE e \notin match
    <3>1. shown' = shown
      BY <2>1 DEF Displayed
    <3>2. \A y : y \in left <=> y \in next
      BY <1>8, <2>1
    <3> QED
      BY <1>10, <3>1, <3>2 DEF Divided
  <2>2. CASE e \in match
    <3>1. x \notin DOMAIN shown /\ x \in Expected
      BY <1>8, <1>10, <2>2 DEF Divided
    <3>2. shown' = shown (+) SetToBag({x})
      BY <2>2 DEF Displayed, x
    <3>3. /\ DOMAIN shown' = (DOMAIN shown) \cup {x}
          /\ \A y \in DOMAIN shown : shown'[y] = shown[y] + (IF y = x THEN 1 ELSE 0)
          /\ x \notin DOMAIN shown => shown'[x] = 1
      <4> DEFINE b == SetToBag({x})
      <4>1. DOMAIN b = {x} /\ \A y \in {x} : b[y] = 1
        BY DEF SetToBag
      <4>2. \A y \in DOMAIN shown : shown[y] \in Nat
        BY DEF IsABag
      <4> HIDE DEF b
      <4>3. shown (+) b = [y \in (DOMAIN shown) \cup {x} |->
                             (IF y \in DOMAIN shown THEN shown[y] ELSE 0)
                           + (IF y \in {x} THEN b[y] ELSE 0)]
        BY <4>1 DEF (+)
      <4>4. \A y \in (DOMAIN shown) \cup {x} : shown'[y] =
              (IF y \in DOMAIN shown THEN shown[y] ELSE 0) + (IF y \in {x} THEN b[y] ELSE 0)
        BY <3>2, <4>3 DEF b
      <4>5. DOMAIN shown' = (DOMAIN shown) \cup {x}
        BY <3>2, <4>3 DEF b
      <4>6. shown'[x] = (IF x \in DOMAIN shown THEN shown[x] ELSE 0) + 1
        BY <4>1, <4>4
      <4> QED
        BY <4>1, <4>2, <4>4, <4>5, <4>6
    <3>4. \A y \in DOMAIN shown : shown[y] = 1 /\ y \notin left /\ y \in Expected
      BY <1>10 DEF Divided
    <3>5. \A y \in DOMAIN shown' : shown'[y] = 1 /\ y \notin next /\ y \in Expected
      <4> SUFFICES ASSUME NEW y \in DOMAIN shown' PROVE shown'[y] = 1 /\ y \notin next /\ y \in Expected
        OBVIOUS
      <4>1. CASE y = x
        BY <1>9, <3>1, <3>3, <4>1
      <4>2. CASE y # x
        BY <1>8, <3>3, <3>4, <4>2
      <4> QED
        BY <4>1, <4>2
    <3>6. \A y \in next : y \in Expected
      BY <1>8, <1>10 DEF Divided
    <3>7. \A y \in Expected : y \in next \/ y \in DOMAIN shown' \/ Hides(unread', unseen', y)
      BY <1>8, <1>10, <3>3 DEF Divided
    <3> QED
      BY <3>5, <3>6, <3>7 DEF Divided
  <2> QED
    BY <2>1, <2>2
<1>12. Apart(pc', call', stack', entry')
  <2>1. \A i \in 1..n : \A j \in 1..i-1 : Beyond(stack[i].path, stack[j])
    BY <1>10 DEF Apart
  <2>2. \A i \in 1..n : IsReading(stack[i])
    BY <1>10 DEF Apart
  <2>3. pc' # "call" /\ (pc' = "lstat" => entry' \notin stack'[Len(stack')].todo)
    BY <1>1 DEF g
  <2>4. \A i \in 1..n : IsReading(stack'[i])
    <3>1. IsReading(g)
      BY <1>1, <1>2, <2>2 DEF IsReading
    <3>2. \A i \in 1..n : i \in 1..n-1 \/ i = n
      BY <1>1
    <3> QED
      BY <1>1, <2>2, <3>1, <3>2 DEF g
  <2>5. ASSUME NEW i \in 1..n, NEW j \in 1..i-1 PROVE Beyond(stack'[i].path, stack'[j])
    <3>1. j \in 1..n-1 /\ (i \in 1..n-1 \/ i = n)
      BY <1>1
    <3>2. stack'[j] = stack[j] /\ stack'[i].path = stack[i].path
      BY <1>1, <1>2, <3>1 DEF g
    <3> QED
      BY <2>1, <3>2
  <2> QED
    BY <1>1, <2>3, <2>4, <2>5 DEF Apart
<1> QED
  BY <1>11, <1>12 DEF WayNext, OnTheWay, next

LEMMA LstatWay ==
  ASSUME Well, Way, Lstat, entry \in Name
  PROVE  WayNext
<1> DEFINE n == Len(stack)
           left == Left(pc, call, stack, entry)
           next == Left(pc', call', stack', entry')
<1>1. /\ n \in Nat \ {0} /\ n \in 1..n /\ FileTree /\ stack[n] = Top /\ stack[n].path \in Seq(Name)
      /\ \A i \in 1..n : IsFrame(stack[i])
  BY DEF Lstat, Well, Top, IsFrame
<1>2. pc = "lstat" /\ UNCHANGED <<stack, shown, unread, unseen>>
  BY DEF Lstat, history, failures
<1>3. left = Into(Top.path, entry, Top.depth - 1) \cup Rests(stack)
  BY <1>2 DEF Left, Top
<1>4. next = left
  <2>1. CASE Descends(Top.path, entry)
    <3>1. pc' = "call" /\ call'.path = Append(Top.path, entry) /\ call'.depth = Top.depth - 1
      BY <2>1 DEF Lstat
    <3>2. next = Pairs(call'.path, call'.depth) \cup Rests(stack)
      BY <1>2, <3>1 DEF Left
    <3> QED
      BY <1>3, <2>1, <3>1, <3>2 DEF Into
  <2>2. CASE ~Descends(Top.path, entry)
    <3>1. pc' = "readdir"
      BY <2>2 DEF Lstat
    <3>2. next = Rests(stack)
      BY <1>2, <3>1 DEF Left
    <3> QED
      BY <1>3, <2>2, <3>2 DEF Into
  <2> QED
    BY <2>1, <2>2
<1>5. Divided(shown, unread, unseen, left, Expected) /\ Apart(pc, call, stack, entry)
  BY DEF Way, OnTheWay
<1> HIDE DEF left, next
<1>6. Divided(shown', unread', unseen', next, Expected)
  BY <1>2, <1>4, <1>5
<1>7. Apart(pc', call', stack', entry')
  <2>1. \A i \in 1..n : IsReading(stack[i]) /\ \A j \in 1..i-1 : Beyond(stack[i].path, stack[j])
    BY <1>5 DEF Apart
  <2>2. entry \notin Top.todo
    BY <1>2, <1>5 DEF Apart, Top
  <2>3. ASSUME pc' = "call", NEW i \in 1..n PROVE Beyond(call'.path, stack[i])
    <3>1. call'.path = Append(Top.path, entry)
      BY <2>3 DEF Lstat
    <3>2. CASE i = n
      <4> DEFINE p == Top.path
                 k == Len(p) + 1
      <4>1. p \in Seq(Name) /\ Len(Append(p, entry)) = k /\ Append(p, entry)[k] = entry /\ Len(p) \in Nat
        BY <1>1
      <4> QED
        BY <1>1, <2>2, <3>1, <3>2, <4>1 DEF Beyond
    <3>3. CASE i # n
      <4>1. i \in 1..n-1
        BY <1>1, <3>3
      <4>2. Beyond(Top.path, stack[i]) /\ Top.path \in Seq(Name) /\ IsFrame(stack[i])
        BY <1>1, <2>1, <4>1
      <4> QED
        BY <3>1, <4>2, BeyondFurther
    <3> QED
      BY <3>2, <3>3
  <2>4. pc' \in {"call", "readdir"}
    BY DEF Lstat
  <2> QED
    BY <1>2, <2>1, <2>3, <2>4 DEF Apart
<1> QED
  BY <1>6, <1>7 DEF WayNext, OnTheWay, next

(* An lstat that fails hides what is below its entry. *)
LEMMA LstatFailsWay ==
  ASSUME Well, Way, LstatFails
  PROVE  WayNext
<1>1. /\ pc = "lstat" /\ pc' = "readdir" /\ UNCHANGED <<stack, shown, unseen>>
      /\ unread' = unread \cup {Append(Top.path, entry)}
  BY DEF LstatFails, ls
<1>2. Left(pc, call, stack, entry) = Into(Top.path, entry, Top.depth - 1) \cup Rests(stack)
  BY <1>1 DEF Left, Top
<1>3. Left(pc', call', stack', entry') = Rests(stack)
  BY <1>1 DEF Left
<1>4. ASSUME NEW x \in Into(Top.path, entry, Top.depth - 1) PROVE Hides(unread', unseen', x)
  <2>1. Len(stack) \in 1..Len(stack)
    BY <1>1 DEF Well
  <2>2. IsFrame(Top) /\ FileTree /\ Top.depth # -1
    BY <1>1, <2>1 DEF Well, Top
  <2>3. Top.path \in Seq(Name) /\ Top.depth - 1 \in Depth
    BY <2>2 DEF IsFrame, Depth
  <2>4. IsPrefix(Append(Top.path, entry), x[1])
    BY <2>2, <2>3, IntoBelow
  <2> QED
    BY <1>1, <2>4 DEF Hides
<1>5. Divided(shown, unread, unseen, Left(pc, call, stack, entry), Expected) /\ Apart(pc, call, stack, entry)
  BY DEF Way, OnTheWay
<1>6. Divided(shown, unread', unseen', Left(pc', call', stack', entry'), Expected)
  <2> HIDE DEF Hides
  <2>1. /\ \A x \in Left(pc', call', stack', entry') : x \in Left(pc, call, stack, entry)
        /\ \A x \in Left(pc, call, stack, entry) :
               x \in Left(pc', call', stack', entry') \/ Hides(unread', unseen', x)
    BY <1>2, <1>3, <1>4
  <2>2. unread \subseteq unread' /\ unseen \subseteq unseen'
    BY <1>1
  <2> QED
    BY <1>5, <2>1, <2>2, Drops
<1>7. Apart(pc', call', stack', entry')
  BY <1>1, <1>5 DEF Apart
<1> QED
  BY <1>1, <1>6, <1>7 DEF WayNext, OnTheWay

(* A call that ends has nothing left but what a readdir that failed hides. *)
LEMMA LeaveWay ==
  ASSUME Well, Way, LeaveDir, unread \subseteq unread', unseen \subseteq unseen',
         \A x \in Rest(Top) : Hides(unread', unseen', x)
  PROVE  WayNext
<1> DEFINE n == Len(stack)
           m == n - 1
<1>1. /\ pc = "readdir" /\ pc' \in {"done", "readdir"}
      /\ UNCHANGED <<call, entry, shown>> /\ stack' = Front(stack)
  BY DEF LeaveDir, ReturnTo
<1>2. n \in Nat \ {0} /\ m \in Nat /\ m + 1 = n /\ n \in 1..n /\ stack \in Seq(Frame)
  BY <1>1 DEF Well
<1>3. Len(stack') = m /\ \A i \in 1..m : stack'[i] = stack[i]
  BY <1>1, <1>2 DEF Front
<1>4. \A x : x \in Rests(stack) <=> x \in Rests(stack') \/ x \in Rest(Top)
  <2> SUFFICES ASSUME NEW x PROVE x \in Rests(stack) <=> x \in Rests(stack') \/ x \in Rest(Top)
    OBVIOUS
  <2>1. x \in Rests(stack') <=> \E i \in 1..m : x \in Rest(stack'[i])
    BY <1>3, RestsIs
  <2>2. x \in Rests(stack) <=> \E i \in 1..n : x \in Rest(stack[i])
    BY RestsIs
  <2>3. \A i : i \in 1..n <=> i \in 1..m \/ i = n
    BY <1>2
  <2>4. Top = stack[n]
    BY DEF Top
  <2> HIDE DEF m, n
  <2> QED
    BY <1>3, <2>1, <2>2, <2>3, <2>4
<1>5. /\ Left(pc', call', stack', entry') = Rests(stack')
      /\ Left(pc, call, stack, entry) = Rests(stack)
  BY <1>1 DEF Left
<1>7. Divided(shown, unread, unseen, Left(pc, call, stack, entry), Expected) /\ Apart(pc, call, stack, entry)
  BY DEF Way, OnTheWay
<1>6. /\ \A x \in Left(pc', call', stack', entry') : x \in Left(pc, call, stack, entry)
      /\ \A x \in Left(pc, call, stack, entry) :
             x \in Left(pc', call', stack', entry') \/ Hides(unread', unseen', x)
  BY <1>4, <1>5
<1>8. Divided(shown, unread', unseen', Left(pc', call', stack', entry'), Expected)
  <2> HIDE DEF Hides
  <2> QED
    BY <1>6, <1>7, Drops
<1>9. Apart(pc', call', stack', entry')
  <2>1. \A i \in 1..n : IsReading(stack[i]) /\ \A j \in 1..i-1 : Beyond(stack[i].path, stack[j])
    BY <1>7 DEF Apart
  <2>2. \A i \in 1..m : i \in 1..n /\ stack'[i] = stack[i] /\ \A j \in 1..i-1 : stack'[j] = stack[j]
    BY <1>2, <1>3
  <2> QED
    BY <1>1, <1>3, <2>1, <2>2 DEF Apart
<1> QED
  BY <1>1, <1>8, <1>9 DEF WayNext, OnTheWay

LEMMA CloseWay ==
  ASSUME Well, Way, CloseDir
  PROVE  WayNext
<1>1. LeaveDir /\ Top.todo = {} /\ UNCHANGED <<unread, unseen>>
  BY DEF CloseDir, failures
<1>2. \A x : x \notin Rest(Top)
  BY <1>1, RestIs
<1> QED
  BY <1>1, <1>2, LeaveWay

(* A readdir that fails hides what was to come. *)
LEMMA ReadDirFailsWay ==
  ASSUME Well, Way, ReadDirFails
  PROVE  WayNext
<1>1. /\ LeaveDir /\ pc = "readdir"
      /\ unseen' = unseen \cup ({Top.path} \X Top.todo)
      /\ unread' = unread \cup {Append(Top.path, e) : e \in Top.todo}
  BY DEF ReadDirFails, LeaveDir
<1>2. Len(stack) \in 1..Len(stack)
  BY <1>1 DEF Well
<1>3. IsFrame(Top) /\ FileTree
  BY <1>2 DEF Well, Top
<1>4. ASSUME NEW x \in Rest(Top) PROVE Hides(unread', unseen', x)
  <2>1. CASE \E e \in match \cap Top.todo : x = <<Top.path, e>>
    BY <1>1, <2>1 DEF Hides
  <2>2. ASSUME Top.depth # -1, NEW n \in Top.todo, x \in Into(Top.path, n, Top.depth - 1)
        PROVE  Hides(unread', unseen', x)
    <3>1. Top.path \in Seq(Name) /\ Top.depth - 1 \in Depth
      BY <1>3, <2>2 DEF IsFrame, Depth
    <3>2. IsPrefix(Append(Top.path, n), x[1])
      BY <1>3, <2>2, <3>1, IntoBelow
    <3>3. Append(Top.path, n) \in unread'
      BY <1>1
    <3> QED
      BY <3>2, <3>3 DEF Hides
  <2> QED
    BY <2>1, <2>2, RestIs
<1> QED
  BY <1>1, <1>4, LeaveWay

(* An entry to come is still there as long as nothing changes. *)
LEMMA NoneMissed ==
  ASSUME Well, Way, ReadDirMisses
  PROVE  FALSE
<1>1. PICK e \in Top.todo \ Dots : kind[e] = "absent"
  BY DEF ReadDirMisses
<1>2. Len(stack) \in 1..Len(stack)
  BY DEF ReadDirMisses, Well
<1>3. Top.todo \subseteq Dots \cup Children(Opens(Top.path))
  BY <1>2 DEF Way, OnTheWay, Apart, IsReading, Top
<1> QED
  BY <1>1, <1>3 DEF Children

(* When ls begins, all is left. *)
LEMMA LsWay ==
  ASSUME shown = EmptyBag, stack = << >>, NEW path, NEW depth, NEW filter, Ls(path, depth, filter)
  PROVE  OnTheWay(pc, call, stack, entry, shown, unread, unseen, Expected)'
<1>1. pc' = "call" /\ call' = asked' /\ stack' = << >> /\ shown' = EmptyBag
  BY DEF Ls
<1>2. Expected' = Pairs(call.path, call.depth)'
  BY <1>1 DEF Expected, Pairs, Entries
<1>3. Left(pc, call, stack, entry)' = Pairs(call.path, call.depth)'
  BY <1>1 DEF Left, Rests
<1>4. DOMAIN shown' = {}
  BY <1>1 DEF EmptyBag, SetToBag
<1>5. Apart(pc, call, stack, entry)'
  BY <1>1 DEF Apart
<1>6. Divided(shown, unread, unseen, Left(pc, call, stack, entry), Expected)'
  <2>1. Left(pc, call, stack, entry)' = Expected'
    BY <1>2, <1>3
  <2> QED
    BY <1>4, <2>1 DEF Divided
<1> QED
  BY <1>5, <1>6 DEF OnTheWay

(* At the end nothing is left. *)
LEMMA AtTheEnd ==
  ASSUME Way, stack = << >>, pc = "done", IsABag(shown)
  PROVE  /\ shown \sqsubseteq SetToBag(Expected)
         /\ \A x \in Expected \ BagToSet(shown) : Missed(x)
         /\ unread = {} /\ unseen = {} => shown = SetToBag(Expected)
<1>1. \A x : x \notin Left(pc, call, stack, entry)
  BY DEF Left, Rests
<1>2. \A x \in DOMAIN shown : shown[x] = 1 /\ x \in Expected
  BY DEF Way, OnTheWay, Divided
<1>3. \A x \in Expected : x \in DOMAIN shown \/ Hides(unread, unseen, x)
  BY <1>1 DEF Way, OnTheWay, Divided
<1>4. shown = [x \in DOMAIN shown |-> shown[x]]
  BY DEF IsABag
<1> DEFINE all == SetToBag(Expected)
<1>5. all = [x \in Expected |-> 1]
  BY DEF SetToBag
<1> HIDE DEF all
<1>6. shown \sqsubseteq all
  BY <1>2, <1>5 DEF \sqsubseteq
<1>7. \A x \in Expected \ BagToSet(shown) : Missed(x)
  BY <1>3 DEF BagToSet, Missed, Hides
<1>8. ASSUME unread = {}, unseen = {} PROVE shown = all
  <2>1. DOMAIN shown = Expected
    BY <1>2, <1>3, <1>8 DEF Hides
  <2>2. shown = [x \in Expected |-> 1]
    BY <1>2, <1>4, <2>1
  <2> QED
    BY <1>5, <2>2
<1> QED
  BY <1>6, <1>7, <1>8 DEF all

(* Nothing is hidden before a call has failed. *)
Told == errors = 0 /\ silent = 0 => unread = {} /\ unseen = {}

LEMMA StepTold == TInv /\ Told /\ [Next]_vars => Told'
<1> SUFFICES ASSUME TInv, Told, [Next]_vars PROVE Told'
  OBVIOUS
<1>0. errors \in Nat /\ silent \in Nat
  BY DEF TInv, TypeOK
<1>1. ASSUME UNCHANGED <<errors, failures>> PROVE Told'
  BY <1>1 DEF Told, failures
<1>2. CASE UNCHANGED vars
  BY <1>1, <1>2 DEF vars, ls, history
<1>3. ASSUME NEW path, CatOrWc(path) \/ CatOrWcFails(path) \/ Cd(path) \/ CdUp
      PROVE  Told'
  BY <1>1, <1>3 DEF CatOrWc, CatOrWcFails, Cd, CdUp, vars, ls, history
<1>4. ASSUME NEW path, NEW depth, NEW filter, Ls(path, depth, filter) PROVE Told'
  BY <1>1, <1>4 DEF Ls
<1>5. CASE StopAtDepth \/ OpenDir \/ ReadDir \/ ReadDirMisses \/ Lstat \/ CloseDir
  BY <1>1, <1>5 DEF StopAtDepth, OpenDir, ReadDir, ReadDirMisses, Lstat, CloseDir, LeaveDir,
                    ls, history
<1>6. CASE OpenDirFails
  BY <1>0, <1>6 DEF OpenDirFails, Reported, Told
<1>7. CASE LstatFails \/ ReadDirFails
  BY <1>0, <1>7 DEF LstatFails, ReadDirFails, Told
<1>8. CASE Done
  BY <1>8 DEF Done, Told
<1>9. ASSUME NEW n, NEW k, Change(n, k) PROVE Told'
  BY <1>1, <1>9 DEF Change
<1> QED
  BY <1>2, <1>3, <1>4, <1>5, <1>6, <1>7, <1>8, <1>9 DEF Next, User, Listing

-----------------------------------------------------------------------------
(* The invariant, step by step.                                            *)
LEMMA AlwaysWell ==
  ASSUME TInv, StackInv, DepthInv
  PROVE  Well
<1> DEFINE n == Len(stack)
<1>1. FileTree /\ stack \in Seq(Frame) /\ n \in Nat
  BY DEF TInv, TypeOK, FileTree
<1>2. \A i \in 1..n : stack[i].depth \in Depth \ {0}
  <2> SUFFICES ASSUME NEW i \in 1..n PROVE stack[i].depth \in Depth \ {0}
    OBVIOUS
  <2>1. stack[i].depth = asked.depth - i + 1 /\ stack[i].depth # 0 /\ asked.depth \in Nat \cup {-1}
    BY DEF DepthInv
  <2>2. CASE asked.depth = -1
    <3>1. i = 1
      BY <1>1, <2>2 DEF DepthInv
    <3> QED
      BY <2>1, <2>2, <3>1 DEF Depth
  <2>3. CASE asked.depth # -1
    <3>1. asked.depth \in Nat /\ n <= asked.depth
      BY <2>1, <2>3 DEF DepthInv
    <3> QED
      BY <1>1, <2>1, <3>1 DEF Depth
  <2> QED
    BY <2>2, <2>3
<1>3. \A i \in 1..n : IsFrame(stack[i])
  <2>1. ASSUME NEW i \in 1..n PROVE stack[i].path \in Seq(Name)
    <3>1. stack[i] \in Frame
      BY <1>1
    <3> QED
      BY <3>1 DEF Frame
  <2> QED
    BY <1>2, <2>1 DEF IsFrame
<1>4. pc = "call" => call.path \in Seq(Name) /\ call.depth \in Depth
  <2> SUFFICES ASSUME pc = "call" PROVE call.path \in Seq(Name) /\ call.depth \in Depth
    OBVIOUS
  <2>1. call.path \in Seq(Name)
    BY DEF TInv, TypeOK
  <2>2. /\ call.depth = asked.depth - n /\ asked.depth \in Nat \cup {-1}
        /\ asked.depth = -1 => n = 0
        /\ asked.depth >= 0 => n <= asked.depth
    BY <1>1 DEF DepthInv
  <2> QED
    BY <1>1, <2>1, <2>2 DEF Depth
<1>5. pc = "lstat" => stack # << >> /\ Top.depth # -1
  <2> SUFFICES ASSUME pc = "lstat" PROVE stack # << >> /\ Top.depth # -1
    OBVIOUS
  <2>1. stack # << >> /\ asked.depth \in Nat \cup {-1} /\ asked.depth # -1
    BY DEF TInv, TypeOK, DepthInv
  <2>2. n \in 1..n /\ n <= asked.depth
    BY <1>1, <2>1 DEF DepthInv
  <2>3. stack[n].depth = asked.depth - n + 1
    BY <2>2 DEF DepthInv
  <2> QED
    BY <1>1, <2>1, <2>2, <2>3 DEF Top
<1> QED
  BY <1>1, <1>3, <1>4, <1>5 DEF Well, TInv, TypeOK

LEMMA InitList == Init => ListInv
<1> SUFFICES ASSUME Init PROVE ListInv
  OBVIOUS
<1> QED
  BY DEF Init, ListInv

(* A step of the listing that leads on. *)
LEMMA WayOn ==
  ASSUME TInv, StackInv, DepthInv, Way, Listing, ~Done
  PROVE  WayNext
<1>1. Well /\ IsABag(shown)
  BY AlwaysWell DEF TInv, TypeOK
<1>2. CASE StopAtDepth
  BY <1>1, <1>2, StopWay
<1>3. CASE OpenDir
  BY <1>1, <1>3, OpenWay
<1>4. CASE OpenDirFails
  BY <1>1, <1>4, FailsWay
<1>5. CASE ReadDir
  <2>1. PICK e \in Top.todo : /\ shown' = Displayed(e) /\ entry' = e /\ stack' = Remaining(e)
                              /\ pc' = IF GoesOn(e) THEN "lstat" ELSE "readdir"
    BY <1>5 DEF ReadDir
  <2>2. pc = "readdir" /\ UNCHANGED <<call, unread, unseen>>
    BY <1>5 DEF ReadDir, history, failures
  <2> QED
    BY <1>1, <2>1, <2>2, ReadWay
<1>6. CASE ReadDirMisses
  BY <1>1, <1>6, NoneMissed
<1>7. CASE Lstat
  <2>1. entry \in Name
    BY <1>7 DEF Lstat, TInv
  <2> QED
    BY <1>1, <1>7, <2>1, LstatWay
<1>8. CASE LstatFails
  BY <1>1, <1>8, LstatFailsWay
<1>9. CASE CloseDir
  BY <1>1, <1>9, CloseWay
<1>10. CASE ReadDirFails
  BY <1>1, <1>10, ReadDirFailsWay
<1> QED
  BY <1>2, <1>3, <1>4, <1>5, <1>6, <1>7, <1>8, <1>9, <1>10 DEF Listing

LEMMA StepList == TInv /\ StackInv /\ DepthInv /\ ListInv /\ [Next]_vars => ListInv'
<1> SUFFICES ASSUME TInv, StackInv, DepthInv, ListInv, [Next]_vars PROVE ListInv'
  OBVIOUS
<1>1. CASE UNCHANGED vars
  <2>1. UNCHANGED <<kind, cwd, match, asked, pc, call, stack, entry, shown, unread, unseen, steady>>
    BY <1>1 DEF vars, tree, ls, history, failures
  <2>2. Expected' = Expected /\ (OnTheWay(pc, call, stack, entry, shown, unread, unseen, Expected)'
          = OnTheWay(pc', call', stack', entry', shown', unread', unseen', Expected))
    BY <2>1, SameExpected, SameWay
  <2>3. OnTheWay(pc', call', stack', entry', shown', unread', unseen', Expected)
          = OnTheWay(pc, call, stack, entry, shown, unread, unseen, Expected)
    BY <2>1
  <2> QED
    BY <2>1, <2>2, <2>3 DEF ListInv
<1>2. ASSUME NEW path, CatOrWc(path) \/ CatOrWcFails(path) \/ Cd(path) \/ CdUp
      PROVE  ListInv'
  <2>1. pc' = "prompt" /\ pc = "prompt" /\ shown' = shown
    BY <1>2 DEF CatOrWc, CatOrWcFails, Cd, CdUp, vars, ls
  <2> QED
    BY <2>1 DEF ListInv
<1>3. ASSUME NEW path, NEW depth, NEW filter, Ls(path, depth, filter)
      PROVE  ListInv'
  <2>1. shown = EmptyBag /\ stack = << >> /\ pc' = "call"
    BY <1>3 DEF Ls, ListInv, StackInv
  <2>2. OnTheWay(pc, call, stack, entry, shown, unread, unseen, Expected)'
    BY <1>3, <2>1, LsWay
  <2> QED
    BY <2>1, <2>2 DEF ListInv
<1>4. CASE Listing /\ ~Done
  <2>1. /\ pc # "prompt" /\ pc' # "prompt"
        /\ UNCHANGED <<kind, cwd, match, asked, steady>>
    BY <1>4 DEF Listing, StopAtDepth, OpenDir, OpenDirFails, ReadDir, ReadDirMisses, Lstat,
                LstatFails, CloseDir, ReadDirFails, LeaveDir, ReturnTo, tree, ls, history
  <2>2. CASE ~steady
    BY <2>1, <2>2 DEF ListInv
  <2>3. CASE steady
    <3>1. Way
      BY <2>1, <2>3 DEF ListInv, Way
    <3>2. WayNext
      BY <1>4, <3>1, WayOn
    <3>3. OnTheWay(pc, call, stack, entry, shown, unread, unseen, Expected)'
      BY <2>1, <3>2, SameWay DEF WayNext
    <3> QED
      BY <2>1, <3>3 DEF ListInv
  <2> QED
    BY <2>2, <2>3
<1>5. CASE Done
  BY <1>5 DEF Done, ListInv
<1>6. ASSUME NEW n, NEW k, Change(n, k) PROVE ListInv'
  BY <1>6 DEF Change, ListInv
<1> QED
  BY <1>1, <1>2, <1>3, <1>4, <1>5, <1>6 DEF Next, User

(***************************************************************************)
(* ListsAll: in a tree that stays as it is, ls shows no entry twice and    *)
(* none that is not there; an entry it does not show is behind a readdir   *)
(* that failed, or below a directory that could not be looked at or        *)
(* opened; and it shows every one when no call has failed.                 *)
(***************************************************************************)
THEOREM ListsAllHolds == Spec => []ListsAll
<1> DEFINE Inv == TInv /\ StackInv /\ DepthInv /\ ListInv /\ Told
<1>1. Init => Inv
  <2>1. Init => Told
    BY DEF Init, Told
  <2> QED
    BY <2>1, InitType, InitStack, InitDepth, InitList
<1>2. Inv /\ [Next]_vars => Inv'
  BY StepType, StepStack, StepDepth, StepList, StepTold
<1>3. Inv => ListsAll
  <2> SUFFICES ASSUME Inv, pc = "done", steady
               PROVE  /\ shown \sqsubseteq SetToBag(Expected)
                      /\ \A x \in Expected \ BagToSet(shown) : Missed(x)
                      /\ errors = 0 /\ silent = 0 => shown = SetToBag(Expected)
    BY DEF ListsAll
  <2>1. Way
    BY DEF ListInv, Way
  <2>2. stack = << >> /\ IsABag(shown)
    BY DEF StackInv, TInv, TypeOK
  <2>3. errors = 0 /\ silent = 0 => unread = {} /\ unseen = {}
    BY DEF Told
  <2> QED
    BY <2>1, <2>2, <2>3, AtTheEnd
<1> QED
  BY <1>1, <1>2, <1>3, PTL DEF Spec
===============================================================================
