------------------------------- MODULE MyshFiles -------------------------------
(***************************************************************************)
(* The builtins of mysh that use files: ls with list_directory, cat, wc    *)
(* and cd of builtins.c, which are the same in milestones 3 and 4, and     *)
(* the descriptors the shell has left.  Another process changes the        *)
(* directory tree at any time, also between the readdir, lstat and opendir *)
(* of one listing.                                                         *)
(*                                                                         *)
(* A path is a sequence of names below the working directory, whose text   *)
(* fits the 1024 bytes of full_path.  Every name has one place in the tree,*)
(* where it is a directory, a file, a link to LinkTarget, or absent.       *)
(***************************************************************************)
EXTENDS Integers, SequencesExt

CONSTANTS
  Name,         \* the names in the tree
  Root,         \* the name of the directory the shell starts in
  Parent,       \* the directory each name is in; "none" for the root
  Start,        \* what each name is at first
  LinkTarget,   \* the directory every link leads to
  Depths,       \* the depths the user may give, -1 for no --rec
  Filters,      \* the sets of entries a filter may let through
  MaxFds,       \* descriptors the process may open (RLIMIT_NOFILE less three)
  MaxChanges,   \* bound: the other process changes the tree so many times
  MaxSilent     \* bound: so many calls of one ls fail without a message

Kinds == {"dir", "file", "link", "absent"}

ASSUME FilesAssumption ==
  /\ Root \in Name
  /\ Name \cap {"none", "."} = {}
  /\ Parent \in [Name -> Name \cup {"none"}]
  /\ Start \in [Name -> Kinds]
  /\ LinkTarget \in Name
  /\ Depths \subseteq Nat \cup {-1}
  /\ \A filter \in Filters : filter \subseteq Name \cup {"."}
  /\ MaxFds \in Nat
  /\ MaxChanges \in Nat
  /\ MaxSilent \in Nat

VARIABLES
  kind,      \* what each name is now
  changes,   \* how often the tree has changed
  cwd,       \* the working directory
  leaked,    \* files that cat and wc have left open
  open,      \* descriptors in use
  pc,        \* "prompt", where list_directory is, or "done" when ls has ended
  call,      \* the arguments of the call of list_directory being made
  stack,     \* the calls in progress: path, directory, depth, entries to come
  entry,     \* the entry that readdir returned last
  match,     \* the entries this ls shows
  shown,     \* how often it has shown each <<path, entry>>
  errors,    \* how many messages "Invalid path" it has shown
  asked,     \* history: the path and depth given to this ls
  steady,    \* history: the tree has not changed since this ls began
  silent,    \* history: how many calls of this ls failed without a message
  unread,    \* history: paths whose opendir or lstat failed, or was not reached
  unseen     \* history: <<path, entry>> behind a readdir that failed

tree == <<kind, changes>>
ls == <<call, stack, entry, match, shown, errors>>
failures == <<silent, unread, unseen>>
history == <<asked, steady, failures>>
vars == <<tree, cwd, leaked, open, pc, ls, history>>

-----------------------------------------------------------------------------
(* The file system.                                                        *)

Children(d) == {n \in Name : Parent[n] = d /\ kind[n] # "absent"}

Follow(n) == IF n \in Name /\ kind[n] = "link" THEN LinkTarget ELSE n

IsDir(n) == n \in Name /\ kind[n] = "dir"

Lookup(d, n) == IF d \in Name /\ n \in Children(d) THEN n ELSE "none"

(* What opendir opens, every link followed; the working directory stays    *)
(* one if it is removed.                                                   *)
Opens(path) ==
  LET to[i \in 0..Len(path)] ==
        IF i = 0 THEN cwd ELSE Follow(Lookup(to[i-1], path[i]))
  IN  to[Len(path)]

(* The name n in the directory that path leads to, not followed (lstat).   *)
At(path, n) == Lookup(Opens(path), n)

CanOpen(path) == path = << >> \/ IsDir(Opens(path))

(* What fopen opens to read: a directory too, no link that leads nowhere.  *)
Readable(path) == Opens(path) \in {n \in Name : kind[n] \in {"dir", "file"}}

(* Everything below n, itself included. *)
Below(n) ==
  LET up[k \in 0 .. Cardinality(Name)] ==
        IF k = 0 THEN {n}
        ELSE LET u == up[k-1] IN u \cup {m \in Name : Parent[m] \in u}
  IN  up[Cardinality(Name)]

(***************************************************************************)
(* The other process removes, makes or replaces a name.  What was below it *)
(* goes.  A directory being read may or may not show a name made meanwhile.*)
(* A directory in use is not made anew under its name: it would be another.*)
(***************************************************************************)
Change(n, k) ==
  /\ changes < MaxChanges
  /\ n # Root
  /\ kind[n] # k
  /\ IsDir(Parent[n])
  /\ k = "dir" => n \notin {cwd} \cup {stack[i].dir : i \in DOMAIN stack}
  /\ LET gone == Below(n)
     IN  kind' = [m \in Name |-> IF m = n THEN k
                                ELSE IF m \in gone THEN "absent" ELSE kind[m]]
  /\ changes' = changes + 1
  /\ \E seen \in SUBSET {i \in DOMAIN stack : stack[i].dir = Parent[n]} :
       stack' = [i \in DOMAIN stack |->
                   IF i \in seen THEN [stack[i] EXCEPT !.todo = @ \cup {n}] ELSE stack[i]]
  /\ steady' = (pc = "prompt")
  /\ UNCHANGED <<cwd, leaked, open, pc, call, entry, match, shown, errors, asked, failures>>

-----------------------------------------------------------------------------
(* cat, wc and cd.  A definition Name_Change differs from the code as a    *)
(* bug would; it only serves to show that a property notices.              *)

(* Neither closes what it has opened. *)
LeftOpen == 1

CatOrWc(path) ==
  /\ pc = "prompt"
  /\ Readable(path)
  /\ open < MaxFds
  /\ leaked' = leaked + LeftOpen
  /\ open' = open + LeftOpen
  /\ UNCHANGED <<tree, cwd, pc, ls, history>>

(* Without a file or a descriptor, or without permission. *)
CatOrWcFails(path) ==
  /\ pc = "prompt"
  /\ UNCHANGED vars

Cd(path) ==
  /\ pc = "prompt"
  /\ CanOpen(path)
  /\ cwd' = Opens(path)
  /\ UNCHANGED <<tree, leaked, open, pc, ls, history>>

CdUp ==
  /\ pc = "prompt"
  /\ Parent[cwd] # "none"
  /\ kind[cwd] = "dir"
  /\ cwd' = Parent[cwd]
  /\ UNCHANGED <<tree, leaked, open, pc, ls, history>>

-----------------------------------------------------------------------------
(* ls: bn_ls calls list_directory(path, depth, filter).                    *)

(* . and .. are treated alike: one entry stands for both. *)
Dots == {"."}

Ls(path, depth, filter) ==
  /\ pc = "prompt"
  /\ call' = [path |-> path, depth |-> depth]
  /\ match' = filter
  /\ pc' = "call"
  /\ asked' = call'
  /\ UNCHANGED <<tree, cwd, leaked, open, stack, entry, shown, errors, steady, failures>>

Top == stack[Len(stack)]

(* list_directory returns to the call that s ends with, or to bn_ls.       *)
ReturnTo_Falls(s) == "readdir"
ReturnTo(s) == IF s = << >> THEN "done" ELSE "readdir"

AtMaxDepth_Never(depth) == FALSE
AtMaxDepth(depth) == depth = 0

StopAtDepth ==
  /\ pc = "call"
  /\ AtMaxDepth(call.depth)
  /\ pc' = ReturnTo(stack)
  /\ UNCHANGED <<tree, cwd, leaked, open, ls, history>>

OpenDir ==
  /\ pc = "call"
  /\ ~AtMaxDepth(call.depth)
  /\ CanOpen(call.path)
  /\ open < MaxFds
  /\ open' = open + 1
  /\ stack' = Append(stack, [path |-> call.path, dir |-> Opens(call.path),
                             depth |-> call.depth,
                             todo |-> Dots \cup Children(Opens(call.path))])
  /\ pc' = "readdir"
  /\ UNCHANGED <<tree, cwd, leaked, call, entry, match, shown, errors, history>>

(* The message is shown, and the caller ignores the result.  opendir fails *)
(* without a directory or a descriptor, and without permission or memory.  *)
Reported_Silent == 0
Reported == 1

OpenDirFails ==
  /\ pc = "call"
  /\ ~AtMaxDepth(call.depth)
  /\ errors' = errors + Reported
  /\ unread' = unread \cup {call.path}
  /\ pc' = ReturnTo(stack)
  /\ UNCHANGED <<tree, cwd, leaked, open, call, stack, entry, match, shown, asked, steady,
                 silent, unseen>>

Remaining_Rewinds(e) == stack
Remaining(e) == [stack EXCEPT ![Len(stack)].todo = @ \ {e}]

Displayed(e) ==
  IF e \in match THEN shown (+) SetToBag({<<Top.path, e>>}) ELSE shown

(* A depth of -1 goes no further than this directory, nor do . and .. *)
GoesOn(e) == Top.depth # -1 /\ e \notin Dots

ReadDir ==
  /\ pc = "readdir"
  /\ \E e \in Top.todo :
       /\ shown' = Displayed(e)
       /\ entry' = e
       /\ stack' = Remaining(e)
       /\ pc' = IF GoesOn(e) THEN "lstat" ELSE "readdir"
  /\ UNCHANGED <<tree, cwd, leaked, open, call, match, errors, history>>

(* readdir may miss an entry that was removed. *)
ReadDirMisses ==
  /\ pc = "readdir"
  /\ \E e \in Top.todo \ Dots :
       /\ kind[e] = "absent"
       /\ stack' = Remaining(e)
  /\ UNCHANGED <<tree, cwd, leaked, open, pc, call, entry, match, shown, errors, history>>

(* The type the recursion is decided on: lstat, that of a link itself.     *)
Descends(path, n) == IsDir(At(path, n))

Lstat ==
  /\ pc = "lstat"
  /\ IF Descends(Top.path, entry)
       THEN /\ call' = [path |-> Append(Top.path, entry), depth |-> Top.depth - 1]
            /\ pc' = "call"
       ELSE /\ call' = call
            /\ pc' = "readdir"
  /\ UNCHANGED <<tree, cwd, leaked, open, stack, entry, match, shown, errors, history>>

(* lstat fails, without permission or as the path is too long: the entry   *)
(* is taken for no directory, and nothing is said.                         *)
LstatFails ==
  /\ pc = "lstat"
  /\ silent < MaxSilent
  /\ pc' = "readdir"
  /\ silent' = silent + 1
  /\ unread' = unread \cup {Append(Top.path, entry)}
  /\ UNCHANGED <<tree, cwd, leaked, open, ls, asked, steady, unseen>>

Closed_Outermost == IF Len(stack) = 1 THEN 1 ELSE 0
Closed == 1

(* The loop over the entries is left, at their end or before it. *)
LeaveDir ==
  /\ pc = "readdir"
  /\ stack' = Front(stack)
  /\ open' = open - Closed
  /\ pc' = ReturnTo(Front(stack))
  /\ UNCHANGED <<tree, cwd, leaked, call, entry, match, shown, errors, asked, steady>>

CloseDir ==
  /\ LeaveDir
  /\ Top.todo = {}
  /\ UNCHANGED failures

(* readdir fails: its NULL is taken for the end, and nothing is said.      *)
ReadDirFails ==
  /\ LeaveDir
  /\ Top.todo # {}
  /\ silent < MaxSilent
  /\ silent' = silent + 1
  /\ unseen' = unseen \cup ({Top.path} \X Top.todo)
  /\ unread' = unread \cup {Append(Top.path, e) : e \in Top.todo}

NoCall == [path |-> << >>, depth |-> 0]

(* The result goes back to main; nothing of the call is left. *)
Done ==
  /\ pc = "done"
  /\ pc' = "prompt"
  /\ call' = NoCall
  /\ entry' = "."
  /\ match' = {}
  /\ shown' = EmptyBag
  /\ errors' = 0
  /\ asked' = NoCall
  /\ steady' = TRUE
  /\ silent' = 0
  /\ unread' = {}
  /\ unseen' = {}
  /\ UNCHANGED <<tree, cwd, leaked, open, stack>>

Init ==
  /\ kind = Start
  /\ changes = 0
  /\ cwd = Root
  /\ leaked = 0
  /\ open = 0
  /\ pc = "prompt"
  /\ call = NoCall
  /\ stack = << >>
  /\ entry = "."
  /\ match = {}
  /\ shown = EmptyBag
  /\ errors = 0
  /\ asked = NoCall
  /\ steady = TRUE
  /\ silent = 0
  /\ unread = {}
  /\ unseen = {}

(* The paths the user gives: the working directory or a name in it. *)
Paths == {<< >>} \cup {<<n>> : n \in Name}

Listing == StopAtDepth \/ OpenDir \/ OpenDirFails \/ ReadDir \/ ReadDirMisses
           \/ Lstat \/ LstatFails \/ CloseDir \/ ReadDirFails \/ Done

User ==
  \/ \E path \in Paths \ {<< >>} : CatOrWc(path) \/ CatOrWcFails(path) \/ Cd(path)
  \/ CdUp
  \/ \E path \in Paths, depth \in Depths, filter \in Filters : Ls(path, depth, filter)

Next == User \/ Listing \/ \E n \in Name, k \in Kinds : Change(n, k)

(* The shell runs whenever list_directory can go on. *)
Spec == Init /\ [][Next]_vars
FairSpec == Spec /\ WF_vars(Listing)

-----------------------------------------------------------------------------
(* Properties.                                                             *)

Frame == [path : Seq(Name), dir : Name, depth : Int, todo : SUBSET (Name \cup Dots)]

TypeOK ==
  /\ kind \in [Name -> Kinds]
  /\ changes \in 0..MaxChanges
  /\ cwd \in Name
  /\ leaked \in Nat
  /\ open \in 0..MaxFds
  /\ pc \in {"prompt", "call", "readdir", "lstat", "done"}
  /\ call \in [path : Seq(Name), depth : Int]
  /\ stack \in Seq(Frame)
  /\ (pc \in {"readdir", "lstat"}) => stack # << >>
  /\ entry \in Name \cup Dots
  /\ match \subseteq Name \cup Dots
  /\ IsABag(shown)
  /\ errors \in Nat
  /\ asked \in [path : Seq(Name), depth : Int]
  /\ steady \in BOOLEAN
  /\ silent \in 0..MaxSilent
  /\ unread \subseteq Seq(Name \cup Dots)
  /\ unseen \subseteq Seq(Name) \X (Name \cup Dots)

(***************************************************************************)
(* Whatever directories vanish or change under it, and however its calls   *)
(* fail, list_directory closes every directory it opens: what is open is   *)
(* what cat and wc have left and one directory for each call in progress.  *)
(***************************************************************************)
Balanced == open = leaked + Len(stack)

(* The directories in the one that path leads to; a link is none of them.  *)
Subdirs(path) == {Append(path, n) : n \in {m \in Children(Opens(path)) : IsDir(m)}}

(* The directories that are fewer than depth levels below path. *)
DirsWithin(path, depth) ==
  LET down[k \in 0..depth] ==
        IF k = 0 THEN {path} ELSE UNION {{p} \cup Subdirs(p) : p \in down[k-1]}
  IN  IF depth = 0 \/ ~CanOpen(path) THEN {}
      ELSE IF depth = -1 THEN {path}
      ELSE down[depth - 1]

Expected ==
  UNION {{p} \X (match \cap (Dots \cup Children(Opens(p)))) :
           p \in DirsWithin(asked.path, asked.depth)}

(* Behind a readdir that failed, or in a directory that could not be read. *)
Missed(x) == x \in unseen \/ \E p \in unread : IsPrefix(p, x[1])

(***************************************************************************)
(* When nothing changed meanwhile, ls has shown nothing twice and nothing  *)
(* but the entries down to its depth.  Those it has not shown are behind a *)
(* readdir that failed or below a directory that could not be looked at or *)
(* opened: no failure costs another directory's entries.  It says so of an *)
(* opendir that fails, and not of readdir and lstat; without either, all   *)
(* entries are shown.                                                      *)
(***************************************************************************)
ListsAll ==
  pc = "done" /\ steady =>
    /\ shown \sqsubseteq SetToBag(Expected)
    /\ \A x \in Expected \ BagToSet(shown) : Missed(x)
    /\ errors = 0 /\ silent = 0 => shown = SetToBag(Expected)

(***************************************************************************)
(* However the tree changes, links that lead back up included, ls never    *)
(* has more directories open than its depth allows.                        *)
(***************************************************************************)
NeverTooDeep ==
  /\ asked.depth >= 0 => Len(stack) <= asked.depth
  /\ asked.depth = -1 => Len(stack) <= 1

(***************************************************************************)
(* ls ends, whatever fails and whatever another process did to the tree,   *)
(* once the tree stays as it is.  While names are made for ever in a       *)
(* directory that is being read, readdir may go on returning them.         *)
(***************************************************************************)
LsEnds == <>[][UNCHANGED kind]_vars => []<>(pc = "prompt")
================================================================================
