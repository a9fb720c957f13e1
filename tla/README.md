# A verification of mysh, the shell of this repository

The repository holds a small command shell, `mysh`, in four stages
(`project_m1` to `project_m4`, each a complete program that extends the one
before), a directory with the feedback on a fifth, and eleven weeks of C
exercises (`w1` to `w11`).  This directory holds TLA+ specifications of the
parts that have a behaviour worth specifying, TLC configurations that check
them on small instances, and proofs, checked by TLAPS, of the most important
theorems for all instances.

Run, in this directory,

    tlc -workers 2 -config MyshInput_pipe.cfg MCMyshInput.tla    # any run
    tlapm MyshInput_proofs.tla                                   # the proofs

`PROJECT.json` lists every run with its properties, the source lines each
definition stands for, the mutations of the code that each property detects,
the hazards of the code and the findings.

## 1. Inventory

### mysh

One process, one thread, one loop: show the prompt, read input, split it into
tokens, act on them.  The four stages differ in what they add:

| stage | adds |
|---|---|
| `project_m1` | the loop, `get_input`, `tokenize_input`, `exit`, `echo` |
| `project_m2` | variables: `name=value`, `$name` |
| `project_m3` | `ls`, `cat`, `wc`, `cd`, `pwd` |
| `project_m4` | a handler of SIGINT, `replace_variables` in the tokenizer, `external` (fork, exec, wait), freeing of tokens |

| component | state | operations | lines |
|---|---|---|---|
| reading commands | `input_buf`, what `getchar()` holds in stdio's buffer, the pipe or terminal behind descriptor 0, the screen | `get_input`, the main loop, `ctrlCHandler` | `io_helpers.c:33`, `mysh.c:20`, `mysh.c:13` |
| variables and echo | the list `vars`, echo's array `final`, def_var's array `new_val` | `name=value`, `def_var`, `get_var`, `bn_echo`, `replace_variables` | `builtins.c:185-372`, `io_helpers.c:54-111` |
| dispatch | the tables `BUILTINS`, `BUILTINS_FN`; the heap | `check_builtin`, `tokenize_input`, the end of the main loop | `builtins.h:43`, `builtins.c:20` |
| files | open descriptors, the working directory | `cat`, `word_count`, `cd`, `pwd` | `builtins.c:375-465` |
| ls | the directory tree, open directories | `bn_ls`, `list_directory` | `builtins.c:39-156` |
| external commands | child processes | `external` | `builtins.c:159` |

(Lines of `project_m4/src`.)  `commands.c` and `variables.c` are empty.

How they interact.  The main loop calls `get_input`, which calls `read(2)`, and
for a line that is too long `getchar(3)`: two readers of the same descriptor,
one with a buffer of its own.  The main loop then calls `tokenize_input`, whose
tokens point into `input_buf`; in stage 4 the tokenizer passes each of them to
`replace_variables`, which calls `get_var` and writes into the token.  A first
token with a `=` goes to `def_var`, which calls `get_var`; anything else to the
table and through it to a builtin.  Whoever writes to standard input (a test
script, a terminal, a pipe) runs concurrently with all of this, and SIGINT may
come between any two steps.

What makes it correct:

* every line of the input is answered exactly once, in order; a line of more
  than `MAX_STR_LEN` characters is rejected, any other is run; nothing that was
  read is lost or run twice; the prompt is on the screen whenever the shell
  waits; the session ends with the input;
* the list of variables is an environment: one value for each name, evaluated
  when it is assigned; `echo` shows references replaced, within its array;
* a builtin is found by its name and no other; the shell survives its builtins;
  what a session takes from the heap and the descriptor table it returns;
* `wc` counts what it says, and `ls` visits every directory to its depth once.

### The exercises

| part | what it is | behaviour worth specifying |
|---|---|---|
| `w10`, `w11` `chat_server.c`, `chat_client.c`, `socket.c`, `chat_helpers.c` | a chat server: a `select` loop over a list of clients, with the socket and list helpers left as stubs | the loop: clients that connect, send and vanish in any order, SIGINT between its checks and `select`, the limit of connections, the removal of a client from the list that is being walked |
| `w11` `serialize.c`, `deserialize.c`, `helpers.c` | read standard input to its end | none but a loop on `fread` |
| `w8` `time_reads.c` | counts reads until a timer's signal | the handler interrupts the loop that counts |
| `w7` `validate.c` | reads a user and a password, one `read` each, and looks them up | what the two reads get from whoever writes, exit codes |
| `w7` `checkpasswd.c` | a parent that should write them into a pipe for `validate` | none: it does not link |
| `w6` `simplefork.c`, `forkloop.c`, `parentcreates.c`, `childcreates.c` | trees of `fork` | how many processes, in which order they print, which are orphaned |
| `w5` `bitmapfun.c` | inverts a bitmap | a loop over pixels |
| `w4` `ll_sum.c` | sums a linked list of numbers and frees it | the dummy node in front, the order of the frees |
| `w4` `strip.c`, `truncate.c`, `compare.c`, `greeting.c`; `w3` `invest.c`, `phone.c`, `score_card.c` | small algorithms | pure functions |
| `w1`, `w2`, `project_m5` | hello world; feedback only | none |

Hard to test, in short (`hazards` of `PROJECT.json` has each at its line):
blocks of `read(2)` that are not lines, two readers of one descriptor, a line
of exactly the limit, SIGINT anywhere, read errors in the middle of a line,
arrays at their limit, a tokenizer that edits what it tokenizes; in the chat
server, the wakeup of `select` lost to SIGINT and lists changed while walked; in
the exercises, buffers copied by `fork`, a handler between a read and its count,
two reads that share what was written, unsigned lengths that wrap.

## 2. Plan

In the order of importance.  All seven are done, with the proofs section 5 names.

1. `MyshInput`: reading commands, its abstract specification `LineShell`, and the
   proofs `MyshInput_proofs`.
2. `MyshVars`: variables and echo, with the abstract `ShellEnv`; `MyshVars_proofs`.
3. `MyshDispatch`: the array of tokens, the parallel tables of stages 1 to 4,
   the options of `ls`; `MyshDispatch_proofs`.
4. `MyshFiles`: `list_directory` over a tree that another process changes, the
   descriptors of `cat` and `wc`, `cd`; `MyshFiles_proofs`.
5. `ChatServer`: the `select` loop, clients, SIGINT, with the contracts stated
   in `socket.h` and `chat_helpers.h` for the stubs; the abstract `ChatRoom`; the proofs
   `ChatServer_proofs` (the list, the refinement, the descriptors).
6. `WordCount`: the loop of `word_count` over a file, with `char` signed or not, and
   its counts against those of `wc(1)`; `WordCount_proofs`.
7. The exercises that run to their end: `ForkTrees` (`w6`), `TimeReads` (`w8`),
   `Validate` (`w7`), `ChatClient` (`w10`, `w11`), `ListSum` (`w4`). `Programs` puts them
   and `WordCount` into one specification; the proofs `Programs_proofs`, and `SeqFacts`
   with the lemmas that several components need.

Every safety property of a run that passes is now a theorem; those of liveness stay
with TLC.  Section 7 says what has no model, and why.  Bounds: two or
three clients or names, inputs of up to seven bytes, limits scaled down to 2 or 3, so
that every limit is crossed.

## 3. The modules

| module | models |
|---|---|
| `Lines` | bytes and lines of an input, shared by the next two |
| `LineShell` | abstract: what a line-oriented shell promises |
| `MyshInput` | `get_input`, the main loop, the writer, SIGINT |
| `MyshInput_proofs` | theorems on `MyshInput` |
| `Text` | operators on strings |
| `ShellEnv` | abstract: what variables and echo promise |
| `MyshVars` | `def_var`, `get_var`, `bn_echo`, `name=value`, `replace_variables` |
| `MyshVars_proofs` | theorems on `MyshVars` |
| `MyshDispatch` | `tokenize_input`, `check_builtin`, the main loop's branches, `bn_ls`'s options |
| `MyshDispatch_proofs` | theorems on `MyshDispatch` |
| `MyshFiles` | `list_directory`, `cat`, `wc` and `cd` on a tree and a table of descriptors |
| `MyshFiles_proofs` | theorems on `MyshFiles` |
| `WordCount` | `word_count` |
| `WordCount_proofs` | theorems on `WordCount` |
| `ChatRoom` | abstract: what the chat server promises |
| `ChatServer` | `main`, `accept_connection`, `clean_exit` and the handler of the chat server, with its clients |
| `ChatServer_proofs` | theorems on `ChatServer` |
| `ChatClient` | `main` of the chat client |
| `ForkTrees` | `simplefork`, `forkloop`, `parentcreates` |
| `TimeReads` | `time_reads` |
| `Validate` | `validate` |
| `ListSum` | `ll_sum` |
| `Programs` | any one of `WordCount` and the five before, and their properties |
| `Programs_proofs` | theorems on `Programs` |
| `SeqFacts` | lemmas on numbers, sequences, folds and recursive functions |
| `MCMyshInput`, `MCMyshVars`, `MCMyshDispatch`, `MCMyshFiles`, `MCWordCount`, `MCChatServer`, `MCPrograms` | inputs, lines, trees, files and clients for TLC |

The four modules of the shell look at one loop from four sides, and meet where
one hands over to the next: `MyshInput` says which bytes become a command,
`MyshDispatch` which function runs for its tokens, `MyshVars` and `MyshFiles` what
that function does.  Their state is disjoint in the code too, but for
`input_buf`, into which the tokens point: `MyshDispatch` has that as `moved`.

### MyshInput

The input of a session is a sequence of bytes, fixed at the start, and the
state says where each byte is by positions in it: `written` (by the writer),
`rpos` (taken out of the pipe), `slo+1..shi` (in stdio's buffer), `lo+1..rpos`
(in `input_buf`, while the command is handled).  `pc` names the call the
shell is in.  Bytes are told apart as far as the main loop tells them apart:
newline, blank, `=`, the word `exit`, anything else.

| action | code |
|---|---|
| `Write`, `Close` | the other end of descriptor 0 (not in the repository; lock-step is what `write` of `tests_helpers.py` followed by a read does) |
| `DisplayPrompt` | top of the loop, `mysh.c:34` |
| `ReadEof`, `ReadFails`, `ReadCommand`, `ReadTooLong` | `read` in `get_input` and what follows each of its results |
| `FillStdio`, `SkipByte`, `SkipEnds` | the loop on `getchar()`, `io_helpers.c:44` |
| `DispatchNothing`, `DispatchExit`, `DispatchAssignment`, `DispatchCommand` | the branches of the main loop, `mysh.c:51-83` |
| `FreeTokens` | `mysh.c:135`, `free` of pointers into `input_buf` |
| `Sigint` | `ctrlCHandler`; in stage 3 the default action |

`Takes(size, n)` is `read(2)`: at most `size` bytes, what there is, and on a
terminal no more than a line.  `Filled(n)` is stdio filling its buffer with it.
The text of error messages, the tokens and what builtins do are left out;
`MyshVars` has the variables.

### MyshVars

`vars` is the list, head first; strings are sequences of characters (`Char`).  A call
of `strtok` returns a maximal piece without separators, given by where it starts
(`PieceStarts`); the loops over a token are recursive functions of the place in it.
`def_var` and `bn_echo` are one action each, as nothing interleaves with them (the
handler of SIGINT touches neither).  Arrays are sequences whose length is compared
with the array's size; beyond it the behaviour is undefined, `undefined` becomes TRUE
and the model stops.  `Milestone = 4` puts `replace_variables` in front, as the
tokenizer of stage 4 does: its expanded copy is thrown away (and leaked), and the
token itself, cut at a `$` by `strtok_r`, goes on.

### MyshDispatch

`token_arr` is the array of `main`, which is not cleared between lines: behind
the NULL that ends a line there are still the pointers of longer lines, and what
they point to is the old token or a part of the new line.  `tokenize_input`,
`tokenize_fails` (malloc returns NULL), `DispatchEmpty`, `DispatchExit`,
`DispatchAssignment`, `DispatchBuiltin`, `DispatchUnknown` and `FreeTokens` are the
steps of one turn of the loop.  `milestone` chooses the tables, and what a turn
does at its end.  `bn_ls` is the function of the slots that the four loops of
`bn_ls` compute, of which the last, `PathSlots`, may step over the NULL.

### MyshFiles

A tree of names, one place for each, so that a change is to make, remove or
replace one name.  `stack` holds the calls of `list_directory` in progress, each
with its `DIR` as the set of entries `readdir` has still to return, in any order;
`.` and `..` are one entry, as the code treats them alike.  A path is looked up name by
name, from the working directory on, every link on the way followed (`Opens`);
`lstat` looks at its last name as it stands (`At`).  `Change` is another process, at
any point.

| action | code |
|---|---|
| `Ls` | `bn_ls` calling `list_directory`; the depth is -1 without `--rec` |
| `StopAtDepth`, `OpenDir`, `OpenDirFails` | the beginning of `list_directory` |
| `ReadDir`, `ReadDirMisses` | one turn of the loop: `readdir`, the filter, the two names it skips |
| `Lstat`, `LstatFails` | `lstat` and the recursive call; an entry whose `lstat` fails is taken for no directory, silently |
| `CloseDir`, `ReadDirFails`, `Done` | the end of the loop, or a `readdir` that fails and is taken for it; back to the prompt |
| `CatOrWc`, `CatOrWcFails`, `Cd`, `CdUp` | the other builtins that touch files |

Any `opendir`, `lstat` or `readdir` may fail, for want of permission or memory, on a path
that is too long, or as the directory is gone.  Only a failed `opendir` is reported
(`errors`).  Of the others the history variables keep what the user is not told: how
many there were (`silent`), and what they hide, the entries behind a `readdir`
(`unseen`) and the paths nothing below which was read (`unread`, which has those of a
failed `opendir` too).

Left out: the text of a path (so that `snprintf` never cuts one at 1024 bytes),
what is in the files, and `pwd`, which only shows the working directory.

### WordCount

One call of `word_count`, whose state is its local variables; `pos` is how far `fgetc`
has come.  Nothing else touches the file.  Bytes are the newline, a blank, 255, a
feed, any other.  A feed is a form feed or a vertical tab, white space for `wc(1)` (as
POSIX has it, in the C locale) and none for `word_count`.  `curr` and `prev` are
`char`: `char_signed` says what the build makes of that.  If it is signed, the byte
255 equals EOF (`StopsAtByte`); if not, EOF becomes the byte 255 and `CountEnd`
repeats until an `int` overflows (`Overflows`, undefined). `ReadFails` is a read that
fails, or a directory: `fgetc` returns EOF as well.

### ChatServer

The server is one process; `pc` says where in `main` it is.  `clients` is the list,
`fd` the `sock_fd` of each, `all_fds` and `max_fd` what `select` is given,
`listen_fds` what it returned, `curr` and `dest_c` the two pointers that walk the
list.  What a client sends comes in pieces (`sent`, `read` so many of them), of
which some end a message; `taken` counts the messages that `get_message` removed
from the buffer.  `waiting` is what lies in a client's socket unread: when it is
full, `write` blocks, and with it the server.

| action | code |
|---|---|
| `Connect`, `Leave` | `chat_client.c:24-46`, `:132`; `Send` and `Receive` are what its comments plan for the loop, `while(0)` so far |
| `Listen`, `SetupFails` | `setup_server_socket` |
| `InstallHandler`, `KilledBySigint` | `chat_server.c:101-117`; a SIGINT before it |
| `Select`, `SelectReturns`, `SelectFails` | `select` and the tests behind it |
| `AcceptNone`, `Accept`, `AcceptRefuses`, `AcceptFails` | `accept_connection`, its caller included; `AcceptRefuses` leads to `continue` |
| `CheckSigint`, `LoopAgain`, `CleanExit` | the other tests of `sigint_received`, `clean_exit` |
| `ScanEnds`, `ScanSkips`, `ScanFinds` | `while (curr)` |
| `ReadSome`, `ReadEnd`, `ReadError`, `ReadStub` | the results 0 and 2, 1, and -1 of `read_from_client`; the stub's -1 |
| `SetUsername`, `BadUsername` | `chat_server.c:166-176` |
| `GetMessage`, `NoMessage` | the loop over complete messages |
| `Write`, `WriteError`, `WriteDisconnected`, `SendSkips`, `SendEnds` | the loop over `dest_c` |
| `CloseClient`, `AssertFails` | `chat_server.c:214-220`; the stub of `remove_client` makes the assertion fail |
| `Sigint` | the handler, and the interruption of a `select` that waits |

`Go(at)` and `Turn(c, at)` are the steps that only move `pc`, or `pc` and `curr`.

`socket.c` and `chat_helpers.c` are handed out with stubs: `read_from_socket` returns
-1 and `remove_client` 1, so that the first client that is ready makes the server abort.
`completed` chooses between this program and the one `main` is written for, in which
the helpers do what their headers say.  `w10` and `w11` have the same files.
Left out: the backlog of `listen` (5, more than there are clients), the text of
messages, and a signal that interrupts `read` or `write` (a result -1 or 1).

`ChatRoom` is a room in which one message at a time goes to everybody but its
author: it knows members, the message that goes round, and who has still to get it.
The members are the clients of the list; the audience is what lies from `dest_c` on
to the end of the list, without the sender; how much a member has said is `taken`
without the name.  Two history variables of `ChatServer` are the room's own: `reached`, in
their order the clients that the message was written to, and `missed`, those for which
`write` failed; both begin anew with each message.

| in the code | in the room |
|---|---|
| `Accept` | `Join` |
| `CloseClient`; `WriteDisconnected` | `Leave`, in the latter case in the middle of a message |
| `GetMessage` | `Post` |
| `Write`, `WriteError` | `Deliver`, `Miss` |
| `SendEnds` | `Done` |
| a step into `Stopped` | `Shut` |
| everything else | nothing |

That `SendSkips` is a step in which nothing happens says that `dest_c` skips the sender
and nobody else; that `SendEnds` is `Done` says that nobody was left out, though
`WriteDisconnected` removes nodes of the list that two pointers walk.

### ForkTrees

The processes are a bag of records: where each is, its loop variable, what its last
`fork` returned, and what its `stdout` holds.  On a terminal a line is shown when it is
printed; elsewhere it waits in the buffer, which `Fork` copies, and `Exit` writes it.
`Fork`, `ForkFails` (once) and `Exit` are the same in the three programs; `SimpleFork`,
`ForkLoop` and `ParentCreates` are what each does between them.  Pids, and so who is
whose parent, are left out, and with them the order of the lines, which is up to
the scheduler.

### TimeReads

`InstallHandler`, `SetTimer`, `Opens`, `OpenFails`, then the loop `Read`, `PrintVal`,
`CountRead`; `HandleSigprof` is the handler, at any point after `SetTimer`.  `whole`
says whether the file holds the integers at all offsets that `random` may choose; if
not, `fread` may read nothing, which the loop does not look at, and counts.  `got` is
what was really read.  The model takes `stderr` to be unbuffered and the lock of its
stream to be recursive, as in glibc: the handler may run inside the loop's `fprintf`.

### Validate

`stdin` is what was written and not yet read; `Taken` what a `read` of `MAX_PASSWORD`
bytes returns: all there is, but no more than one line of a terminal.  The writer is
one that fills chunks of `MAX_PASSWORD` bytes (what `checkpasswd` is asked to do), a
terminal, or a pipe with lines; the last may have both its lines taken by the first
read.  `Lookup` is the loop over the file, whose first line that decides is found at
once: nothing interleaves with it.  Lines of the file are taken to be shorter than
`MAXLINE`.

### ChatClient

`name_len` is a `size_t`: the result -1 of `getline` is `SIZE_MAX`, which is not below 0, so
that at the end of its input the client asks again, for ever.  `completed` as in
`ChatServer`: with the stub of `write_to_socket` the client exits with 1.

### ListSum

`value` and `next` are the nodes in the order of `malloc`, `Garbage` what the dummy node
holds, `Dangling` its pointer while nobody has written it.  `Scan` is a turn of the first
loop, `SumNode` one of the second, which frees the node behind `front`.

## 4. The runs

| run | instance | shows |
|---|---|---|
| `input_pipe` | any blocks, one read error, SIGINT | types; every byte is in one place (`Accounting`); the prompt is there when the shell waits; it never goes back; the session ends |
| `input_lines` | a terminal with lines typed ahead, stage 3, one read error, every input of up to four bytes of every kind and up to seven of text | one command is one line; a short line is lost only at a line of exactly the limit; without such a line the shell implements `LineShell` until a read fails, and always comes back to its prompt |
| `input_legal_line` | a writer in lock-step | finding: a short line after one of exactly the limit is thrown away |
| `vars_env` | stage 3; six assignments, five echo lines, `VALUE_SIZE = 5`, `MAX_STR_LEN = 9` | types; one node to a name; what was asked is defined; the list implements `ShellEnv` |
| `vars_m4_echo` | stage 4 | finding: `replace_variables` destroys the tokens it should expand |
| `dispatch_all` | all stages, every line of `ls` with up to three arguments, after any lines | types; a name runs its own builtin, any other word is reported (stages 1 to 3); `ls` does what its own line says |
| `dispatch_m4` | stage 4 | finding: `cd` and every unknown command run `ls` |
| `dispatch_own_tokens` | stage 3 | finding: `ls --f` reads the tokens of an earlier line |
| `files` | a tree of five names with a link, all depths, one change by another process, three descriptors, any `opendir` and one `lstat` or `readdir` that fail | types; every directory opened is closed; never deeper than asked; in a tree that stays, nothing is listed twice and nothing is missing but behind a call that failed; `ls` ends once the tree stays |
| `wc_as_wc` | every file of up to five bytes, `IntMax = 4` | finding: one word too few or too many otherwise |
| `chat` | three connections, one of which speaks; `MAX_CONNECTIONS` 1 and 2; SIGINT anywhere | types; what `select` watches is the list; no read blocks; no pointer to a removed client; at most one client over the limit; the server implements `ChatRoom`; every message is handled, and SIGINT ends a server that has anything to do |
| `programs` | `wc` on every file of up to five bytes, `IntMax = 4`; the fork programs with 0 to 3 children, on a terminal and not; four reads of `time_reads`; `validate` with four words in four files; the chat client with up to three lines; `ll_sum` with up to three tokens | of `wc`: types, words counted at every moment, the lines and bytes of `wc(1)`, and its words for a file that begins with a word, ends with a newline and has no feed; every line of a fork program is shown as often as it should; `time_reads` misses at most one read; `validate`'s verdict is the one its comment names; the client sends the first name short enough; every node is freed once, after its last use; every program ends where it should |

Deadlock is not checked but in `files`: elsewhere the program exits, and a model in
which `undefined` is TRUE stops on purpose.

Bounds.

* `MyshInput`: `MAX_STR_LEN = 2` for 128, so that a line may be short, at the
  limit, one over it, and need several reads, in inputs of four to seven bytes,
  all of them enumerated, with hand-made inputs of ten bytes on top;
  `STDIO_SIZE = 3` for 4096, larger than the limit as in the code and small
  enough that a drain needs two fills; at most one read error.
* `MyshVars`: the names `x`, `y`, `xx` (one a prefix of another), values that refer
  to the name itself, to another, to an unknown one, that begin with `=`, no value.
  A value of up to four characters doubles at most twice before it outgrows
  `new_val`, which the run reaches; an echo line outgrows `final` as well.
* `MyshDispatch`: five slots for 128, enough for `ls` with three arguments and the
  NULL; a heap of four blocks (`HeapLimit`), so that `malloc` fails within a line.
* `MyshFiles`: three levels of directories and depths to one more than needed;
  three descriptors (`MaxFds`), so that `cat` and `wc` can use up those that `ls`
  needs; one change (`MaxChanges`): each race of the code is between two
  adjacent calls, and one change is enough to come between them; one call that fails
  in silence (`MaxSilent`) in each `ls`, besides any number that `opendir` reports.  The
  proofs are for any value of both.
* `WordCount`: five bytes hold three words, or two with a separator at either end; four
  are the most an `int` counts, so that a file of five overflows it.
* `ForkTrees`: three turns of a loop are eight processes and a buffer copied three
  times; at most one `fork` fails.
* `TimeReads`: timers of less than none (`setitimer` fails), none and some time; after four
  turns (`MaxReads`) the loop stands still until the timer expires.
* `Validate`: words of no letter to `MAX_PASSWORD = 3`, one the beginning of another;
  a user with an empty password, a file whose last line has no newline, an empty file.
* `ChatClient`: names from nothing to one over `MAX_NAME = 2`, the last line with and
  without its newline, also no line at all; `SIZE_MAX` is any number no length reaches.
* `ListSum`: three numbers fill the four nodes of the heap (`MaxNodes`); the value 0 stands
  for a token that is no number, with which the loop goes on until `malloc` fails.
* `ChatServer`: three clients are enough for a list with a first, an inner and a last
  one and for a descriptor to be used again; with `MAX_CONNECTIONS` 1 a list is
  filled, is one over the limit, and a connection is refused.  The speaker sends its
  name, a message in two pieces and a message in one, so that a read may return a
  part, one or two of them.  `Capacity = 1`: one message fills a socket.  Each message
  meets at most one `WriteError`; each connection is made once.  That only one speaks
  costs the interleavings of two speakers, whose messages the single thread handles
  one after the other; two speakers exceed the time of a run.  `reached` and `missed`
  go back to the beginning of the message, no further: that messages of one sender
  arrive in their order follows from the room, which has one at a time.

### Fairness

`ShellFairSpec` asks weak fairness of the shell's steps taken together, those
aside that see a read fail (the kernel runs a process that can run; a blocked `read`
is not enabled until there are bytes or the end; that reads fail is not assumed),
and of `Close` (a writer that has written everything exits, which closes the
pipe).  `ComesBack` holds under it, though the user may stop typing.  `FairSpec`
adds that the writer writes on, for `Terminates`.  Neither says anything about
SIGINT.  The shell's steps need no fairness one by one: in every state at most one
kind of them is enabled, but for the choice of the outcome of `read`, and read
errors are bounded by `MaxReadErrors`.

`MyshFiles` asks weak fairness of the steps of `list_directory` taken together, and
none of the user or of the process that changes the tree.  `LsEnds` is about a tree that
stays as it is from some time on (`<>[][UNCHANGED kind]_vars`): while another process
makes names for ever in the directory being read, `readdir` may return them for ever,
and `ls` need not end.  That premise is part of the property; `MaxChanges` only keeps the
run finite.

`ProgramsSpec` of `Programs` asks weak fairness of the one program's steps taken
together, without those of `wc` that see a call fail, and of the timer of `time_reads`,
which counts the processor time that the loop uses.  `ProgramsEnd` names, as `MustEnd` of
each module, when the program does end: `wc` where `char` is signed and the `int` does not
overflow, `time_reads` with a timer that was set, the client if some line is a name,
`ll_sum` without tokens that are no numbers, the others always.

`ChatServer` asks weak fairness of `Runs`, the steps of the server in which no call
fails, and of each `Receive`: a client that stays reads what it got.  Without the
second the server may block in `write` for ever, as the code may.  Nothing is asked
of the clients otherwise, nor of SIGINT.  `Responds` speaks, of SIGINT, of a server that has
something to do: if SIGINT comes between the test of `sigint_received` and `select`
and no client does anything any more, the server waits in `select`.  And it speaks of
connections that do not keep coming, as each client of the model makes one: a server
that refuses connections without end serves nobody.  These are limits of the code, and
hazards of `PROJECT.json` that no property catches; `Responds` is what is left.

## 5. What is proved

`MyshInput_proofs`, from `InputAssumption` only (sizes positive, inputs made of
bytes), so for every limit, buffer size, input, writer and stage:

* `TypeCorrect`: `TypeOK`, with `slo <= shi <= rpos <= written`.  Inductive as it is.
* `AccountingHolds`: `Accounting`, inductive with `TypeOK`.  The steps that move
  bytes are `ReadTooLong`, `SkipByte`, `FillStdio`, `ReadCommand` and the
  dispatches (lemma `HandledAccounts`); the others are `Still`.
* `NeverGoesBack`: `InOrder`, from `Accounting`: whatever was executed or thrown
  away lies in `1..rpos` and not in `input_buf`, so before it.
* `OneLineTheorem`: `OneLinePerCommand`.  It needs the invariant `LineInv`:
  without read errors, `rpos` is at a line's end whenever the main loop is
  about to read; in the drain loop stdio's buffer holds the end of one line and
  nothing was taken behind it; a lock-step writer is never more than one line
  ahead.  That is what makes reading blocks equal to reading lines, and it also
  holds at a line of exactly the limit.
* `PromptTheorem`: `PromptWhenWaiting`.
* `LostOnlyAtLimit`: `ShortLineLostOnlyAtLimit`.
* `LineShellImplemented`: `ImplementsLineShell`, for every writer of lines (`Writer` is not
  `"pipe"`), as a terminal or a lock-step writer is.  As the property itself says, it is
  about inputs without a line at the limit and holds until a read fails.

The last two rest on the invariant `SkipInv`: what lies behind the shell is whole
lines, each executed or thrown away (`Answered`); the drain loop stands inside a line
that is too long, or in the one behind a line of exactly the limit (`Skips`); and a
line lost so far that is not too long is such a line or lies behind one (`Lost`).
Lines are ends of an input with no newline between them, so that no step of the proof
counts lines (lemmas `LineOfByte`, `NextLine`, `EndsBefore`).

`MyshVars_proofs`, from `VarsAssumption` only, so for every assignment, line, size of the
arrays and set of characters with `$` and the blank:

* `TypeOKHolds`: `TypeOK`, in both stages.  Every loop over a token keeps a string
  a string; that its recursive function exists at all is a lemma of `SeqFacts`.
* `UniqueNamesHolds`: `UniqueNames`, in both stages.  An overwritten value leaves all names
  in place (`OverwriteKeeps`), and a node is added only for a name that has none
  (`NewNodeKeeps`).
* `AskedIsDefinedHolds`: `AskedIsDefined`, in stage 3.  In stage 4 it does not hold: the
  tokenizer cuts `y=$x` to `y=`, and `y` gets no node.
* `ImplementsHolds`: `ImplementsShellEnv`, in stage 3, of assignments with a name before
  the `=`.  Before a leading `=` there is none; `strtok` skips it and takes what
  follows for a name, where the environment has an assignment to no name; no token
  of the run begins so.  In stage 4 the refinement does not hold (`vars_m4_echo`).

The refinement compares two readings of a token: the code's, piece by piece with
`strtok`, and the environment's, character by character.  Up to the first `$` both
copy; from there on every character but a `$` adds nothing to either, and at a `$` both
look up the piece behind it, an empty one under no name (invariant `NamesNotEmpty`).
For `echo` the two do not add the same: the code cuts each value to its array, but no
text.  They are related by `Shows`: what is in the array are the first
`MAX_STR_LEN - 1` characters of the full text, or it is too much for it already.

`MyshDispatch_proofs`, from `DispatchAssumption` only (lines shorter than the array of
tokens, `"NULL"` for the pointer and no word), so for any lines, words, slots and heap:

* `AnsweredByNameHolds`: `AnsweredByNameTo3`.  Lemma `TablesParallel` is about the tables:
  beside a name stands its own function, and the search for any other word ends at the
  NULL.  The invariant `SlotsInv` is about the array: whatever earlier lines left
  there, its first slots hold the tokens of the line being handled, and the next NULL.
* `LsFollowsLineHolds`: `LsFollowsLine`.  With `SlotsInv` the loops of `bn_ls` read
  the line and its NULL.  By induction over the slots, from the last down, `PathSlots`
  finds no path, one, or more than one exactly where the line has none, one or more
  (`Finds`), once the flags and their values are set aside.
* `TypeCorrect`: `TypeOK`.

`MyshFiles_proofs`, from `FilesAssumption` only, so for every tree, link, filter,
limit of descriptors and number of changes:

* `BalancedHolds`: `Balanced`.  The invariant `StackInv` adds that there is a call in
  progress while `readdir` and `lstat` go on and none at the prompt, so that no
  `closedir` is without its `opendir`.
* `NeverTooDeepHolds`: `NeverTooDeep`.  The invariant `DepthInv` says that the depth
  of each call and the calls above it add up to the depth that was asked for, and
  that a call at depth -1 has none below it.  It does not mention the tree:
  that is why no link or race can make the recursion go on.
* `TypeCorrect`: `TypeOK`.  What `lstat` is asked about is a name and not `.` or `..`
  (`TInv`), so that the paths stay made of names; with `StackInv` the descriptors in use
  never go below none.
* `ListsAllHolds`: `ListsAll`.  The invariant `ListInv` is about a tree that stays as it is.
  It adds up what was shown and what is left to show (`Left`): below the call about
  to be made, below the entry at `lstat`, and of each call in progress the entries
  to come with all that is below them.  Together they are part of what the reference
  `DirsWithin` lists, and what is missing is hidden by a call that failed (`Hides`); and
  they are disjoint, as the path of each deeper call goes on by an entry that its caller
  has no longer to come (`Apart`).  `DirsSplit` unfolds the reference one level, as
  `list_directory` does.  A failed call drops a part of `Left`, all of it below the path it
  was for (`PairsBelow`, `Drops`); without one nothing is hidden (`Told`), and all is shown.

`WordCount_proofs`, from `CountAssumption` only, so for every file and every `IntMax`:

* `TypeCorrect`: `TypeOK`.  The invariant `CountsInv` adds that no count outgrows that of
  the characters, so that the one test of the range, `HasRoom`, covers all three.
* `WordsCountedHolds`: `WordsCounted`.  `PlaceInv` says that `prev` is the byte before
  `pos`; then a byte ends a word, begins one, or neither (`ByteWords`).
* `AgreesHolds`: `AgreesWithWc`, from these and `LinesCounted`.  The words of `wc(1)` are
  defined by its own separators; in a file without a feed they are those of the loop.

`ChatServer_proofs`, from `ChatAssumption` only, so for any number of connections, any
`MAX_CONNECTIONS`, any messages, the helpers completed or not:

* `PointersLiveHolds`: `PointersLive`.
* `AtMostOneOverHolds`: `AtMostOneOver`.
* `RoomImplemented`: `ImplementsChatRoom`, the refinement.

They share one inductive invariant, `IInv`, of five parts: the list and the queue name
each client once, and none in both (`Lists`); the pointers of both loops are in the
list (`PointersLive`); at most one client is over the limit (`OneOver`); who has a
user name is in the list and has sent something, and nobody else has (`Names`); `msg`
is the last message of `curr` while it is being written, and there is none otherwise
(`Message`).  The pointers stay in the list when a node is removed only because no
node is in it twice, and `curr` survives the inner loop only because that removes
`dest_c` when it is not the sender.  The lemmas on lists without repetitions (what is
behind a place, before and after another one was removed) carry the argument;
`NextIInv` proves for each action that it keeps `IInv` and is a step of the room or
none.

Further, from the same assumption:

* `FdsMatchHolds`: `FdsMatch`.
* `ReadsReadyHolds`: `ReadsReady`.
* `TypeCorrect`: `TypeOK`.

The invariant `FInv` adds to `IInv` what `select` watches, at every step and not only
when it is called (`Fds`), and `Readiness`: a client whose turn is still to come in
this walk (`Due`) and whose descriptor is in `listen_fds` has something to read.  A
descriptor of a client that was removed in the walk stays in `listen_fds`; that nobody
gets it before the walk is over rests on `accept_connection` coming first, and that
the one accepted is not taken for ready, on `listen_fds` holding only what `all_fds`
held.

For the types, `TInv` says where in its buffer the last message taken of a client ended
(`InBuffer`), that `name` is reached with a message complete, and that only clients of the
list were read from, so that one that is turned away leaves nothing behind.

`Programs_proofs`, from the assumptions of `Programs` on each program's input, which
are what the code or its libraries guarantee (a line from `getline` is not empty and ends
at its newline, the words fit the array of `validate`, the heap of `ll_sum` has a node for
each number).  A run of `Programs` is a run of one program, so that each theorem has an
invariant of that program's own steps:

* `CountWithinOneHolds`: `CountWithinOne`.  `CountInv` says that `num_reads` is `got`,
  or one less between a read and its count.
* `NameSentHolds`: `NameSent`.  `ClientInv`: no line before the last read was a name.
* `NodesFreedHolds`: `NodesFreed`.  `ListInv`: the nodes are linked in the order of
  `malloc`; the walk has freed all behind it but the last, and its sum is that of the
  nodes passed.
* `VerdictRightHolds`: `VerdictRight`.  `VerdictInv` says what was read and what is still to
  be written at each place, as long as the writer is one that suits the two reads.
  `Matches` compares a line of the file as `strncmp` does; for well-formed lines that
  is equality of user and password (the steps under `VerdictStep`).
* `LinesPrintedHolds`: `LinesPrinted`.  `ForkInv` counts, of each line, what is on the
  screen and what every process alive will still show of it, by itself and by all that
  it has still to fork.  That is a sum over the bag of processes (`Weighs`), which has
  one value in whatever order it is taken (`WeightOfLess`).  `Fork` divides the share
  of a process between two, a print moves it into the buffer or to the screen, `Exit`
  to the screen, and a fork that fails may only lose some.

`SeqFacts` has the lemmas that several of these need: induction, over sets of
numbers instead of predicates, as the provers cannot instantiate an operator; that a
recursive function on `0..n` exists and obeys its equation, when its step is given as
a function; and what a fold of a finite set comes to.

Only model-checked is liveness (`Terminates`, `ComesBack`, `LsEnds`, `ProgramsEnd`,
`Responds`): the provers cover neither fairness nor `ENABLED`.

## 6. What the code does otherwise than it says

* `input_legal_line`: `read` may take exactly `MAX_STR_LEN + 1` bytes that end with the
  newline.  `get_input` reports the line as too long, and its loop skips to the next
  newline, which is that of the next line.  The user sees no prompt until that
  line is typed, and it is lost.
* `vars_m4_echo`: in stage 4 the tokenizer cuts `$x$y` to `$x`, and `y=$x` to `y=`.
* `dispatch_m4`: a missing comma in `BUILTINS` of stage 4 makes one name of `cd` and
  `ls`; `cd` lists the directory, and so does every unknown command, in place of
  `external`.
* `dispatch_own_tokens`: the loop of `bn_ls` that looks for the path steps over the
  NULL of `ls --f` and takes a token of an earlier, longer line for the path.
* `wc_as_wc`: `word_count` counts a word at the separator behind it.  A last word without
  one is not counted; a file that begins with a separator counts one too many; and form
  feed and vertical tab divide no words, as they do for `wc(1)`.

More facts are in the models, without a run of their own.  Stage 4 frees its tokens,
which point into an array on the stack: `FreeTokens` of `MyshInput` lets the allocator
abort there or go on.  `echo` keeps a place for the terminator when it copies values,
not for blanks and text: `MyshVars` becomes `undefined` where its array is too short.
The chat client asks for ever at the end of its input (`GetLineEnds`). `validate` and
the client cut the last character off a line, whether it is a newline or not
(`Matches`, `SendName`).  `ll_sum` adds what it finds in its dummy node (`NodesFreed`
says so).  `simplefork` prints B before it tests whether `fork` failed.  `list_directory`
says nothing of an `lstat` or a `readdir` that fails: in a directory that may be read and
not searched, `ls --rec` shows the names and none of what is below (`ListsAll` allows for
it and says what exactly is missing).

Not every hazard is caught by a property.  Where the code has no remedy (a pipe that
hands `validate` two lines at once, a client at the end of its input, a token that is no
number, `wc` where `char` is unsigned, endless refusals, a client that does not read), the
models take the step, the property leaves the case out in its statement, and the note of
the hazard in `PROJECT.json` says so.

## 7. What is not modelled

* `external` is called in no stage (stage 4 finds `bn_ls` in its place);
  `MyshDispatch` has it as one word among those it does not know.  `free_var` is never
  called.
* `pwd` only shows the working directory.  The `echo` of `project_m1` shows its tokens.
* Memory: stage 4 loses a block for every token, which is plain from the code; the
  heap of `MyshDispatch` is there for what happens when `malloc` fails.
* `checkpasswd.c` does not link (it calls `exec1`), and `childcreates.c` does not compile.
* `serialize.c` and `deserialize.c` read standard input to its end and have no state.
* `strip`, `truncate`, `compare`, `invest`, `phone`, `score_card`: one loop or call
  over their arguments, without two pieces of state to relate; `greeting.c` is not
  written. `bitmapfun` inverts the pixels of one image.
* The tests, the feedback files, the two empty sources, `hello.c`, and the wording of
  messages.
