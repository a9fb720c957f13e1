------------------------------ MODULE ChatServer ------------------------------
(***************************************************************************)
(* The chat server of w10 and w11 (chat_server.c): one process that waits  *)
(* in select for its listening socket and its clients, accepts, reads, and *)
(* writes every message to all other clients, from the list of clients it  *)
(* changes while it walks it.  Clients connect, send, read and leave, and  *)
(* SIGINT comes, between any two of its steps.                             *)
(*                                                                         *)
(* The functions of chat_helpers.c and socket.c that read, write and       *)
(* remove are stubs to be completed.  `completed' says whether they are:   *)
(* if so they return any of the results that main tells apart.             *)
(*                                                                         *)
(* What a client sends comes in pieces: Ends says with which of them its   *)
(* messages are complete (the piece ends with a network newline).  Its     *)
(* first message is the user name.                                         *)
(***************************************************************************)
EXTENDS Integers, SequencesExt

CONSTANTS
  Client,       \* connections; each is made at most once
  None,         \* the null pointer
  Limits,       \* values of MAX_CONNECTIONS to build with
  Ends,         \* bound: the pieces that end each client's messages
  Capacity      \* messages that wait in a socket before write blocks

ASSUME ChatAssumption ==
  /\ None \notin Client
  /\ Limits \subseteq Nat
  /\ Ends \in [Client -> Seq(Nat \ {0})]
  /\ \A c \in Client : \A i, j \in DOMAIN Ends[c] : i < j => Ends[c][i] < Ends[c][j]
  /\ Capacity \in Nat \ {0}

VARIABLES
  conn,         \* each connection: "away", "queued", "open", "left", "closed"
  queue,        \* connections to accept
  sent,         \* pieces each client has sent
  waiting,      \* messages written to each client that it has not read
  clients,      \* the list of clients
  fd,           \* the descriptor of each client
  all_fds,      \* what select is to watch
  max_fd,       \* the highest descriptor it watches
  listen_fds,   \* what select returned, the listening socket as 0
  curr,         \* the client whose turn it is
  dest_c,       \* the client a message is written to next
  msg,          \* the message being written: <<sender, number>>
  read,         \* pieces read from each client into its buffer
  taken,        \* messages taken out of that buffer
  username,     \* who has one
  reached,      \* history: the clients msg was written to
  missed,       \* history: the clients to which it could not be written
  sigint_received,
  pc,           \* where main is
  limit,        \* MAX_CONNECTIONS
  completed     \* are the helpers completed?

network == <<conn, queue, sent, waiting>>
watched == <<all_fds, max_fd>>
buffers == <<read, taken, username>>
sending == <<dest_c, msg, missed, reached>>
build == <<limit, completed>>
server == <<clients, fd, watched, listen_fds, curr, buffers, sending, sigint_received, pc, build>>
vars == <<network, server>>

Pieces(c) == IF Ends[c] = << >> THEN 0 ELSE Last(Ends[c])

Stopped == {"done", "failed", "aborted", "killed"}
NoMsg == <<None, 0>>
Zero == [c \in Client |-> 0]

-----------------------------------------------------------------------------
(* The clients and their sockets.                                          *)

Connect(c) ==
  /\ conn[c] = "away"
  /\ pc \notin Stopped \cup {"setup"}
  /\ conn' = [conn EXCEPT ![c] = "queued"]
  /\ queue' = Append(queue, c)
  /\ UNCHANGED <<sent, waiting, server>>

Send(c) ==
  /\ conn[c] \in {"queued", "open"}
  /\ sent[c] < Pieces(c)
  /\ sent' = [sent EXCEPT ![c] = @ + 1]
  /\ UNCHANGED <<conn, queue, waiting, server>>

Receive(c) ==
  /\ conn[c] = "open"
  /\ waiting[c] > 0
  /\ waiting' = [waiting EXCEPT ![c] = @ - 1]
  /\ UNCHANGED <<conn, queue, sent, server>>

(* What it has sent can still be read. *)
Leave(c) ==
  /\ conn[c] \in {"queued", "open"}
  /\ conn' = [conn EXCEPT ![c] = "left"]
  /\ UNCHANGED <<queue, sent, waiting, server>>

(* read returns at once: there are bytes, or the end. *)
Readable(c) == read[c] < sent[c] \/ conn[c] = "left"

Writable(c) == waiting[c] < Capacity \/ conn[c] = "left"

(* Descriptors that have something for the server, 0 the listening socket. *)
Ready ==
  {fd[c] : c \in {x \in Range(clients) : fd[x] \in all_fds /\ fd[x] <= max_fd /\ Readable(x)}}
    \cup (IF queue # << >> THEN {0} ELSE {})

LowestFree(n) ==
  /\ \A c \in Range(clients) : fd[c] # n
  /\ \A k \in 1 .. n-1 : \E c \in Range(clients) : fd[c] = k

-----------------------------------------------------------------------------
(* The list.  A definition Name_Change differs from the code as a bug      *)
(* would; it only serves to show that a property notices.                  *)

First == IF clients = << >> THEN None ELSE Head(clients)

PlaceOf(c) == CHOOSE i \in DOMAIN clients : clients[i] = c

After(c) == IF PlaceOf(c) < Len(clients) THEN clients[PlaceOf(c) + 1] ELSE None

(* How far the count in accept_connection comes. *)
num_clients_Late == IF Len(clients) - 2 > 0 THEN Len(clients) - 2 ELSE 0
num_clients ==
  IF clients = << >> THEN 0
  ELSE IF Len(clients) - 1 < limit THEN Len(clients) - 1 ELSE limit

Watch_Last(n) == n
Watch(n) == IF n > max_fd THEN n ELSE max_fd

Cleared_Not(c) == all_fds
Cleared(c) == all_fds \ {fd[c]}

(* remove_client updates the caller's pointer to the node behind. *)
Behind_Skips(c) == IF After(c) = None THEN None ELSE After(After(c))
Behind_Stays(c) == c
Behind(c) == After(c)

(* The server closes c's socket and forgets it. *)
Close(c) ==
  /\ conn' = [conn EXCEPT ![c] = "closed"]
  /\ fd' = [fd EXCEPT ![c] = 0]
  /\ clients' = RemoveAt(clients, PlaceOf(c))
  /\ all_fds' = Cleared(c)
  /\ sent' = [sent EXCEPT ![c] = 0]
  /\ waiting' = [waiting EXCEPT ![c] = 0]
  /\ read' = [read EXCEPT ![c] = 0]
  /\ taken' = [taken EXCEPT ![c] = 0]
  /\ username' = username \ {c}
  /\ UNCHANGED <<queue, max_fd>>

(* The process ends, and with it its memory and its sockets. *)
Exits(how) ==
  /\ pc' = how
  /\ conn' = [c \in Client |-> "closed"]
  /\ queue' = << >> /\ clients' = << >> /\ reached' = << >>
  /\ sent' = Zero /\ waiting' = Zero /\ fd' = Zero /\ read' = Zero /\ taken' = Zero
  /\ all_fds' = {} /\ listen_fds' = {} /\ missed' = {} /\ username' = {}
  /\ max_fd' = 0 /\ curr' = None /\ dest_c' = None /\ msg' = NoMsg
  /\ UNCHANGED <<sigint_received, build>>

(* Steps that change nothing but where main is, and whose turn it is. *)
Turn(c, at) ==
  /\ pc' = at
  /\ curr' = c
  /\ UNCHANGED <<network, clients, fd, watched, listen_fds, buffers, sending,
                 sigint_received, build>>
Go(at) == Turn(curr, at)

-----------------------------------------------------------------------------
(* The start of main.                                                      *)

(* setup_server_socket: from its listen on, clients can connect. *)
Listen ==
  /\ pc = "setup"
  /\ Go("listening")

(* One of its calls fails. *)
SetupFails ==
  /\ pc = "setup"
  /\ Exits("failed")

InstallHandler ==
  /\ pc = "listening"
  /\ Go("top")

(* SIGINT before main has its handler takes the default action.            *)
KilledBySigint ==
  /\ pc \in {"setup", "listening"}
  /\ Exits("killed")

-----------------------------------------------------------------------------
(* The loop of main.                                                       *)

Noticed_Never == FALSE
Noticed == sigint_received

Select ==
  /\ pc = "top"
  /\ Go("select")

(* select returns what is ready; a SIGINT before it is noticed only now. *)
SelectReturns ==
  /\ pc = "select"
  /\ Ready # {}
  /\ listen_fds' = Ready
  /\ pc' = IF Noticed THEN "exit" ELSE "accept"
  /\ UNCHANGED <<network, clients, fd, watched, curr, buffers, sending,
                 sigint_received, build>>

(* Another signal interrupts select, or it fails. *)
SelectFails ==
  /\ pc = "select"
  /\ Ready = {}
  /\ Go("loop") \/ Go("exit")

AcceptNone ==
  /\ pc = "accept"
  /\ 0 \notin listen_fds
  /\ Go("check")

Accept ==
  /\ pc = "accept"
  /\ 0 \in listen_fds
  /\ queue # << >>
  /\ num_clients # limit
  /\ conn' = [conn EXCEPT ![Head(queue)] = IF @ = "left" THEN @ ELSE "open"]
  /\ clients' = Append(clients, Head(queue))
  /\ \E n \in 1 .. Len(clients) + 1 :
       /\ LowestFree(n)
       /\ fd' = [fd EXCEPT ![Head(queue)] = n]
       /\ all_fds' = all_fds \cup {n}
       /\ max_fd' = Watch(n)
  /\ queue' = Tail(queue)
  /\ pc' = "check"
  /\ UNCHANGED <<sent, waiting, listen_fds, curr, buffers, sending,
                 sigint_received, build>>

(* One too many: its socket is closed, and the clients that are ready have *)
(* to wait for the next turn.                                              *)
AcceptRefuses ==
  /\ pc = "accept"
  /\ 0 \in listen_fds
  /\ queue # << >>
  /\ num_clients = limit
  /\ conn' = [conn EXCEPT ![Head(queue)] = "closed"]
  /\ sent' = [sent EXCEPT ![Head(queue)] = 0]
  /\ queue' = Tail(queue)
  /\ pc' = "loop"
  /\ UNCHANGED <<waiting, clients, fd, watched, listen_fds, curr, buffers, sending,
                 sigint_received, build>>

(* accept fails, or a signal interrupts it: exit(1), no clean_exit. *)
AcceptFails ==
  /\ pc = "accept"
  /\ 0 \in listen_fds
  /\ Exits("failed")

CheckSigint ==
  /\ pc = "check"
  /\ IF Noticed THEN Go("exit") ELSE Turn(First, "scan")

(* while(!sigint_received) *)
LoopAgain ==
  /\ pc = "loop"
  /\ listen_fds' = {}
  /\ pc' = IF Noticed THEN "exit" ELSE "top"
  /\ UNCHANGED <<network, clients, fd, watched, curr, buffers, sending,
                 sigint_received, build>>

(* clean_exit. *)
CleanExit ==
  /\ pc = "exit"
  /\ Exits("done")

-----------------------------------------------------------------------------
(* The turn of each client.                                                *)

IsReady_Any(c) == TRUE
IsReady(c) == fd[c] \in listen_fds

ScanEnds ==
  /\ pc = "scan"
  /\ curr = None
  /\ Go("loop")

ScanSkips ==
  /\ pc = "scan"
  /\ curr # None
  /\ ~IsReady(curr)
  /\ Turn(After(curr), "scan")

ScanFinds ==
  /\ pc = "scan"
  /\ curr # None
  /\ IsReady(curr)
  /\ Go("read")

Complete_Early(c, n) == taken[c] < Len(Ends[c]) /\ n + 1 >= Ends[c][taken[c] + 1]

(* So many pieces hold a message that has not been taken. *)
Complete(c, n) == taken[c] < Len(Ends[c]) /\ n >= Ends[c][taken[c] + 1]

(* read_from_client returns 0: there is a message; 2: only a part of one.  *)
ReadSome ==
  /\ pc = "read"
  /\ completed
  /\ \E n \in read[curr]+1 .. sent[curr] :
       /\ read' = [read EXCEPT ![curr] = n]
       /\ IF Complete(curr, n)
            THEN /\ pc' = IF curr \in username THEN "echo" ELSE "name"
                 /\ curr' = curr
            ELSE /\ pc' = "scan"
                 /\ curr' = After(curr)
  /\ UNCHANGED <<network, clients, fd, watched, listen_fds, taken, username, sending,
                 sigint_received, build>>

(* It returns 1: the client has left. *)
ReadEnd ==
  /\ pc = "read"
  /\ completed
  /\ read[curr] = sent[curr]
  /\ conn[curr] = "left"
  /\ Go("close")

(* It returns -1: read fails, or the message is too long. *)
ReadError ==
  /\ pc = "read"
  /\ completed
  /\ Readable(curr)
  /\ Go("close")

(* It returns -1, as the stub always does. *)
ReadStub ==
  /\ pc = "read"
  /\ ~completed
  /\ Go("close")

SetUsername ==
  /\ pc = "name"
  /\ taken' = [taken EXCEPT ![curr] = @ + 1]
  /\ username' = username \cup {curr}
  /\ pc' = "echo"
  /\ UNCHANGED <<network, clients, fd, watched, listen_fds, curr, read, sending,
                 sigint_received, build>>

BadUsername ==
  /\ pc = "name"
  /\ Go("close")

(* get_message takes the next message out of the buffer. *)
GetMessage ==
  /\ pc = "echo"
  /\ Complete(curr, read[curr])
  /\ msg' = <<curr, taken[curr]>>
  /\ taken' = [taken EXCEPT ![curr] = @ + 1]
  /\ dest_c' = First
  /\ pc' = "send"
  /\ UNCHANGED <<network, clients, fd, watched, listen_fds, curr, read, username,
                 missed, reached, sigint_received, build>>

NoMessage ==
  /\ pc = "echo"
  /\ ~Complete(curr, read[curr])
  /\ Turn(After(curr), "scan")

IsSender(c) == c = curr

(* write_buf_to_client returns 0; it blocks while the client does not read.*)
Write ==
  /\ pc = "send"
  /\ dest_c # None
  /\ ~IsSender(dest_c)
  /\ Writable(dest_c)
  /\ waiting' = IF conn[dest_c] = "left" THEN waiting ELSE [waiting EXCEPT ![dest_c] = @ + 1]
  /\ reached' = Append(reached, dest_c)
  /\ dest_c' = After(dest_c)
  /\ UNCHANGED <<conn, queue, sent, clients, fd, watched, listen_fds, curr, buffers,
                 msg, missed, sigint_received, pc, build>>

(* It returns 1: an error, the client stays.  Bound: once for a message.   *)
WriteError ==
  /\ pc = "send"
  /\ missed = {}
  /\ dest_c # None
  /\ ~IsSender(dest_c)
  /\ missed' = missed \cup {dest_c}
  /\ dest_c' = After(dest_c)
  /\ UNCHANGED <<network, clients, fd, watched, listen_fds, curr, buffers, msg, reached,
                 sigint_received, pc, build>>

(* It returns 2: the client has left and is removed. *)
WriteDisconnected ==
  /\ pc = "send"
  /\ dest_c # None
  /\ ~IsSender(dest_c)
  /\ conn[dest_c] = "left"
  /\ Close(dest_c)
  /\ dest_c' = Behind(dest_c)
  /\ UNCHANGED <<listen_fds, curr, msg, missed, reached, sigint_received, pc, build>>

SendSkips ==
  /\ pc = "send"
  /\ dest_c # None
  /\ IsSender(dest_c)
  /\ dest_c' = After(dest_c)
  /\ UNCHANGED <<network, clients, fd, watched, listen_fds, curr, buffers, msg, missed,
                 reached, sigint_received, pc, build>>

SendEnds ==
  /\ pc = "send"
  /\ dest_c = None
  /\ pc' = "echo"
  /\ msg' = NoMsg
  /\ reached' = << >>
  /\ missed' = {}
  /\ UNCHANGED <<network, clients, fd, watched, listen_fds, curr, buffers, dest_c,
                 sigint_received, build>>

(* The client is removed; the stub removes nothing and the assertion fails.*)
CloseClient ==
  /\ pc = "close"
  /\ completed
  /\ Close(curr)
  /\ curr' = Behind(curr)
  /\ pc' = "scan"
  /\ UNCHANGED <<listen_fds, sending, sigint_received, build>>

AssertFails ==
  /\ pc = "close"
  /\ ~completed
  /\ Exits("aborted")

(* The handler only sets the flag; a select that waits is interrupted.     *)
Sigint ==
  /\ ~sigint_received
  /\ pc \notin Stopped \cup {"setup", "listening"}
  /\ sigint_received' = TRUE
  /\ pc' = IF pc = "select" /\ Ready = {} THEN "exit" ELSE pc
  /\ UNCHANGED <<network, clients, fd, watched, listen_fds, curr, buffers, sending, build>>

Init ==
  /\ conn = [c \in Client |-> "away"]
  /\ queue = << >>
  /\ sent = Zero
  /\ waiting = Zero
  /\ clients = << >>
  /\ fd = Zero
  /\ all_fds = {}
  /\ max_fd = 0
  /\ listen_fds = {}
  /\ curr = None
  /\ dest_c = None
  /\ msg = NoMsg
  /\ read = Zero
  /\ taken = Zero
  /\ username = {}
  /\ reached = << >>
  /\ missed = {}
  /\ sigint_received = FALSE
  /\ pc = "setup"
  /\ limit \in Limits
  /\ completed \in BOOLEAN

(* What the server does when no call fails, and what when one does. *)
Runs == Listen \/ InstallHandler \/ Select \/ SelectReturns \/ AcceptNone \/ Accept \/ AcceptRefuses \/ CheckSigint
        \/ LoopAgain \/ CleanExit \/ ScanEnds \/ ScanSkips \/ ScanFinds \/ ReadSome
        \/ ReadEnd \/ ReadStub \/ SetUsername \/ GetMessage \/ NoMessage \/ Write
        \/ WriteDisconnected \/ SendSkips \/ SendEnds \/ CloseClient \/ AssertFails
Fails == SetupFails \/ SelectFails \/ AcceptFails \/ ReadError \/ BadUsername \/ WriteError

Next ==
  \/ Runs \/ Fails \/ Sigint \/ KilledBySigint
  \/ \E c \in Client : Connect(c) \/ Send(c) \/ Receive(c) \/ Leave(c)

Spec == Init /\ [][Next]_vars

(* The server runs when it can, and a client that stays reads what it got. *)
FairSpec == Spec /\ WF_vars(Runs) /\ \A c \in Client : WF_vars(Receive(c))

-----------------------------------------------------------------------------
(* Properties.                                                             *)

TypeOK ==
  /\ conn \in [Client -> {"away", "queued", "open", "left", "closed"}]
  /\ queue \in Seq(Client)
  /\ \A c \in Client : sent[c] \in 0 .. Pieces(c) /\ read[c] \in 0 .. sent[c]
  /\ waiting \in [Client -> 0..Capacity]
  /\ clients \in Seq(Client)
  /\ fd \in [Client -> Nat]
  /\ all_fds \subseteq Nat
  /\ max_fd \in Nat
  /\ listen_fds \subseteq Nat
  /\ {curr, dest_c} \subseteq Client \cup {None}
  /\ pc \in {"setup", "listening", "top", "select", "accept", "check", "scan", "read",
             "name", "echo", "send", "close", "loop", "exit"} \cup Stopped
  /\ \A c \in Client : taken[c] \in 0 .. Cardinality({i \in DOMAIN Ends[c] : Ends[c][i] <= read[c]})
  /\ username \subseteq Range(clients) \/ pc \in Stopped
  /\ sigint_received \in BOOLEAN

(***************************************************************************)
(* Whatever clients do, and in whichever loop one is removed, select is    *)
(* asked for exactly the sockets of the clients in the list, each with a   *)
(* descriptor of its own, none above max_fd.                               *)
(***************************************************************************)
FdsMatch ==
  pc = "select" =>
    /\ all_fds = {fd[c] : c \in Range(clients)}
    /\ Cardinality(all_fds) = Len(clients)
    /\ \A n \in all_fds : n \in 1..max_fd

(***************************************************************************)
(* The server reads only where there is something to read: it never blocks *)
(* in read while other clients wait, also when clients were removed since  *)
(* select returned and descriptors used again.                             *)
(***************************************************************************)
ReadsReady == pc = "read" => Readable(curr)

(***************************************************************************)
(* curr and dest_c never point to a client that was removed: neither the   *)
(* loop over the clients nor the one inside it goes on from freed memory,  *)
(* whichever of the two removes, at either end of the list.                *)
(***************************************************************************)
PointersLive ==
  /\ pc \in {"scan", "read", "name", "echo", "send", "close"} =>
       curr \in Range(clients) \cup {None}
  /\ pc \in {"read", "name", "echo", "send", "close"} => curr # None
  /\ pc = "send" => dest_c \in Range(clients) \cup {None}

(***************************************************************************)
(* accept_connection does not count the last client of the list: one more  *)
(* than MAX_CONNECTIONS is let in, and never two.                          *)
(***************************************************************************)
AtMostOneOver == Len(clients) <= limit + 1

(* The clients from d on to the end of the list. *)
FromOn(d) == IF d = None THEN {} ELSE {clients[j] : j \in PlaceOf(d) .. Len(clients)}

(* Who still has to get msg, and how many messages each has sent. *)
Audience == IF pc = "send" THEN FromOn(dest_c) \ {curr} ELSE {}
Said == [c \in Client |-> IF taken[c] = 0 THEN 0 ELSE taken[c] - 1]

(***************************************************************************)
(* The loops over the list, and its changes while they walk it, are the    *)
(* room of ChatRoom: every message goes once to every client but its       *)
(* sender, in the order of its sender's, unless the client leaves or the   *)
(* write fails; SIGINT and failed calls do not cut it off.                 *)
(***************************************************************************)
Room == INSTANCE ChatRoom WITH
  open <- pc \notin Stopped,
  members <- Range(clients),
  said <- Said,
  message <- msg,
  audience <- Audience

ImplementsChatRoom == Room!Spec

(* Some complete message of c has not been taken. *)
HasSent(c) == conn[c] \in {"queued", "open"} /\ Complete(c, sent[c])

Speakers == {c \in Client : Ends[c] # << >>}

(***************************************************************************)
(* Every message of a client that stays is handled: no client is forgotten *)
(* in the list, in all_fds or behind max_fd, or waits behind one that does *)
(* not finish.  And SIGINT ends the server once something is ready at its  *)
(* sockets, also when it came just before select, or while a message was   *)
(* being written.  This is so when connections do not keep coming (each    *)
(* client makes one) and clients that stay read what they are sent; the    *)
(* code has no remedy for endless refusals, for a client that does not     *)
(* read, or for a SIGINT before a select to which nobody speaks any more.  *)
(***************************************************************************)
Responds ==
  \A c \in Speakers :
    HasSent(c) \/ (sigint_received /\ Ready # {})
      ~> pc \in Stopped \/ ~(HasSent(c) \/ sigint_received)

=============================================================================
