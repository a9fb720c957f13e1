--------------------------- MODULE ChatServer_proofs ---------------------------
(***************************************************************************)
(* The loops of the chat server over a list that changes while they walk   *)
(* it: their pointers stay in the list, no more clients than one over the  *)
(* limit are in it, and together they are the room of ChatRoom.            *)
(***************************************************************************)
EXTENDS ChatServer, FiniteSetTheorems, TLAPS

-----------------------------------------------------------------------------
(* Lists without repetition.                                               *)

Distinct(s) == \A i, j \in 1 .. Len(s) : s[i] = s[j] => i = j

PlaceIn(s, c) == CHOOSE i \in DOMAIN s : s[i] = c

Behind1(s, c) == IF PlaceIn(s, c) < Len(s) THEN s[PlaceIn(s, c) + 1] ELSE None

FromIn(s, d) == IF d = None THEN {} ELSE {s[j] : j \in PlaceIn(s, d) .. Len(s)}

(* A member has its place. *)
LEMMA PlaceFact ==
  ASSUME NEW s \in Seq(Client), Distinct(s), NEW c \in Range(s)
  PROVE  /\ PlaceIn(s, c) \in 1 .. Len(s)
         /\ s[PlaceIn(s, c)] = c
         /\ \A i \in 1 .. Len(s) : s[i] = c => i = PlaceIn(s, c)
BY DEF PlaceIn, Range, Distinct

(* What is behind a member: another one, or nothing. *)
LEMMA BehindFact ==
  ASSUME NEW s \in Seq(Client), Distinct(s), NEW c \in Range(s)
  PROVE  /\ Behind1(s, c) \in Range(s) \cup {None}
         /\ FromIn(s, Behind1(s, c)) = FromIn(s, c) \ {c}
<1> DEFINE p == PlaceIn(s, c)
<1>1. p \in 1 .. Len(s) /\ s[p] = c /\ c \in Client /\ c # None
  BY PlaceFact, ChatAssumption DEF Range
<1>2. CASE p = Len(s)
  <2>1. Behind1(s, c) = None
    BY <1>1, <1>2 DEF Behind1
  <2>2. FromIn(s, c) = {c}
    BY <1>1, <1>2 DEF FromIn
  <2> QED
    BY <2>1, <2>2 DEF FromIn
<1>3. CASE p < Len(s)
  <2> DEFINE d == s[p + 1]
  <2> p + 1 \in 1 .. Len(s)
    BY <1>1, <1>3
  <2>a. d \in Range(s) /\ d \in Client /\ d # c
    BY <1>1, <1>3 DEF Range, Distinct
  <2>1. Behind1(s, c) = d /\ d \in Range(s) /\ d \in Client /\ d # None /\ d # c
    BY <1>3, <2>a, ChatAssumption DEF Behind1
  <2>2. PlaceIn(s, d) = p + 1
    BY <1>1, <1>3, <2>1, PlaceFact
  <2>3. FromIn(s, d) = {s[j] : j \in p + 1 .. Len(s)}
    BY <2>1, <2>2 DEF FromIn
  <2>4. FromIn(s, c) = {s[j] : j \in p .. Len(s)}
    BY <1>1 DEF FromIn
  <2>5. \A j \in p .. Len(s) : s[j] = c <=> j = p
    BY <1>1 DEF Distinct
  <2>6. {s[j] : j \in p + 1 .. Len(s)} = {s[j] : j \in p .. Len(s)} \ {c}
    BY <1>1, <1>3, <2>5
  <2> QED
    BY <2>1, <2>3, <2>4, <2>6
<1> QED
  BY <1>1, <1>2, <1>3

(* It is another one. *)
LEMMA BehindOther ==
  ASSUME NEW s \in Seq(Client), Distinct(s), NEW c \in Range(s)
  PROVE  Behind1(s, c) \in Range(s) \cup {None} /\ Behind1(s, c) # c
<1> DEFINE p == PlaceIn(s, c)
<1>1. p \in 1 .. Len(s) /\ s[p] = c /\ c # None
  BY PlaceFact, ChatAssumption DEF Range
<1>2. p < Len(s) => s[p + 1] # c
  BY <1>1 DEF Distinct
<1> QED
  BY <1>1, <1>2, BehindFact DEF Behind1

(* The first of a list begins all of it. *)
LEMMA FirstFact ==
  ASSUME NEW s \in Seq(Client), Distinct(s), s # << >>
  PROVE  /\ Head(s) \in Range(s)
         /\ FromIn(s, Head(s)) = Range(s)
<1>1. Head(s) = s[1] /\ 1 \in 1 .. Len(s) /\ s[1] \in Range(s) /\ s[1] \in Client /\ s[1] # None
  BY ChatAssumption DEF Range
<1>2. PlaceIn(s, s[1]) = 1
  BY <1>1, PlaceFact
<1> QED
  BY <1>1, <1>2 DEF FromIn, Range

(* Where the others are in a list without one of its members. *)
LEMMA RemovedPlaces ==
  ASSUME NEW s \in Seq(Client), Distinct(s), NEW c \in Range(s),
         NEW t, t = RemoveAt(s, PlaceIn(s, c))
  PROVE  /\ t \in Seq(Client)
         /\ Len(t) = Len(s) - 1
         /\ \A i \in 1 .. Len(t) : t[i] = IF i < PlaceIn(s, c) THEN s[i] ELSE s[i + 1]
<1> DEFINE p == PlaceIn(s, c)
           a == SubSeq(s, 1, p - 1)
           b == SubSeq(s, p + 1, Len(s))
<1>1. p \in 1 .. Len(s)
  BY PlaceFact
<1>2. /\ t = a \o b
      /\ a \in Seq(Client) /\ Len(a) = p - 1 /\ \A i \in 1 .. p - 1 : a[i] = s[i]
      /\ b \in Seq(Client) /\ Len(b) = Len(s) - p /\ \A i \in 1 .. Len(s) - p : b[i] = s[p + i]
  <2>1. t = a \o b
    BY DEF RemoveAt
  <2>2. a \in Seq(Client) /\ Len(a) = p - 1 /\ \A i \in 1 .. p - 1 : a[i] = s[i]
    BY <1>1
  <2>3. b \in Seq(Client) /\ Len(b) = Len(s) - p /\ \A i \in 1 .. Len(s) - p : b[i] = s[p + i]
    <3>1. CASE p = Len(s)
      BY <1>1, <3>1
    <3>2. CASE p < Len(s)
      BY <1>1, <3>2
    <3> QED
      BY <1>1, <3>1, <3>2
  <2> QED
    BY <2>1, <2>2, <2>3
<1> HIDE DEF a, b
<1>3. t \in Seq(Client) /\ Len(t) = Len(s) - 1
  BY <1>1, <1>2
<1>4. ASSUME NEW i \in 1 .. p - 1 PROVE t[i] = s[i]
  BY <1>1, <1>2
<1>5. ASSUME NEW i \in p .. Len(s) - 1 PROVE t[i] = s[i + 1]
  <2>1. t[i] = b[i - Len(a)]
    <3>1. i \in 1 .. Len(a) + Len(b) /\ i > Len(a)
      BY <1>1, <1>2
    <3> QED
      BY <1>2, <3>1
  <2>2. i - Len(a) \in 1 .. Len(s) - p /\ p + (i - Len(a)) = i + 1
    BY <1>1, <1>2
  <2> QED
    BY <1>2, <2>1, <2>2
<1> QED
  BY <1>1, <1>3, <1>4, <1>5

(* A list without one of its members. *)
LEMMA RemoveFact ==
  ASSUME NEW s \in Seq(Client), Distinct(s), NEW c \in Range(s),
         NEW t, t = RemoveAt(s, PlaceIn(s, c))
  PROVE  /\ t \in Seq(Client)
         /\ Len(t) = Len(s) - 1
         /\ Distinct(t)
         /\ Range(t) = Range(s) \ {c}
         /\ FromIn(t, Behind1(s, c)) = FromIn(s, c) \ {c}
<1> DEFINE p == PlaceIn(s, c)
<1>1. p \in 1 .. Len(s) /\ s[p] = c /\ c \in Client /\ c # None
  BY PlaceFact, ChatAssumption DEF Range
<1>2. \A i \in 1 .. Len(s) : s[i] = c <=> i = p
  BY <1>1 DEF Distinct
<1>3. t \in Seq(Client) /\ Len(t) = Len(s) - 1
  BY RemovedPlaces
<1>4. /\ \A i \in 1 .. p - 1 : t[i] = s[i]
      /\ \A i \in p .. Len(s) - 1 : t[i] = s[i + 1]
  BY <1>1, <1>3, RemovedPlaces
<1>5. Distinct(t)
  <2> SUFFICES ASSUME NEW i \in 1 .. Len(t), NEW j \in 1 .. Len(t), t[i] = t[j] PROVE i = j
    BY DEF Distinct
  <2> DEFINE was(k) == IF k < p THEN k ELSE k + 1
  <2>1. ASSUME NEW k \in 1 .. Len(t) PROVE was(k) \in 1 .. Len(s) /\ t[k] = s[was(k)]
    <3>1. CASE k < p
      <4>1. k \in 1 .. p - 1 /\ was(k) = k /\ was(k) \in 1 .. Len(s)
        BY <1>1, <1>3, <3>1
      <4> QED
        BY <1>4, <4>1
    <3>2. CASE k >= p
      <4>1. k \in p .. Len(s) - 1 /\ was(k) = k + 1 /\ was(k) \in 1 .. Len(s)
        BY <1>1, <1>3, <3>2
      <4> QED
        BY <1>4, <4>1
    <3> QED
      BY <1>1, <3>1, <3>2
  <2>2. was(i) = was(j)
    <3> HIDE DEF was
    <3> QED
      BY <2>1 DEF Distinct
  <2> QED
    BY <1>1, <1>3, <2>2
<1>6. Range(t) = Range(s) \ {c}
  <2>1. ASSUME NEW x \in Range(t) PROVE x \in Range(s) \ {c}
    <3>1. PICK i \in 1 .. Len(s) - 1 : x = t[i]
      BY <1>3 DEF Range
    <3>2. CASE i < p
      BY <1>1, <1>2, <1>4, <3>1, <3>2 DEF Range
    <3>3. CASE i >= p
      BY <1>1, <1>2, <1>4, <3>1, <3>3 DEF Range
    <3> QED
      BY <1>1, <3>1, <3>2, <3>3
  <2>2. ASSUME NEW x \in Range(s) \ {c} PROVE x \in Range(t)
    <3>1. PICK i \in 1 .. Len(s) : s[i] = x /\ i # p
      BY <1>1 DEF Range
    <3>2. CASE i < p
      BY <1>1, <1>3, <1>4, <3>1, <3>2 DEF Range
    <3>3. CASE i > p
      <4>1. i - 1 \in 1 .. Len(t) /\ t[i - 1] = x
        BY <1>1, <1>3, <1>4, <3>1, <3>3
      <4> QED
        BY <1>3, <4>1 DEF Range
    <3> QED
      BY <1>1, <3>1, <3>2, <3>3
  <2> QED
    BY <2>1, <2>2
<1>7. FromIn(t, Behind1(s, c)) = FromIn(s, c) \ {c}
  <2>1. CASE p = Len(s)
    <3>1. Behind1(s, c) = None
      BY <1>1, <2>1 DEF Behind1
    <3>2. FromIn(s, c) = {c}
      BY <1>1, <2>1 DEF FromIn
    <3> QED
      BY <3>1, <3>2 DEF FromIn
  <2>2. CASE p < Len(s)
    <3> DEFINE d == s[p + 1]
    <3>a. p + 1 \in 1 .. Len(s) /\ p \in 1 .. Len(t) /\ p \in p .. Len(s) - 1
      BY <1>1, <1>3, <2>2
    <3>b. d \in Client /\ t[p] = d
      BY <1>4, <3>a
    <3>1. Behind1(s, c) = d /\ d \in Client /\ d # None /\ t[p] = d /\ p \in 1 .. Len(t)
      BY <2>2, <3>a, <3>b, ChatAssumption DEF Behind1
    <3>2. d \in Range(t)
      BY <1>3, <3>1 DEF Range
    <3>3. PlaceIn(t, d) = p
      BY <1>3, <1>5, <3>1, <3>2, PlaceFact
    <3>4. FromIn(t, d) = {t[j] : j \in p .. Len(t)}
      BY <3>1, <3>3 DEF FromIn
    <3>5. FromIn(s, c) = {s[j] : j \in p .. Len(s)}
      BY <1>1 DEF FromIn
    <3>6. \A j \in p .. Len(t) : t[j] = s[j + 1] /\ j + 1 \in p .. Len(s) /\ s[j + 1] # c
      BY <1>1, <1>2, <1>3, <1>4
    <3>7. \A j \in p .. Len(s) : s[j] # c => j - 1 \in p .. Len(t) /\ t[j - 1] = s[j]
      BY <1>1, <1>2, <1>3, <1>4
    <3>8. {t[j] : j \in p .. Len(t)} = {s[j] : j \in p .. Len(s)} \ {c}
      BY <3>6, <3>7
    <3> QED
      BY <3>1, <3>4, <3>5, <3>8
  <2> QED
    BY <1>1, <2>1, <2>2
<1> QED
  BY <1>3, <1>5, <1>6, <1>7

(* A list with one member more. *)
LEMMA AppendFact ==
  ASSUME NEW s \in Seq(Client), Distinct(s), NEW c \in Client, c \notin Range(s)
  PROVE  /\ Append(s, c) \in Seq(Client)
         /\ Len(Append(s, c)) = Len(s) + 1
         /\ Distinct(Append(s, c))
         /\ Range(Append(s, c)) = Range(s) \cup {c}
<1>1. Append(s, c) \in Seq(Client) /\ Len(Append(s, c)) = Len(s) + 1
  OBVIOUS
<1>2. Append(s, c)[Len(s) + 1] = c /\ \A i \in 1 .. Len(s) : Append(s, c)[i] = s[i]
  OBVIOUS
<1>3. \A i \in 1 .. Len(s) : s[i] # c
  BY DEF Range
<1>4. Distinct(Append(s, c))
  BY <1>1, <1>2, <1>3 DEF Distinct
<1>5. Range(Append(s, c)) = Range(s) \cup {c}
  BY <1>1, <1>2 DEF Range
<1> QED
  BY <1>1, <1>4, <1>5

(* A list without its first member. *)
LEMMA TailFact ==
  ASSUME NEW s \in Seq(Client), Distinct(s), s # << >>
  PROVE  /\ Head(s) \in Client /\ Head(s) \in Range(s)
         /\ Tail(s) \in Seq(Client)
         /\ Distinct(Tail(s))
         /\ Range(Tail(s)) = Range(s) \ {Head(s)}
<1>1. Head(s) = s[1] /\ Tail(s) \in Seq(Client) /\ Len(Tail(s)) = Len(s) - 1 /\ Len(s) > 0
  OBVIOUS
<1>2. \A i \in 1 .. Len(s) - 1 : Tail(s)[i] = s[i + 1]
  OBVIOUS
<1>3. Distinct(Tail(s))
  BY <1>1, <1>2 DEF Distinct
<1>4. \A i \in 2 .. Len(s) : s[i] # s[1] /\ Tail(s)[i - 1] = s[i]
  BY <1>1, <1>2 DEF Distinct
<1>5. Range(s) = {s[i] : i \in 1 .. Len(s)} /\ Range(Tail(s)) = {Tail(s)[i] : i \in 1 .. Len(s) - 1}
  <2>1. DOMAIN s = 1 .. Len(s) /\ DOMAIN Tail(s) = 1 .. Len(s) - 1
    BY <1>1
  <2> QED
    BY <2>1 DEF Range
<1>6. ASSUME NEW x \in Range(Tail(s)) PROVE x \in Range(s) \ {Head(s)}
  <2>1. PICK i \in 1 .. Len(s) - 1 : x = Tail(s)[i]
    BY <1>5
  <2>2. x = s[i + 1] /\ i + 1 \in 2 .. Len(s)
    BY <1>1, <1>2, <2>1
  <2> QED
    BY <1>1, <1>4, <1>5, <2>2
<1>7. ASSUME NEW x \in Range(s) \ {Head(s)} PROVE x \in Range(Tail(s))
  <2>1. PICK i \in 1 .. Len(s) : x = s[i]
    BY <1>5
  <2>2. i # 1 /\ i - 1 \in 1 .. Len(s) - 1
    BY <1>1, <2>1
  <2>3. x = Tail(s)[i - 1]
    BY <1>1, <1>4, <2>1, <2>2
  <2> QED
    BY <1>5, <2>2, <2>3
<1>8. Head(s) \in Range(s) /\ Head(s) \in Client
  BY <1>1, <1>5
<1> QED
  BY <1>1, <1>3, <1>6, <1>7, <1>8

-----------------------------------------------------------------------------
(* The inductive invariant.                                                *)

(* A connection is at one place of one of the lists, or not in them. *)
Lists ==
  /\ clients \in Seq(Client) /\ Distinct(clients)
  /\ queue \in Seq(Client) /\ Distinct(queue)
  /\ Range(queue) \cap Range(clients) = {}
  /\ conn \in [Client -> {"away", "queued", "open", "left", "closed"}]
  /\ \A c \in Client : conn[c] = "away" => c \notin Range(queue) /\ c \notin Range(clients)

OneOver == limit \in Nat /\ AtMostOneOver

(* Who has sent a message is a client with a name. *)
Names ==
  /\ taken \in [Client -> Nat]
  /\ username \subseteq Range(clients)
  /\ \A c \in Client : c \in username <=> taken[c] # 0

(* The message is the last one of the client whose turn it is. *)
Message ==
  /\ pc \in {"echo", "send"} => curr \in username
  /\ pc = "name" => curr \notin username
  /\ pc = "send" => msg = <<curr, taken[curr] - 1>>
  /\ pc # "send" => msg = NoMsg /\ missed = {} /\ reached = << >>

IInv == Lists /\ PointersLive /\ OneOver /\ Names /\ Message

(* The list is one of clients. *)
LEMMA ClientsOf ==
  ASSUME IInv
  PROVE  Range(clients) \subseteq Client
<1>1. clients \in Seq(Client) /\ DOMAIN clients = 1 .. Len(clients)
  BY DEF IInv, Lists
<1> QED
  BY <1>1 DEF Range

(* What After, First and the audience are, in terms of lists. *)
LEMMA ListTerms ==
  /\ \A c : After(c) = Behind1(clients, c)
  /\ Audience = IF pc = "send" THEN FromIn(clients, dest_c) \ {curr} ELSE {}
  /\ Audience' = IF pc' = "send" THEN FromIn(clients', dest_c') \ {curr'} ELSE {}
BY DEF After, Behind1, PlaceOf, PlaceIn, Audience, FromOn, FromIn

(* First is in the list, if there is one. *)
LEMMA FirstIn ==
  ASSUME Lists
  PROVE  First \in Range(clients) \cup {None} /\ FromIn(clients, First) = Range(clients)
<1>1. CASE clients = << >>
  BY <1>1 DEF First, FromIn, Range
<1>2. CASE clients # << >>
  BY <1>2, FirstFact DEF First, Lists
<1> QED
  BY <1>1, <1>2

THEOREM InitIInv == Init => IInv
<1> SUFFICES ASSUME Init PROVE IInv
  OBVIOUS
<1>1. clients = << >> /\ queue = << >> /\ clients \in Seq(Client) /\ Len(clients) = 0 /\ Range(clients) = {}
  BY DEF Init, Range
<1>2. Lists
  BY <1>1 DEF Init, Lists, Distinct
<1>3. PointersLive /\ OneOver
  BY <1>1, ChatAssumption DEF Init, PointersLive, OneOver, AtMostOneOver
<1>4. Names /\ Message
  BY <1>1 DEF Init, Zero, Names, Message, NoMsg
<1> QED
  BY <1>2, <1>3, <1>4 DEF IInv

-----------------------------------------------------------------------------
(* One step.  It preserves the invariant, and it is a step of the room or  *)
(* one the room does not see.                                              *)

RoomStep == [Room!Next]_(Room!vars)

(* Outside of the loop that writes, the room sees the list and the texts. *)
LEMMA Quiet ==
  ASSUME pc \notin Stopped, pc # "send", pc' \notin Stopped, pc' # "send",
         UNCHANGED <<clients, taken, msg, missed, reached>>
  PROVE  RoomStep
<1>1. Audience' = Audience /\ Said' = Said /\ Range(clients)' = Range(clients)
  BY ListTerms DEF Said
<1> QED
  BY <1>1 DEF RoomStep, Room!vars

(* The steps of the clients and of a signal. *)
LEMMA NetworkStep ==
  ASSUME IInv, NEW c \in Client, Connect(c) \/ Send(c) \/ Receive(c) \/ Leave(c)
  PROVE  IInv' /\ RoomStep
<1>1. UNCHANGED server
  BY DEF Connect, Send, Receive, Leave
<1>2. PointersLive' /\ OneOver' /\ Names' /\ Message'
  BY <1>1 DEF IInv, PointersLive, OneOver, AtMostOneOver, Names, Message, NoMsg, server, buffers, sending, build
<1>3. Lists'
  <2>1. CASE Connect(c)
    <3>1. c \notin Range(queue) /\ c \notin Range(clients) /\ queue \in Seq(Client) /\ Distinct(queue)
      BY <2>1 DEF Connect, IInv, Lists
    <3>2. queue' = Append(queue, c) /\ clients' = clients /\ conn' = [conn EXCEPT ![c] = "queued"]
      BY <2>1, <1>1 DEF Connect, server
    <3>3. queue' \in Seq(Client) /\ Distinct(queue') /\ Range(queue') = Range(queue) \cup {c}
      BY <3>1, <3>2, AppendFact
    <3> QED
      BY <3>1, <3>2, <3>3 DEF IInv, Lists
  <2>2. CASE Send(c) \/ Receive(c)
    BY <1>1, <2>2 DEF Send, Receive, IInv, Lists, server
  <2>3. CASE Leave(c)
    BY <1>1, <2>3 DEF Leave, IInv, Lists, server
  <2> QED
    BY <2>1, <2>2, <2>3
<1>4. RoomStep
  <2>1. Audience' = Audience /\ Said' = Said /\ Range(clients)' = Range(clients)
    BY <1>1, ListTerms DEF Said, server, buffers, sending
  <2> QED
    BY <1>1, <2>1 DEF RoomStep, Room!vars, server, sending
<1> QED
  BY <1>2, <1>3, <1>4 DEF IInv

(* Where main may go on, and with whom. *)
MayTurn(c, at) ==
  /\ at \in {"listening", "top", "select", "accept", "check", "scan", "read", "close", "loop", "exit"}
  /\ at \in {"scan", "read", "close"} => c \in Range(clients) \cup {None}
  /\ at \in {"read", "close"} => c # None

(* The steps that only change whose turn it is. *)
LEMMA TurnStep ==
  ASSUME IInv, NEW c, NEW at, Turn(c, at), pc \notin Stopped, pc # "send", MayTurn(c, at)
  PROVE  IInv' /\ RoomStep
<1>1. UNCHANGED <<conn, queue, clients, taken, username, msg, missed, reached, limit, dest_c>>
      /\ pc' = at /\ curr' = c
  BY DEF Turn, network, buffers, sending, build
<1>2. Lists' /\ OneOver' /\ Names'
  BY <1>1 DEF IInv, Lists, OneOver, AtMostOneOver, Names
<1>3. PointersLive'
  BY <1>1 DEF PointersLive, MayTurn
<1>4. Message'
  BY <1>1 DEF IInv, Message, NoMsg, MayTurn
<1>5. RoomStep
  BY <1>1, Quiet DEF MayTurn, Stopped
<1> QED
  BY <1>2, <1>3, <1>4, <1>5 DEF IInv

(* The end of the process. *)
LEMMA ExitStep ==
  ASSUME IInv, NEW how \in Stopped, Exits(how), pc \notin Stopped, pc # "send"
  PROVE  IInv' /\ RoomStep
<1>1. /\ clients' = << >> /\ queue' = << >> /\ pc' = how /\ taken' = Zero /\ username' = {}
      /\ conn' = [c \in Client |-> "closed"] /\ msg' = NoMsg /\ missed' = {} /\ reached' = << >>
      /\ limit' = limit
  BY DEF Exits, build
<1>2. clients' \in Seq(Client) /\ Len(clients') = 0 /\ Range(clients') = {} /\ Range(queue') = {}
  BY <1>1 DEF Range
<1>3. Lists' /\ OneOver'
  BY <1>1, <1>2 DEF IInv, Lists, Distinct, OneOver, AtMostOneOver
<1>4. PointersLive' /\ Names' /\ Message'
  BY <1>1 DEF PointersLive, Names, Message, Zero, NoMsg, Stopped
<1>5. msg = NoMsg /\ missed = {} /\ reached = << >> /\ Audience = {} /\ Audience' = {}
  BY <1>1, ListTerms DEF IInv, Message, Stopped
<1>6. Said' = [c \in Client |-> 0]
  BY <1>1 DEF Said, Zero
<1>7. Room!Shut
  BY <1>1, <1>2, <1>5, <1>6 DEF Room!Shut, Room!NoMessage, Room!Silence, NoMsg, Stopped
<1> QED
  BY <1>3, <1>4, <1>7 DEF IInv, RoomStep, Room!Next

(* A client is removed, by either loop. *)
LEMMA CloseLists ==
  ASSUME IInv, NEW c \in Range(clients), Close(c), UNCHANGED limit
  PROVE  /\ Lists' /\ Names' /\ OneOver'
         /\ Range(clients)' = Range(clients) \ {c}
         /\ FromIn(clients', After(c)) = FromIn(clients, c) \ {c}
         /\ After(c) \in (Range(clients) \ {c}) \cup {None}
         /\ Said' = [Said EXCEPT ![c] = 0]
<1>1. /\ clients \in Seq(Client) /\ Distinct(clients) /\ c \in Client
      /\ taken \in [Client -> Nat]
  BY DEF IInv, Lists, Names, Range
<1>2. /\ clients' = RemoveAt(clients, PlaceIn(clients, c)) /\ queue' = queue
      /\ conn' = [conn EXCEPT ![c] = "closed"]
      /\ taken' = [taken EXCEPT ![c] = 0] /\ username' = username \ {c}
  BY DEF Close, PlaceOf, PlaceIn
<1>3. /\ clients' \in Seq(Client) /\ Len(clients') = Len(clients) - 1 /\ Distinct(clients')
      /\ Range(clients') = Range(clients) \ {c}
      /\ FromIn(clients', Behind1(clients, c)) = FromIn(clients, c) \ {c}
  BY <1>1, <1>2, RemoveFact
<1>4. Lists'
  BY <1>2, <1>3 DEF IInv, Lists
<1>5. Names'
  BY <1>1, <1>2, <1>3 DEF IInv, Names
<1>6. OneOver'
  BY <1>1, <1>3 DEF IInv, OneOver, AtMostOneOver
<1>7. After(c) \in (Range(clients) \ {c}) \cup {None} /\ After(c) = Behind1(clients, c)
  <2>1. Behind1(clients, c) \in Range(clients) \cup {None} /\ Behind1(clients, c) # c
    BY <1>1, BehindOther
  <2> QED
    BY <2>1, ListTerms
<1>8. Said' = [Said EXCEPT ![c] = 0]
  BY <1>1, <1>2 DEF Said
<1> QED
  BY <1>3, <1>4, <1>5, <1>6, <1>7, <1>8

(* accept_connection lets a client in, or refuses it. *)
LEMMA AcceptStep ==
  ASSUME IInv, Accept \/ AcceptRefuses
  PROVE  IInv' /\ RoomStep
<1>1. /\ clients \in Seq(Client) /\ Distinct(clients) /\ queue \in Seq(Client) /\ Distinct(queue)
      /\ queue # << >> /\ pc = "accept" /\ limit \in Nat /\ Len(clients) <= limit + 1
      /\ msg = NoMsg /\ missed = {} /\ reached = << >>
  BY DEF Accept, AcceptRefuses, IInv, Lists, OneOver, AtMostOneOver, Message
<1> DEFINE h == Head(queue)
<1>2. /\ h \in Client /\ h \in Range(queue) /\ h \notin Range(clients)
      /\ Tail(queue) \in Seq(Client) /\ Distinct(Tail(queue)) /\ Range(Tail(queue)) = Range(queue) \ {h}
  BY <1>1, TailFact DEF IInv, Lists
<1> HIDE DEF h
<1>3. UNCHANGED <<taken, username, msg, missed, reached, limit, curr>> /\ queue' = Tail(queue)
      /\ pc' \in {"check", "loop"}
  BY DEF Accept, AcceptRefuses, buffers, sending, build
<1>4. PointersLive' /\ Message'
  BY <1>1, <1>3 DEF PointersLive, Message, NoMsg
<1>5. CASE Accept
  <2>1. /\ clients' = Append(clients, h) /\ num_clients # limit
        /\ conn' = [conn EXCEPT ![h] = IF @ = "left" THEN @ ELSE "open"]
    BY <1>5 DEF Accept, h
  <2>2. /\ clients' \in Seq(Client) /\ Len(clients') = Len(clients) + 1 /\ Distinct(clients')
        /\ Range(clients') = Range(clients) \cup {h}
    BY <1>1, <1>2, <2>1, AppendFact
  <2>3. Lists'
    BY <1>2, <1>3, <2>1, <2>2 DEF IInv, Lists
  <2>4. Len(clients) <= limit
    <3>1. CASE clients = << >>
      BY <1>1, <3>1
    <3>2. CASE clients # << >>
      BY <1>1, <2>1, <3>2 DEF num_clients
    <3> QED
      BY <3>1, <3>2
  <2>5. OneOver' /\ Names'
    BY <1>1, <1>3, <2>2, <2>4 DEF IInv, OneOver, AtMostOneOver, Names
  <2>6. Audience = {} /\ Audience' = {} /\ Said' = Said
    BY <1>1, <1>3, ListTerms DEF Said
  <2>7. Room!Join(h)
    BY <1>1, <1>2, <1>3, <2>2, <2>6 DEF Room!Join, Room!NoMessage, NoMsg, Stopped
  <2> QED
    BY <1>2, <1>4, <2>3, <2>5, <2>7 DEF IInv, RoomStep, Room!Next
<1>6. CASE AcceptRefuses
  <2>1. clients' = clients /\ conn' = [conn EXCEPT ![h] = "closed"]
    BY <1>6 DEF AcceptRefuses, h
  <2>2. Lists'
    BY <1>2, <1>3, <2>1 DEF IInv, Lists
  <2>3. OneOver' /\ Names'
    BY <1>3, <2>1 DEF IInv, OneOver, AtMostOneOver, Names
  <2>4. RoomStep
    BY <1>1, <1>3, <2>1, Quiet DEF Stopped
  <2> QED
    BY <1>4, <2>2, <2>3, <2>4 DEF IInv
<1> QED
  BY <1>5, <1>6

(* A client is read from, gets its name, or has a message to send. *)
LEMMA ReadStep ==
  ASSUME IInv, ReadSome \/ SetUsername \/ GetMessage
  PROVE  IInv' /\ RoomStep
<1>1. /\ UNCHANGED <<conn, queue, clients, missed, reached, limit>>
      /\ pc \in {"read", "name", "echo"} /\ curr \in Range(clients) /\ curr \in Client
      /\ clients \in Seq(Client) /\ Distinct(clients) /\ taken \in [Client -> Nat]
      /\ msg = NoMsg /\ missed = {} /\ reached = << >>
  <2>1. /\ UNCHANGED <<conn, queue, clients, missed, reached, limit>>
        /\ pc \in {"read", "name", "echo"}
    BY DEF ReadSome, SetUsername, GetMessage, network, sending, build
  <2>2. curr \in Range(clients) /\ curr \in Client
    BY <2>1, ClientsOf DEF IInv, PointersLive
  <2> QED
    BY <2>1, <2>2 DEF IInv, Lists, Names, Message
<1>2. Lists' /\ OneOver'
  BY <1>1 DEF IInv, Lists, OneOver, AtMostOneOver
<1>3. CASE ReadSome
  <2>1. /\ UNCHANGED <<taken, username, msg, dest_c>>
        /\ \/ pc' = "scan" /\ curr' = After(curr)
           \/ pc' = "echo" /\ curr' = curr /\ curr \in username
           \/ pc' = "name" /\ curr' = curr /\ curr \notin username
    BY <1>3 DEF ReadSome, sending
  <2>2. After(curr) \in Range(clients) \cup {None}
    BY <1>1, BehindOther, ListTerms
  <2>3. PointersLive'
    BY <1>1, <2>1, <2>2, ChatAssumption DEF IInv, PointersLive
  <2>4. Names' /\ Message'
    BY <1>1, <2>1 DEF IInv, Names, Message, NoMsg
  <2>5. RoomStep
    BY <1>1, <2>1, Quiet DEF Stopped
  <2> QED
    BY <1>2, <2>3, <2>4, <2>5 DEF IInv
<1>4. CASE SetUsername
  <2>1. /\ UNCHANGED <<msg, dest_c, curr>> /\ pc = "name" /\ pc' = "echo"
        /\ taken' = [taken EXCEPT ![curr] = @ + 1] /\ username' = username \cup {curr}
        /\ taken[curr] = 0
    BY <1>1, <1>4 DEF SetUsername, sending, IInv, Message, Names
  <2>2. PointersLive' /\ Names' /\ Message'
    BY <1>1, <2>1 DEF IInv, PointersLive, Names, Message, NoMsg
  <2>3. Audience = {} /\ Audience' = {} /\ Said' = Said
    BY <1>1, <2>1, ListTerms DEF Said
  <2>4. RoomStep
    BY <1>1, <2>1, <2>3 DEF RoomStep, Room!vars, Stopped
  <2> QED
    BY <1>2, <2>2, <2>4 DEF IInv
<1>5. CASE GetMessage
  <2>1. /\ UNCHANGED <<username, curr>> /\ pc = "echo" /\ pc' = "send"
        /\ taken' = [taken EXCEPT ![curr] = @ + 1] /\ msg' = <<curr, taken[curr]>>
        /\ dest_c' = First /\ curr \in username /\ taken[curr] # 0
    BY <1>1, <1>5 DEF GetMessage, IInv, Message, Names
  <2>2. First \in Range(clients) \cup {None} /\ FromIn(clients, First) = Range(clients)
    BY FirstIn DEF IInv
  <2>3. PointersLive'
    BY <1>1, <2>1, <2>2 DEF IInv, PointersLive
  <2>a. taken'[curr] = taken[curr] + 1 /\ taken'[curr] - 1 = taken[curr] /\ taken' \in [Client -> Nat]
        /\ \A c \in Client : c # curr => taken'[c] = taken[c]
    <3>1. curr \in Client /\ taken[curr] \in Nat
      BY <1>1
    <3>2. taken'[curr] = taken[curr] + 1
      BY <1>1, <2>1, <3>1
    <3>3. taken'[curr] - 1 = taken[curr] /\ taken'[curr] \in Nat
      BY <3>1, <3>2
    <3>4. taken' \in [Client -> Nat]
      BY <1>1, <2>1, <3>2, <3>3
    <3>5. \A c \in Client : c # curr => taken'[c] = taken[c]
      BY <1>1, <2>1
    <3> QED
      BY <3>2, <3>3, <3>4, <3>5
  <2>b. Names'
    BY <1>1, <2>1, <2>a DEF IInv, Names
  <2>4. Names' /\ Message'
    BY <2>1, <2>a, <2>b DEF Message
  <2>5. Audience = {} /\ Audience' = Range(clients) \ {curr}
    BY <1>1, <2>1, <2>2, ListTerms
  <2>6. Said' = [Said EXCEPT ![curr] = @ + 1] /\ msg' = <<curr, Said[curr] + 1>>
    <3>1. \A c \in Client : Said[c] = (IF taken[c] = 0 THEN 0 ELSE taken[c] - 1)
      BY DEF Said
    <3>2. \A c \in Client : Said'[c] = IF c = curr THEN Said[c] + 1 ELSE Said[c]
      BY <1>1, <2>1 DEF Said
    <3>3. Said[curr] + 1 = taken[curr]
      <4>1. taken[curr] \in Nat /\ taken[curr] # 0 /\ curr \in Client
        BY <1>1, <2>1
      <4>2. Said[curr] = taken[curr] - 1
        BY <3>1, <4>1
      <4> QED
        BY <4>1, <4>2
    <3> QED
      BY <1>1, <2>1, <3>2, <3>3 DEF Said
  <2>7. Room!Post(curr)
    BY <1>1, <2>1, <2>5, <2>6 DEF Room!Post, Room!NoMessage, NoMsg, Stopped
  <2> QED
    BY <1>1, <1>2, <2>3, <2>4, <2>7 DEF IInv, RoomStep, Room!Next
<1> QED
  BY <1>3, <1>4, <1>5

(* The loop that writes goes on to the next client. *)
LEMMA SendStep ==
  ASSUME IInv, Write \/ WriteError \/ WriteDisconnected \/ SendSkips
  PROVE  IInv' /\ RoomStep
<1>1. /\ pc = "send" /\ pc' = "send" /\ dest_c # None /\ dest_c \in Range(clients) /\ dest_c \in Client
      /\ UNCHANGED <<curr, msg, limit>> /\ curr \in username /\ curr \in Client
      /\ clients \in Seq(Client) /\ Distinct(clients) /\ taken \in [Client -> Nat]
      /\ msg = <<curr, taken[curr] - 1>>
  <2>1. /\ pc = "send" /\ pc' = "send" /\ dest_c # None /\ UNCHANGED <<curr, msg, limit>>
    BY DEF Write, WriteError, WriteDisconnected, SendSkips, sending, build
  <2>2. dest_c \in Range(clients) /\ curr \in username /\ username \subseteq Range(clients)
    BY <2>1 DEF IInv, PointersLive, Names, Message
  <2> QED
    BY <2>1, <2>2, ClientsOf DEF IInv, Lists, Names, Message
<1>2. /\ After(dest_c) \in Range(clients) \cup {None}
      /\ FromIn(clients, After(dest_c)) = FromIn(clients, dest_c) \ {dest_c}
      /\ dest_c \in FromIn(clients, dest_c)
  <2>1. PlaceIn(clients, dest_c) \in 1 .. Len(clients) /\ clients[PlaceIn(clients, dest_c)] = dest_c
    BY <1>1, PlaceFact
  <2>2. dest_c \in FromIn(clients, dest_c)
    BY <1>1, <2>1 DEF FromIn
  <2> QED
    BY <1>1, <2>2, BehindFact, ListTerms
<1>3. Audience = FromIn(clients, dest_c) \ {curr} /\ Audience' = FromIn(clients', dest_c') \ {curr}
  BY <1>1, ListTerms
<1>4. CASE Write \/ WriteError \/ SendSkips
  <2>1. UNCHANGED <<queue, clients, taken, username>> /\ dest_c' = After(dest_c) /\ conn' = conn
    BY <1>4 DEF Write, WriteError, SendSkips, network, buffers
  <2>2. Lists' /\ PointersLive' /\ OneOver' /\ Names' /\ Message'
    BY <1>1, <1>2, <2>1 DEF IInv, Lists, PointersLive, OneOver, AtMostOneOver, Names, Message
  <2>3. Audience' = Audience \ {dest_c} /\ Said' = Said
    BY <1>1, <1>2, <1>3, <2>1 DEF Said
  <2>4. CASE Write
    <3>1. dest_c # curr /\ reached' = Append(reached, dest_c) /\ missed' = missed
      BY <2>4 DEF Write, IsSender
    <3>2. Room!Deliver(dest_c)
      BY <1>1, <1>2, <1>3, <2>1, <2>3, <3>1 DEF Room!Deliver, Stopped
    <3> QED
      BY <1>1, <2>2, <3>2 DEF IInv, RoomStep, Room!Next
  <2>5. CASE WriteError
    <3>1. dest_c # curr /\ reached' = reached /\ missed' = missed \cup {dest_c}
      BY <2>5 DEF WriteError, IsSender
    <3>2. Room!Miss(dest_c)
      BY <1>1, <1>2, <1>3, <2>1, <2>3, <3>1 DEF Room!Miss, Stopped
    <3> QED
      BY <1>1, <2>2, <3>2 DEF IInv, RoomStep, Room!Next
  <2>6. CASE SendSkips
    <3>1. dest_c = curr /\ reached' = reached /\ missed' = missed
      BY <2>6 DEF SendSkips, IsSender
    <3>2. Audience' = Audience
      BY <1>3, <2>3, <3>1
    <3> QED
      BY <1>1, <2>1, <2>2, <2>3, <3>1, <3>2 DEF IInv, RoomStep, Room!vars, Stopped
  <2> QED
    BY <1>4, <2>2, <2>4, <2>5, <2>6 DEF IInv
<1>5. CASE WriteDisconnected
  <2>1. /\ Close(dest_c) /\ dest_c' = After(dest_c) /\ dest_c # curr
        /\ UNCHANGED <<missed, reached>>
    BY <1>5 DEF WriteDisconnected, Behind, IsSender
  <2>2. /\ Lists' /\ Names' /\ OneOver'
        /\ Range(clients)' = Range(clients) \ {dest_c}
        /\ FromIn(clients', After(dest_c)) = FromIn(clients, dest_c) \ {dest_c}
        /\ After(dest_c) \in (Range(clients) \ {dest_c}) \cup {None}
        /\ Said' = [Said EXCEPT ![dest_c] = 0]
    BY <1>1, <2>1, CloseLists
  <2>3. PointersLive'
    BY <1>1, <2>1, <2>2 DEF IInv, PointersLive
  <2>4. username' = username \ {dest_c} /\ taken' = [taken EXCEPT ![dest_c] = 0]
    BY <2>1 DEF Close
  <2>5. Message'
    BY <1>1, <2>1, <2>4 DEF Message
  <2>6. Audience' = Audience \ {dest_c}
    BY <1>3, <2>1, <2>2
  <2>7. Room!Leave(dest_c)
    BY <1>1, <2>1, <2>2, <2>6 DEF Room!Leave, Stopped
  <2> QED
    BY <1>1, <2>2, <2>3, <2>5, <2>7 DEF IInv, RoomStep, Room!Next
<1> QED
  BY <1>4, <1>5

(* The loop that writes is at the end of the list. *)
LEMMA SendEndsStep ==
  ASSUME IInv, SendEnds
  PROVE  IInv' /\ RoomStep
<1>1. /\ pc = "send" /\ pc' = "echo" /\ dest_c = None /\ msg' = NoMsg /\ missed' = {} /\ reached' = << >>
      /\ UNCHANGED <<conn, queue, clients, taken, username, curr, dest_c, limit>>
      /\ curr \in username /\ curr \in Client /\ msg = <<curr, taken[curr] - 1>>
  <2>1. curr \in username /\ username \subseteq Range(clients) /\ msg = <<curr, taken[curr] - 1>>
    BY DEF SendEnds, IInv, Names, Message
  <2> QED
    BY <2>1, ClientsOf DEF SendEnds, network, buffers, build
<1>2. Lists' /\ PointersLive' /\ OneOver' /\ Names' /\ Message'
  BY <1>1 DEF IInv, Lists, PointersLive, OneOver, AtMostOneOver, Names, Message, NoMsg
<1>3. Audience = {} /\ Audience' = {} /\ Said' = Said
  BY <1>1, ListTerms DEF FromIn, Said
<1>4. msg # NoMsg
  BY <1>1, ChatAssumption DEF NoMsg
<1>5. Room!Done
  BY <1>1, <1>3, <1>4 DEF Room!Done, Room!NoMessage, NoMsg, Stopped
<1> QED
  BY <1>2, <1>5 DEF IInv, RoomStep, Room!Next

(* The client whose turn it is is removed. *)
LEMMA CloseClientStep ==
  ASSUME IInv, CloseClient
  PROVE  IInv' /\ RoomStep
<1>1. /\ pc = "close" /\ pc' = "scan" /\ Close(curr) /\ curr' = After(curr)
      /\ UNCHANGED <<msg, missed, reached, limit, dest_c>>
      /\ curr \in Range(clients) /\ curr \in Client
      /\ msg = NoMsg /\ missed = {} /\ reached = << >>
  <2>1. curr \in Range(clients) /\ msg = NoMsg /\ missed = {} /\ reached = << >>
    BY DEF CloseClient, IInv, PointersLive, Message
  <2> QED
    BY <2>1, ClientsOf DEF CloseClient, Behind, sending, build
<1>2. /\ Lists' /\ Names' /\ OneOver'
      /\ Range(clients)' = Range(clients) \ {curr}
      /\ After(curr) \in (Range(clients) \ {curr}) \cup {None}
      /\ Said' = [Said EXCEPT ![curr] = 0]
  BY <1>1, CloseLists
<1>3. PointersLive' /\ Message'
  BY <1>1, <1>2 DEF PointersLive, Message, NoMsg
<1>4. Audience = {} /\ Audience' = {}
  BY <1>1, ListTerms
<1>5. Room!Leave(curr)
  BY <1>1, <1>2, <1>4, ChatAssumption DEF Room!Leave, NoMsg, Stopped
<1> QED
  BY <1>1, <1>2, <1>3, <1>5 DEF IInv, RoomStep, Room!Next

(* The steps that only change what select returned, and the signal. *)
LEMMA LoopStep ==
  ASSUME IInv, SelectReturns \/ LoopAgain \/ Sigint
  PROVE  IInv' /\ RoomStep
<1>1. /\ UNCHANGED <<conn, queue, clients, taken, username, msg, missed, reached, curr, dest_c, limit>>
      /\ pc \notin Stopped
      /\ pc' = pc \/ (pc \in {"select", "loop"} /\ pc' \in {"exit", "accept", "top"})
  BY DEF SelectReturns, LoopAgain, Sigint, network, buffers, sending, build, Stopped
<1>2. Lists' /\ PointersLive' /\ OneOver' /\ Names' /\ Message'
  BY <1>1 DEF IInv, Lists, PointersLive, OneOver, AtMostOneOver, Names, Message, NoMsg
<1>3. Audience' = Audience /\ Said' = Said
  BY <1>1, ListTerms DEF Said
<1>4. RoomStep
  BY <1>1, <1>3 DEF RoomStep, Room!vars, Stopped
<1> QED
  BY <1>2, <1>4 DEF IInv

(* The steps of main that go on, or end, without anything else. *)
LEMMA GoStep ==
  ASSUME IInv,
         \/ Listen \/ InstallHandler \/ Select \/ SelectFails \/ AcceptNone \/ CheckSigint
         \/ ScanEnds \/ ScanSkips \/ ScanFinds \/ ReadEnd \/ ReadError \/ ReadStub
         \/ BadUsername \/ NoMessage
  PROVE  IInv' /\ RoomStep
<1>1. CASE Listen \/ InstallHandler \/ Select \/ SelectFails \/ AcceptNone \/ ScanEnds
  <2>1. PICK at \in {"listening", "top", "select", "loop", "exit", "check"} : Turn(curr, at)
    BY <1>1 DEF Listen, InstallHandler, Select, SelectFails, AcceptNone, ScanEnds, Go
  <2>2. pc \in {"setup", "listening", "top", "select", "accept", "scan"}
    BY <1>1 DEF Listen, InstallHandler, Select, SelectFails, AcceptNone, ScanEnds
  <2> QED
    BY <2>1, <2>2, TurnStep DEF MayTurn, Stopped
<1>2. CASE CheckSigint
  <2>1. PICK c, at : Turn(c, at) /\ (at = "exit" \/ (at = "scan" /\ c = First))
    BY <1>2 DEF CheckSigint, Go
  <2>2. First \in Range(clients) \cup {None} /\ pc = "check"
    BY <1>2, FirstIn DEF IInv, CheckSigint
  <2> QED
    BY <2>1, <2>2, TurnStep DEF MayTurn, Stopped
<1>3. CASE ScanSkips \/ NoMessage
  <2>1. Turn(After(curr), "scan") /\ pc \in {"scan", "echo"} /\ curr \in Range(clients)
    BY <1>3 DEF ScanSkips, NoMessage, IInv, PointersLive
  <2>2. After(curr) \in Range(clients) \cup {None}
    BY <2>1, BehindOther, ListTerms DEF IInv, Lists
  <2> QED
    BY <2>1, <2>2, TurnStep DEF MayTurn, Stopped
<1>4. CASE ScanFinds \/ ReadEnd \/ ReadError \/ ReadStub \/ BadUsername
  <2>1. PICK at \in {"read", "close"} : Turn(curr, at)
    BY <1>4 DEF ScanFinds, ReadEnd, ReadError, ReadStub, BadUsername, Go
  <2>2. pc \in {"scan", "read", "name"} /\ curr \in Range(clients) \cup {None} /\ curr # None
    BY <1>4 DEF ScanFinds, ReadEnd, ReadError, ReadStub, BadUsername, IInv, PointersLive
  <2> QED
    BY <2>1, <2>2, TurnStep DEF MayTurn, Stopped
<1> QED
  BY <1>1, <1>2, <1>3, <1>4

-----------------------------------------------------------------------------
(* Every step preserves the invariant and is a step of the room. *)
THEOREM NextIInv == IInv /\ [Next]_vars => IInv' /\ RoomStep
<1> SUFFICES ASSUME IInv, [Next]_vars PROVE IInv' /\ RoomStep
  OBVIOUS
<1>1. CASE \E c \in Client : Connect(c) \/ Send(c) \/ Receive(c) \/ Leave(c)
  BY <1>1, NetworkStep
<1>2. CASE SetupFails \/ KilledBySigint \/ AcceptFails \/ CleanExit \/ AssertFails
  <2>1. PICK how \in Stopped : Exits(how)
    BY <1>2 DEF SetupFails, KilledBySigint, AcceptFails, CleanExit, AssertFails, Stopped
  <2>2. pc \in {"setup", "listening", "accept", "exit", "close"}
    BY <1>2 DEF SetupFails, KilledBySigint, AcceptFails, CleanExit, AssertFails
  <2> QED
    BY <2>1, <2>2, ExitStep DEF Stopped
<1>3. CASE UNCHANGED vars
  <2>1. /\ UNCHANGED <<conn, queue, clients, taken, username, msg, missed, reached, curr, dest_c, limit, pc>>
    BY <1>3 DEF vars, network, server, buffers, sending, build
  <2>2. IInv'
    BY <2>1 DEF IInv, Lists, PointersLive, OneOver, AtMostOneOver, Names, Message, NoMsg
  <2>3. Audience' = Audience /\ Said' = Said
    BY <2>1, ListTerms DEF Said
  <2> QED
    BY <2>1, <2>2, <2>3 DEF RoomStep, Room!vars
<1> QED
  BY <1>1, <1>2, <1>3, AcceptStep, ReadStep, SendStep, SendEndsStep, CloseClientStep, LoopStep, GoStep
  DEF Next, Runs, Fails

THEOREM IInvHolds == Spec => []IInv
BY InitIInv, NextIInv, PTL DEF Spec

(***************************************************************************)
(* However many clients come, leave and are removed, and in whichever of   *)
(* the two loops over the list: no loop goes on from a client that was     *)
(* removed.                                                                *)
(***************************************************************************)
THEOREM PointersLiveHolds == Spec => []PointersLive
<1>1. IInv => PointersLive
  BY DEF IInv
<1> QED
  BY <1>1, IInvHolds, PTL

(* Never two more clients than MAX_CONNECTIONS, whatever it is. *)
THEOREM AtMostOneOverHolds == Spec => []AtMostOneOver
<1>1. IInv => AtMostOneOver
  BY DEF IInv, OneOver
<1> QED
  BY <1>1, IInvHolds, PTL

(***************************************************************************)
(* The server implements the room: each message is written once to every   *)
(* client in the list but its sender, unless the client leaves or the      *)
(* write fails, before the next message is taken.                          *)
(***************************************************************************)
THEOREM RoomImplemented == Spec => ImplementsChatRoom
<1>1. Init => Room!Init
  <2> SUFFICES ASSUME Init PROVE Room!Init
    OBVIOUS
  <2>1. Range(clients) = {} /\ Audience = {} /\ Said = [c \in Client |-> 0]
    BY ListTerms DEF Init, Range, Said, Zero
  <2> QED
    BY <2>1 DEF Init, Room!Init, Room!NoMessage, Room!Silence, NoMsg, Stopped
<1>2. IInv /\ [Next]_vars => [Room!Next]_(Room!vars)
  BY NextIInv DEF RoomStep
<1> QED
  BY <1>1, <1>2, IInvHolds, PTL DEF Spec, ImplementsChatRoom, Room!Spec

-----------------------------------------------------------------------------
(***************************************************************************)
(* The descriptors of the chat server: what select is asked to watch is    *)
(* the list of clients, and what it returned stays true of the clients     *)
(* whose turn is still to come, though clients are let in and removed in   *)
(* the meantime and descriptors are used again.                            *)
(***************************************************************************)

(* Each client of the list has a descriptor of its own, which is watched. *)
Fds ==
  /\ fd \in [Client -> Nat]
  /\ max_fd \in Nat
  /\ all_fds = {fd[c] : c \in Range(clients)}
  /\ \A c \in Range(clients) : fd[c] \in 1 .. max_fd
  /\ \A c, d \in Range(clients) : fd[c] = fd[d] => c = d

(* The clients whose turn is still to come, and the one whose turn it is. *)
Due ==
  IF pc \in {"accept", "check"} THEN Range(clients)
  ELSE IF pc \in {"scan", "read"} THEN FromIn(clients, curr)
  ELSE IF pc \in {"name", "echo", "send", "close"} THEN FromIn(clients, curr) \ {curr}
  ELSE {}

(* What select returned is true of them. *)
Readiness ==
  /\ read \in [Client -> Nat] /\ sent \in [Client -> Nat]
  /\ \A c \in Due : fd[c] \in listen_fds => Readable(c)
  /\ pc = "read" => fd[curr] \in listen_fds
  /\ pc = "accept" => listen_fds \subseteq all_fds \cup {0}

FInv == IInv /\ Fds /\ Readiness

(* What is left of a list behind a client, when another one is removed. *)
LEMMA OtherRemoved ==
  ASSUME NEW s \in Seq(Client), Distinct(s), NEW c \in Range(s), NEW e \in Range(s), e # c,
         NEW t, t = RemoveAt(s, PlaceIn(s, c)), NEW d \in FromIn(t, e)
  PROVE  d \in FromIn(s, e) /\ d # c
<1> DEFINE p == PlaceIn(s, c)
           q == PlaceIn(s, e)
<1>1. /\ p \in 1 .. Len(s) /\ s[p] = c /\ q \in 1 .. Len(s) /\ s[q] = e /\ p # q
      /\ e # None
  BY PlaceFact, ChatAssumption DEF Range
<1>2. t \in Seq(Client) /\ Len(t) = Len(s) - 1 /\ Distinct(t) /\ Range(t) = Range(s) \ {c}
  BY RemoveFact
<1>3. \A i \in 1 .. Len(t) : t[i] = IF i < p THEN s[i] ELSE s[i + 1]
  BY RemovedPlaces
<1>4. PlaceIn(t, e) \in 1 .. Len(t) /\ t[PlaceIn(t, e)] = e
  BY <1>2, PlaceFact
<1>5. PICK j \in PlaceIn(t, e) .. Len(t) : d = t[j]
  BY <1>1 DEF FromIn
<1>6. PlaceIn(t, e) = IF q < p THEN q ELSE q - 1
  <2>1. PlaceIn(t, e) < p => PlaceIn(t, e) = q
    BY <1>1, <1>2, <1>3, <1>4 DEF Distinct
  <2>2. ~(PlaceIn(t, e) < p) => PlaceIn(t, e) + 1 = q
    BY <1>1, <1>2, <1>3, <1>4 DEF Distinct
  <2> QED
    BY <1>1, <1>2, <1>4, <2>1, <2>2
<1>7. d # c
  <2>1. j \in 1 .. Len(t) /\ DOMAIN t = 1 .. Len(t)
    BY <1>2, <1>4, <1>5
  <2> QED
    BY <1>2, <1>5, <2>1 DEF Range
<1>8. CASE j < p
  <2>1. d = s[j] /\ j \in q .. Len(s)
    BY <1>1, <1>2, <1>3, <1>4, <1>5, <1>6, <1>8
  <2> QED
    BY <1>1, <1>7, <2>1 DEF FromIn
<1>9. CASE j >= p
  <2>1. d = s[j + 1] /\ j + 1 \in q .. Len(s)
    BY <1>1, <1>2, <1>3, <1>4, <1>5, <1>6, <1>9
  <2> QED
    BY <1>1, <1>7, <2>1 DEF FromIn
<1> QED
  BY <1>1, <1>2, <1>4, <1>5, <1>8, <1>9

THEOREM InitFInv == Init => FInv
<1> SUFFICES ASSUME Init PROVE FInv
  OBVIOUS
<1>1. Range(clients) = {} /\ pc = "setup"
  BY DEF Init, Range
<1>2. Fds /\ Readiness
  BY <1>1 DEF Init, Fds, Readiness, Due, Zero
<1> QED
  BY <1>2, InitIInv DEF FInv

-----------------------------------------------------------------------------
(* One step.                                                               *)

(* No descriptor changes. *)
LEMMA FdsKept ==
  ASSUME Fds, UNCHANGED <<clients, fd, all_fds, max_fd>>
  PROVE  Fds'
BY DEF Fds

(* No socket changes, and nobody's turn comes a second time. *)
LEMMA ReadinessKept ==
  ASSUME Readiness, UNCHANGED <<conn, read, sent, fd, listen_fds, all_fds>>, Due' \subseteq Due,
         pc' = "accept" => pc = "accept",
         pc' = "read" => fd[curr'] \in listen_fds
  PROVE  Readiness'
BY DEF Readiness, Readable

(* What comes behind the client whose turn it is. *)
LEMMA DueBehind ==
  ASSUME IInv, curr \in Range(clients)
  PROVE  FromIn(clients, After(curr)) = FromIn(clients, curr) \ {curr}
BY BehindFact, ListTerms DEF IInv, Lists

LEMMA NetworkFds ==
  ASSUME FInv, NEW c \in Client, Connect(c) \/ Send(c) \/ Receive(c) \/ Leave(c)
  PROVE  Fds' /\ Readiness'
<1>1. UNCHANGED <<clients, fd, all_fds, max_fd, listen_fds, read, pc, curr>>
  BY DEF Connect, Send, Receive, Leave, server, watched, buffers
<1>2. Due' = Due
  BY <1>1 DEF Due, FromIn, PlaceIn
<1>3. sent' \in [Client -> Nat] /\ \A x \in Due : Readable(x) => Readable(x)'
  <2>1. CASE Connect(c)
    BY <1>1, <2>1 DEF Connect, FInv, IInv, Lists, Readiness, Readable
  <2>2. CASE Send(c)
    BY <1>1, <2>2 DEF Send, FInv, Readiness, Readable
  <2>3. CASE Receive(c)
    BY <1>1, <2>3 DEF Receive, FInv, Readiness, Readable
  <2>4. CASE Leave(c)
    BY <1>1, <2>4 DEF Leave, FInv, IInv, Lists, Readiness, Readable
  <2> QED
    BY <2>1, <2>2, <2>3, <2>4
<1> QED
  BY <1>1, <1>2, <1>3, FdsKept DEF FInv, Readiness

LEMMA ExitFds ==
  ASSUME FInv, NEW how \in Stopped, Exits(how)
  PROVE  Fds' /\ Readiness'
<1>1. /\ clients' = << >> /\ fd' = Zero /\ all_fds' = {} /\ max_fd' = 0 /\ sent' = Zero /\ read' = Zero
      /\ pc' \in Stopped
  BY DEF Exits
<1>2. Range(clients)' = {} /\ Due' = {}
  BY <1>1 DEF Range, Due, Stopped
<1> QED
  BY <1>1, <1>2 DEF Fds, Readiness, Zero, Stopped

(* The steps of main that change no socket and no list. *)
LEMMA MainFds ==
  ASSUME FInv,
         \/ Listen \/ InstallHandler \/ Select \/ SelectFails \/ AcceptNone \/ CheckSigint
         \/ ScanEnds \/ ScanSkips \/ ScanFinds \/ ReadEnd \/ ReadError \/ ReadStub
         \/ BadUsername \/ NoMessage \/ Sigint
         \/ SetUsername \/ GetMessage \/ Write \/ WriteError \/ SendSkips \/ SendEnds
  PROVE  Fds' /\ Readiness'
<1>1. UNCHANGED <<clients, fd, all_fds, max_fd, listen_fds, conn, read, sent>>
  BY DEF Listen, InstallHandler, Select, SelectFails, AcceptNone, CheckSigint, ScanEnds, ScanSkips, ScanFinds,
     ReadEnd, ReadError, ReadStub, BadUsername, NoMessage, Sigint, SetUsername, GetMessage, Write, WriteError,
     SendSkips, SendEnds, Go, Turn, network, watched, buffers
<1>2. Fds'
  BY <1>1, FdsKept DEF FInv
<1>3. CASE Listen \/ InstallHandler \/ Select \/ SelectFails \/ ScanEnds
  <2>1. pc' \in {"listening", "top", "select", "loop", "exit"} /\ Due' = {}
    BY <1>3 DEF Listen, InstallHandler, Select, SelectFails, ScanEnds, Go, Turn, Due
  <2> QED
    BY <1>1, <1>2, <2>1, ReadinessKept DEF FInv
<1>4. CASE AcceptNone
  <2>1. pc = "accept" /\ pc' = "check" /\ Due' = Due
    BY <1>1, <1>4 DEF AcceptNone, Go, Turn, Due
  <2> QED
    BY <1>1, <1>2, <2>1, ReadinessKept DEF FInv
<1>5. CASE CheckSigint
  <2>1. pc = "check" /\ (pc' = "exit" \/ (pc' = "scan" /\ curr' = First))
    BY <1>5 DEF CheckSigint, Go, Turn
  <2>2. Due' \subseteq Due
    BY <1>1, <2>1, FirstIn DEF Due, FInv, IInv
  <2> QED
    BY <1>1, <1>2, <2>1, <2>2, ReadinessKept DEF FInv
<1>6. CASE ScanSkips \/ NoMessage
  <2>1. pc \in {"scan", "echo"} /\ pc' = "scan" /\ curr' = After(curr) /\ curr \in Range(clients)
    BY <1>6 DEF ScanSkips, NoMessage, Turn, FInv, IInv, PointersLive
  <2>2. Due' \subseteq Due
    BY <1>1, <2>1, DueBehind DEF Due, FInv
  <2> QED
    BY <1>1, <1>2, <2>1, <2>2, ReadinessKept DEF FInv
<1>7. CASE ScanFinds
  <2>1. pc = "scan" /\ pc' = "read" /\ curr' = curr /\ fd[curr] \in listen_fds
    BY <1>7 DEF ScanFinds, IsReady, Go, Turn
  <2>2. Due' = Due
    BY <1>1, <2>1 DEF Due
  <2> QED
    BY <1>1, <1>2, <2>1, <2>2, ReadinessKept DEF FInv
<1>8. CASE \/ ReadEnd \/ ReadError \/ ReadStub \/ BadUsername
           \/ SetUsername \/ GetMessage \/ Write \/ WriteError \/ SendSkips \/ SendEnds
  <2>1. /\ pc \in {"read", "name", "echo", "send"} /\ pc' \in {"name", "echo", "send", "close"}
        /\ curr' = curr
    BY <1>8 DEF ReadEnd, ReadError, ReadStub, BadUsername, SetUsername, GetMessage, Write, WriteError,
       SendSkips, SendEnds, Go, Turn
  <2>2. Due' \subseteq Due
    BY <1>1, <2>1 DEF Due
  <2> QED
    BY <1>1, <1>2, <2>1, <2>2, ReadinessKept DEF FInv
<1>9. CASE Sigint
  <2>1. (pc' = pc \/ pc' = "exit") /\ curr' = curr
    BY <1>9 DEF Sigint
  <2>2. Due' \subseteq Due
    BY <1>1, <2>1 DEF Due
  <2> QED
    BY <1>1, <1>2, <2>1, <2>2, ReadinessKept DEF FInv, Readiness
<1> QED
  BY <1>3, <1>4, <1>5, <1>6, <1>7, <1>8, <1>9

(* select returns, or what it returned is forgotten. *)
LEMMA LoopFds ==
  ASSUME FInv, SelectReturns \/ LoopAgain
  PROVE  Fds' /\ Readiness'
<1>1. UNCHANGED <<clients, fd, all_fds, max_fd, conn, read, sent, curr>>
  BY DEF SelectReturns, LoopAgain, network, watched, buffers
<1>2. Fds'
  BY <1>1, FdsKept DEF FInv
<1>3. CASE SelectReturns
  <2>1. pc' \in {"exit", "accept"} /\ listen_fds' = Ready
    BY <1>3 DEF SelectReturns
  <2>2. Due' \subseteq Range(clients)
    BY <1>1, <2>1 DEF Due
  <2>3. ASSUME NEW c \in Range(clients), fd[c] \in Ready PROVE Readable(c)
    <3>1. fd[c] # 0
      BY DEF FInv, Fds
    <3>2. PICK x \in Range(clients) : fd[x] = fd[c] /\ Readable(x)
      BY <2>3, <3>1 DEF Ready
    <3> QED
      BY <3>2 DEF FInv, Fds
  <2>4. Ready \subseteq all_fds \cup {0}
    BY DEF Ready
  <2> QED
    BY <1>1, <1>2, <2>1, <2>2, <2>3, <2>4 DEF FInv, Readiness, Readable
<1>4. CASE LoopAgain
  <2>1. pc' \in {"exit", "top"} /\ Due' = {}
    BY <1>4 DEF LoopAgain, Due
  <2> QED
    BY <1>1, <1>2, <2>1 DEF FInv, Readiness
<1> QED
  BY <1>3, <1>4

LEMMA AcceptFds ==
  ASSUME FInv, Accept \/ AcceptRefuses
  PROVE  Fds' /\ Readiness'
<1> DEFINE h == Head(queue)
<1>1. h \in Client /\ h \notin Range(clients) /\ pc = "accept" /\ UNCHANGED <<read, listen_fds>>
  <2>1. queue \in Seq(Client) /\ Distinct(queue) /\ queue # << >> /\ Range(queue) \cap Range(clients) = {}
    BY DEF Accept, AcceptRefuses, FInv, IInv, Lists
  <2> QED
    BY <2>1, TailFact DEF Accept, AcceptRefuses, buffers
<1>2. CASE Accept
  <2>1. /\ UNCHANGED sent /\ pc' = "check" /\ clients' = Append(clients, h)
        /\ conn' = [conn EXCEPT ![h] = IF @ = "left" THEN @ ELSE "open"]
    BY <1>2 DEF Accept
  <2>2. PICK n \in 1 .. Len(clients) + 1 :
          /\ LowestFree(n) /\ fd' = [fd EXCEPT ![h] = n]
          /\ all_fds' = all_fds \cup {n} /\ max_fd' = Watch(n)
    BY <1>2 DEF Accept
  <2>3. Range(clients)' = Range(clients) \cup {h} /\ clients \in Seq(Client) /\ Range(clients) \subseteq Client
    <3> HIDE DEF h
    <3>1. clients \in Seq(Client) /\ Distinct(clients)
      BY DEF FInv, IInv, Lists
    <3> QED
      BY <1>1, <2>1, <3>1, AppendFact, ClientsOf DEF FInv
  <2>4. n \in Nat /\ n > 0 /\ max_fd' \in Nat /\ n <= max_fd' /\ max_fd <= max_fd'
    BY <2>2, <2>3 DEF Watch, FInv, Fds
  <2>5. \A c \in Range(clients) : fd[c] # n /\ fd'[c] = fd[c]
    BY <1>1, <2>2, <2>3 DEF LowestFree, FInv, Fds
  <2>6. fd'[h] = n /\ fd' \in [Client -> Nat]
    BY <1>1, <2>2, <2>4 DEF FInv, Fds
  <2>7. Fds'
    <3>1. all_fds' = {fd'[c] : c \in Range(clients')}
      BY <2>2, <2>3, <2>5, <2>6 DEF FInv, Fds
    <3>2. \A c \in Range(clients') : fd'[c] \in 1 .. max_fd'
      BY <2>3, <2>4, <2>5, <2>6 DEF FInv, Fds
    <3>3. \A c, d \in Range(clients') : fd'[c] = fd'[d] => c = d
      BY <2>3, <2>5, <2>6 DEF FInv, Fds
    <3> QED
      BY <2>4, <2>6, <3>1, <3>2, <3>3 DEF Fds
  <2>8. n \notin listen_fds
    <3>1. listen_fds \subseteq {fd[c] : c \in Range(clients)} \cup {0}
      BY <1>1 DEF FInv, Fds, Readiness
    <3> QED
      BY <2>4, <2>5, <3>1
  <2>9. \A c \in Range(clients) : fd[c] \in listen_fds => Readable(c)
    BY <1>1 DEF FInv, Readiness, Due
  <2>10. \A c \in Due' : fd'[c] \in listen_fds => Readable(c)'
    BY <1>1, <2>1, <2>3, <2>5, <2>6, <2>8, <2>9 DEF Due, Readable
  <2> QED
    BY <1>1, <2>1, <2>7, <2>10 DEF FInv, Readiness
<1>3. CASE AcceptRefuses
  <2>1. UNCHANGED <<clients, fd, all_fds, max_fd>> /\ pc' = "loop" /\ sent' = [sent EXCEPT ![h] = 0]
    BY <1>3 DEF AcceptRefuses, watched
  <2>2. Due' = {}
    BY <2>1 DEF Due
  <2> QED
    BY <1>1, <2>1, <2>2, FdsKept DEF FInv, Readiness
<1> QED
  BY <1>2, <1>3

LEMMA ReadFds ==
  ASSUME FInv, ReadSome
  PROVE  Fds' /\ Readiness'
<1>1. /\ UNCHANGED <<clients, fd, all_fds, max_fd, listen_fds, conn, sent>> /\ pc = "read"
      /\ \/ pc' = "scan" /\ curr' = After(curr)
         \/ pc' \in {"echo", "name"} /\ curr' = curr
  BY DEF ReadSome, network, watched
<1>2. curr \in Range(clients) /\ curr \in Client
  BY <1>1 DEF FInv, IInv, PointersLive, Lists, Range
<1>3. PICK n \in read[curr] + 1 .. sent[curr] : read' = [read EXCEPT ![curr] = n]
  BY DEF ReadSome
<1>4. read' \in [Client -> Nat] /\ \A c : c # curr => (Readable(c) => Readable(c)')
  BY <1>1, <1>2, <1>3 DEF FInv, Readiness, Readable
<1>5. Due' \subseteq Due /\ curr \notin Due'
  BY <1>1, <1>2, DueBehind DEF Due, FInv
<1> QED
  BY <1>1, <1>4, <1>5, FdsKept DEF FInv, Readiness

(* A client is removed: its descriptor is free, the others keep theirs. *)
LEMMA CloseFds ==
  ASSUME FInv, NEW c \in Range(clients), Close(c), UNCHANGED <<limit, listen_fds>>,
         Due' \subseteq Due \ {c}, pc' \notin {"accept", "read"}
  PROVE  Fds' /\ Readiness'
<1>1. /\ fd' = [fd EXCEPT ![c] = 0] /\ all_fds' = all_fds \ {fd[c]} /\ max_fd' = max_fd
      /\ sent' = [sent EXCEPT ![c] = 0] /\ read' = [read EXCEPT ![c] = 0]
      /\ conn' = [conn EXCEPT ![c] = "closed"]
  BY DEF Close, Cleared
<1>2. Range(clients)' = Range(clients) \ {c} /\ Range(clients) \subseteq Client
  BY CloseLists, ClientsOf DEF FInv
<1>3. \A x \in Range(clients) \ {c} : fd'[x] = fd[x] /\ fd[x] # fd[c]
  BY <1>1, <1>2 DEF FInv, Fds
<1>4. Fds'
  <2>1. all_fds' = {fd'[x] : x \in Range(clients')}
    BY <1>1, <1>2, <1>3 DEF FInv, Fds
  <2> QED
    BY <1>1, <1>2, <1>3, <2>1 DEF FInv, Fds
<1>5. \A x \in Due' : x \in Due /\ fd'[x] = fd[x] /\ (Readable(x) => Readable(x)')
  BY <1>1 DEF FInv, Fds, Readable
<1>6. read' \in [Client -> Nat] /\ sent' \in [Client -> Nat]
  BY <1>1 DEF FInv, Readiness
<1>7. \A x \in Due' : fd'[x] \in listen_fds' => Readable(x)'
  BY <1>5 DEF FInv, Readiness
<1> QED
  BY <1>4, <1>6, <1>7 DEF Readiness

LEMMA CloseStepFds ==
  ASSUME FInv, CloseClient \/ WriteDisconnected
  PROVE  Fds' /\ Readiness'
<1>1. CASE CloseClient
  <2>1. /\ Close(curr) /\ curr \in Range(clients) /\ pc = "close" /\ pc' = "scan" /\ curr' = After(curr)
        /\ UNCHANGED <<limit, listen_fds>>
    BY <1>1 DEF CloseClient, Behind, build, FInv, IInv, PointersLive
  <2>2. FromIn(clients', After(curr)) = FromIn(clients, curr) \ {curr}
    BY <2>1, CloseLists DEF FInv
  <2>3. Due' \subseteq Due \ {curr}
    BY <2>1, <2>2 DEF Due
  <2> QED
    BY <2>1, <2>3, CloseFds
<1>2. CASE WriteDisconnected
  <2>1. /\ Close(dest_c) /\ dest_c \in Range(clients) /\ dest_c # curr /\ curr \in Range(clients)
        /\ pc = "send" /\ pc' = "send" /\ curr' = curr
        /\ UNCHANGED <<limit, listen_fds>>
    BY <1>2 DEF WriteDisconnected, IsSender, build, FInv, IInv, PointersLive
  <2>2. clients' = RemoveAt(clients, PlaceIn(clients, dest_c)) /\ clients \in Seq(Client) /\ Distinct(clients)
    BY <2>1 DEF Close, PlaceOf, PlaceIn, FInv, IInv, Lists
  <2>3. \A d \in FromIn(clients', curr) : d \in FromIn(clients, curr) /\ d # dest_c
    BY <2>1, <2>2, OtherRemoved
  <2>4. Due' \subseteq Due \ {dest_c}
    BY <2>1, <2>3 DEF Due
  <2> QED
    BY <2>1, <2>4, CloseFds
<1> QED
  BY <1>1, <1>2

-----------------------------------------------------------------------------
THEOREM NextFInv == FInv /\ [Next]_vars => FInv'
<1> SUFFICES ASSUME FInv, [Next]_vars PROVE FInv'
  OBVIOUS
<1>1. IInv'
  BY NextIInv DEF FInv
<1>2. CASE \E c \in Client : Connect(c) \/ Send(c) \/ Receive(c) \/ Leave(c)
  BY <1>1, <1>2, NetworkFds DEF FInv
<1>3. CASE SetupFails \/ KilledBySigint \/ AcceptFails \/ CleanExit \/ AssertFails
  <2>1. PICK how \in Stopped : Exits(how)
    BY <1>3 DEF SetupFails, KilledBySigint, AcceptFails, CleanExit, AssertFails, Stopped
  <2> QED
    BY <1>1, <2>1, ExitFds DEF FInv
<1>4. CASE UNCHANGED vars
  <2>1. UNCHANGED <<clients, fd, all_fds, max_fd, listen_fds, conn, read, sent, pc, curr>>
    BY <1>4 DEF vars, network, server, watched, buffers
  <2>2. Due' = Due
    BY <2>1 DEF Due, FromIn, PlaceIn
  <2> QED
    BY <1>1, <2>1, <2>2, FdsKept, ReadinessKept DEF FInv, Readiness
<1> QED
  BY <1>1, <1>2, <1>3, <1>4, MainFds, LoopFds, AcceptFds, ReadFds, CloseStepFds
  DEF FInv, Next, Runs, Fails

THEOREM FInvHolds == Spec => []FInv
BY InitFInv, NextFInv, PTL DEF Spec

(* As many descriptors as clients. *)
LEMMA CountFds ==
  ASSUME FInv
  PROVE  Cardinality(all_fds) = Len(clients)
<1> DEFINE f == [i \in 1 .. Len(clients) |-> fd[clients[i]]]
<1>1. /\ clients \in Seq(Client) /\ Distinct(clients) /\ Len(clients) \in Nat
      /\ DOMAIN clients = 1 .. Len(clients)
  BY DEF FInv, IInv, Lists
<1>2. Range(clients) = {clients[i] : i \in 1 .. Len(clients)}
  BY <1>1 DEF Range
<1>3. f \in [1 .. Len(clients) -> all_fds]
  BY <1>2 DEF FInv, Fds
<1>4. \A i, j \in 1 .. Len(clients) : f[i] = f[j] => i = j
  BY <1>1, <1>2 DEF FInv, Fds, Distinct
<1>5. \A n \in all_fds : \E i \in 1 .. Len(clients) : f[i] = n
  BY <1>2 DEF FInv, Fds
<1>6. f \in Bijection(1 .. Len(clients), all_fds)
  BY <1>3, <1>4, <1>5 DEF Bijection, Injection, Surjection, IsInjective
<1> QED
  BY <1>1, <1>6, FS_CountingElements DEF ExistsBijection

(***************************************************************************)
(* However many clients come and leave: select is asked for the sockets of *)
(* the clients in the list, each once and none above max_fd.               *)
(***************************************************************************)
THEOREM FdsMatchHolds == Spec => []FdsMatch
<1>1. FInv => FdsMatch
  BY CountFds DEF FInv, Fds, FdsMatch
<1> QED
  BY <1>1, FInvHolds, PTL

(***************************************************************************)
(* The server never blocks in read: there is something to read from the    *)
(* client whose turn it is, whoever else was removed since select.         *)
(***************************************************************************)
THEOREM ReadsReadyHolds == Spec => []ReadsReady
<1>1. FInv => ReadsReady
  <2> SUFFICES ASSUME FInv, pc = "read" PROVE Readable(curr)
    BY DEF ReadsReady
  <2>1. curr \in Range(clients) /\ curr # None
    BY DEF FInv, IInv, PointersLive
  <2>2. curr \in FromIn(clients, curr)
    BY <2>1, PlaceFact DEF FromIn, FInv, IInv, Lists
  <2> QED
    BY <2>2 DEF FInv, Readiness, Due
<1> QED
  BY <1>1, FInvHolds, PTL
-----------------------------------------------------------------------------
(* The types.                                                              *)

Points ==
  {"setup", "listening", "top", "select", "accept", "check", "scan", "read",
   "name", "echo", "send", "close", "loop", "exit"} \cup Stopped

(* Nothing is read that was not sent, nothing taken that was not read, and *)
(* only the clients in the list are read from.                             *)
InBuffer(c) ==
  /\ sent[c] \in 0 .. Pieces(c)
  /\ read[c] \in 0 .. sent[c]
  /\ taken[c] \in 0 .. Len(Ends[c])
  /\ taken[c] > 0 => Ends[c][taken[c]] <= read[c]
  /\ c \notin Range(clients) => read[c] = 0

TInv ==
  /\ sent \in [Client -> Nat] /\ read \in [Client -> Nat] /\ taken \in [Client -> Nat]
  /\ \A c \in Client : InBuffer(c)
  /\ waiting \in [Client -> 0..Capacity]
  /\ listen_fds \subseteq Nat
  /\ pc \in Points
  /\ pc = "name" => Complete(curr, read[curr])
  /\ sigint_received \in BOOLEAN

(* The pieces of a client are counted by a number. *)
LEMMA PiecesType ==
  ASSUME NEW c \in Client
  PROVE  /\ Ends[c] \in Seq(Nat \ {0}) /\ Len(Ends[c]) \in Nat /\ Pieces(c) \in Nat
         /\ \A i \in 1 .. Len(Ends[c]) : Ends[c][i] \in Nat
<1>1. Ends[c] \in Seq(Nat \ {0}) /\ Len(Ends[c]) \in Nat
  BY ChatAssumption
<1>2. \A i \in 1 .. Len(Ends[c]) : Ends[c][i] \in Nat
  BY <1>1
<1>3. Ends[c] # << >> => Last(Ends[c]) \in Nat
  BY <1>1, <1>2 DEF Last
<1> QED
  BY <1>1, <1>2, <1>3 DEF Pieces

(* Whoever was closed, or was never there, has nothing in the buffer. *)
LEMMA EmptyBuffer ==
  ASSUME NEW c \in Client, sent'[c] = 0, read'[c] = 0, taken'[c] = 0
  PROVE  InBuffer(c)'
BY PiecesType DEF InBuffer

(* The step leaves the buffers alone. *)
LEMMA BuffersKept ==
  ASSUME TInv, UNCHANGED <<sent, read, taken>>, Range(clients) \subseteq Range(clients')
  PROVE  /\ sent' \in [Client -> Nat] /\ read' \in [Client -> Nat] /\ taken' \in [Client -> Nat]
         /\ \A c \in Client : InBuffer(c)'
BY DEF TInv, InBuffer

LEMMA NetworkType ==
  ASSUME TInv, NEW c \in Client, Connect(c) \/ Send(c) \/ Receive(c) \/ Leave(c)
  PROVE  TInv'
<1>1. UNCHANGED <<listen_fds, pc, curr, read, taken, clients, sigint_received>>
  BY DEF Connect, Send, Receive, Leave, server, buffers
<1>2. CASE Send(c)
  <2>1. sent' = [sent EXCEPT ![c] = @ + 1] /\ waiting' = waiting /\ sent[c] < Pieces(c)
    BY <1>2 DEF Send
  <2>2. \A d \in Client : InBuffer(d)'
    BY <1>1, <2>1, PiecesType DEF TInv, InBuffer
  <2> QED
    BY <1>1, <2>1, <2>2 DEF TInv, Complete
<1>3. CASE Receive(c)
  <2>1. UNCHANGED sent /\ waiting' = [waiting EXCEPT ![c] = @ - 1] /\ waiting[c] > 0
    BY <1>3 DEF Receive
  <2>2. waiting' \in [Client -> 0..Capacity]
    BY <2>1, ChatAssumption DEF TInv
  <2> QED
    BY <1>1, <2>1, <2>2, BuffersKept DEF TInv, Complete
<1>4. CASE Connect(c) \/ Leave(c)
  <2>1. UNCHANGED <<sent, waiting>>
    BY <1>4 DEF Connect, Leave
  <2> QED
    BY <1>1, <2>1, BuffersKept DEF TInv, Complete
<1> QED
  BY <1>2, <1>3, <1>4

LEMMA ExitType ==
  ASSUME TInv, NEW how \in Stopped, Exits(how)
  PROVE  TInv'
<1>1. /\ sent' = Zero /\ read' = Zero /\ taken' = Zero /\ waiting' = Zero /\ listen_fds' = {}
      /\ pc' = how /\ UNCHANGED sigint_received
  BY DEF Exits
<1>2. \A c \in Client : InBuffer(c)'
  BY <1>1, EmptyBuffer DEF Zero
<1> QED
  BY <1>1, <1>2, ChatAssumption DEF TInv, Zero, Points, Stopped

(* The steps of main that leave the buffers alone. *)
LEMMA MainType ==
  ASSUME FInv, TInv,
         \/ Listen \/ InstallHandler \/ Select \/ SelectReturns \/ SelectFails \/ AcceptNone
         \/ Accept \/ CheckSigint \/ LoopAgain \/ ScanEnds \/ ScanSkips \/ ScanFinds \/ ReadEnd
         \/ ReadError \/ ReadStub \/ BadUsername \/ NoMessage \/ Sigint
         \/ WriteError \/ SendSkips \/ SendEnds
  PROVE  TInv'
<1>1. UNCHANGED <<sent, read, taken, waiting>> /\ Range(clients) \subseteq Range(clients')
  <2>1. CASE Accept
    <3>1. /\ clients \in Seq(Client) /\ Distinct(clients)
          /\ Head(queue) \in Client /\ Head(queue) \notin Range(clients)
      <4>1. queue \in Seq(Client) /\ Distinct(queue) /\ queue # << >> /\ Range(queue) \cap Range(clients) = {}
        BY <2>1 DEF Accept, FInv, IInv, Lists
      <4> QED
        BY <4>1, TailFact DEF FInv, IInv, Lists
    <3>2. Range(Append(clients, Head(queue))) = Range(clients) \cup {Head(queue)}
      BY <3>1, AppendFact
    <3> QED
      BY <2>1, <3>2 DEF Accept, buffers
  <2>2. CASE ~Accept
    BY <2>2 DEF Listen, InstallHandler, Select, SelectReturns, SelectFails, AcceptNone, CheckSigint, LoopAgain,
       ScanEnds, ScanSkips, ScanFinds, ReadEnd, ReadError, ReadStub, BadUsername, NoMessage, Sigint, WriteError,
       SendSkips, SendEnds, Go, Turn, network, buffers
  <2> QED
    BY <2>1, <2>2
<1>2. CASE SelectReturns \/ LoopAgain
  <2>1. listen_fds' \in {Ready, {}} /\ pc' \in {"exit", "accept", "top"} /\ UNCHANGED sigint_received
    BY <1>2 DEF SelectReturns, LoopAgain
  <2>2. Ready \subseteq Nat
    BY ClientsOf DEF Ready, FInv, Fds
  <2> QED
    BY <1>1, <2>1, <2>2, BuffersKept DEF TInv, Points
<1>3. CASE Sigint
  <2>1. UNCHANGED <<listen_fds, curr>> /\ (pc' = pc \/ pc' = "exit") /\ sigint_received' = TRUE
    BY <1>3 DEF Sigint
  <2> QED
    BY <1>1, <2>1, BuffersKept DEF TInv, Points, Complete
<1>4. CASE \/ Listen \/ InstallHandler \/ Select \/ SelectFails \/ AcceptNone \/ Accept \/ CheckSigint
           \/ ScanEnds \/ ScanSkips \/ ScanFinds \/ ReadEnd \/ ReadError \/ ReadStub \/ BadUsername
           \/ NoMessage \/ WriteError \/ SendSkips \/ SendEnds
  <2>1. /\ UNCHANGED <<listen_fds, sigint_received>>
        /\ pc' \in {"listening", "top", "select", "loop", "exit", "check", "scan", "read", "close",
                    "echo", "send"}
    BY <1>4 DEF Listen, InstallHandler, Select, SelectFails, AcceptNone, Accept, CheckSigint, ScanEnds, ScanSkips,
       ScanFinds, ReadEnd, ReadError, ReadStub, BadUsername, NoMessage, WriteError, SendSkips, SendEnds, Go, Turn
  <2> QED
    BY <1>1, <2>1, BuffersKept DEF TInv, Points
<1> QED
  BY <1>2, <1>3, <1>4

(* One too many: what it sent is lost with its socket. *)
LEMMA RefuseType ==
  ASSUME FInv, TInv, AcceptRefuses
  PROVE  TInv'
<1> DEFINE h == Head(queue)
<1>1. /\ h \in Client /\ h \notin Range(clients)
      /\ sent' = [sent EXCEPT ![h] = 0] /\ pc' = "loop"
      /\ UNCHANGED <<read, taken, waiting, clients, listen_fds, sigint_received>>
  <2>1. queue \in Seq(Client) /\ Distinct(queue) /\ queue # << >> /\ Range(queue) \cap Range(clients) = {}
    BY DEF AcceptRefuses, FInv, IInv, Lists
  <2> QED
    BY <2>1, TailFact DEF AcceptRefuses, buffers
<1>2. \A c \in Client : InBuffer(c)'
  BY <1>1, PiecesType DEF TInv, InBuffer
<1> QED
  BY <1>1, <1>2 DEF TInv, Points

LEMMA ReadType ==
  ASSUME FInv, TInv, ReadSome
  PROVE  TInv'
<1>1. /\ curr \in Client /\ curr \in Range(clients)
      /\ UNCHANGED <<sent, taken, waiting, clients, listen_fds, sigint_received>>
  BY ClientsOf DEF ReadSome, FInv, IInv, PointersLive, network, build
<1>2. PICK n \in read[curr] + 1 .. sent[curr] :
        /\ read' = [read EXCEPT ![curr] = n]
        /\ \/ pc' = "scan" \/ pc' = "echo"
           \/ pc' = "name" /\ curr' = curr /\ Complete(curr, n)
  BY DEF ReadSome
<1>3. n \in Nat /\ read[curr] < n /\ n <= sent[curr] /\ read' \in [Client -> Nat]
  BY <1>1, <1>2 DEF TInv
<1>4. ASSUME NEW c \in Client PROVE InBuffer(c)'
  <2>1. InBuffer(c) /\ read \in [Client -> Nat] /\ sent \in [Client -> Nat]
    BY DEF TInv
  <2>2. CASE c = curr
    <3>1. read'[c] = n
      BY <1>2, <2>1, <2>2
    <3>2. taken[c] > 0 => Ends[c][taken[c]] <= n
      BY <1>3, <2>1, <2>2, PiecesType DEF InBuffer
    <3> QED
      BY <1>1, <1>3, <2>1, <2>2, <3>1, <3>2 DEF InBuffer, Pieces
  <2>3. CASE c # curr
    <3>1. read'[c] = read[c]
      BY <1>2, <2>1, <2>3
    <3> QED
      BY <1>1, <2>1, <3>1 DEF InBuffer, Pieces
  <2> QED
    BY <2>2, <2>3
<1> QED
  BY <1>1, <1>2, <1>3, <1>4 DEF TInv, Points, Complete

(* The user name, or a message, is taken out of the buffer. *)
LEMMA TakeType ==
  ASSUME FInv, TInv, SetUsername \/ GetMessage
  PROVE  TInv'
<1>1. /\ UNCHANGED <<sent, read, waiting, clients, listen_fds, curr, sigint_received>>
      /\ taken' = [taken EXCEPT ![curr] = @ + 1] /\ pc' \in {"echo", "send"}
      /\ Complete(curr, read[curr])
  BY DEF SetUsername, GetMessage, network, TInv
<1>2. curr \in Client
  BY ClientsOf DEF SetUsername, GetMessage, FInv, IInv, PointersLive
<1>3. /\ taken[curr] + 1 \in 1 .. Len(Ends[curr]) /\ Ends[curr][taken[curr] + 1] <= read[curr]
  BY <1>1, <1>2, PiecesType DEF TInv, Complete
<1>4. ASSUME NEW c \in Client PROVE InBuffer(c)'
  <2>1. InBuffer(c) /\ taken \in [Client -> Nat]
    BY DEF TInv
  <2>2. CASE c = curr
    <3>1. taken'[c] = taken[c] + 1
      BY <1>1, <2>1, <2>2
    <3> QED
      BY <1>1, <1>3, <2>1, <2>2, <3>1 DEF InBuffer, Pieces
  <2>3. CASE c # curr
    <3>1. taken'[c] = taken[c]
      BY <1>1, <1>2, <2>1, <2>3
    <3> QED
      BY <1>1, <2>1, <3>1 DEF InBuffer, Pieces
  <2> QED
    BY <2>2, <2>3
<1> QED
  BY <1>1, <1>2, <1>4 DEF TInv, Points

LEMMA WriteType ==
  ASSUME FInv, TInv, Write
  PROVE  TInv'
<1>1. /\ UNCHANGED <<sent, read, taken, clients, listen_fds, curr, pc, sigint_received>> /\ pc = "send"
      /\ waiting' = waiting \/ (waiting' = [waiting EXCEPT ![dest_c] = @ + 1] /\ waiting[dest_c] < Capacity)
  BY DEF Write, Writable, buffers
<1>2. dest_c \in Client
  BY ClientsOf DEF Write, FInv, IInv, PointersLive
<1>3. waiting' \in [Client -> 0..Capacity]
  <2>1. waiting \in [Client -> 0..Capacity] /\ Capacity \in Nat
    BY ChatAssumption DEF TInv
  <2>2. waiting[dest_c] < Capacity => waiting[dest_c] + 1 \in 0..Capacity
    BY <1>2, <2>1
  <2> QED
    BY <1>1, <1>2, <2>1, <2>2
<1> QED
  BY <1>1, <1>3, BuffersKept DEF TInv

LEMMA CloseType ==
  ASSUME FInv, TInv, CloseClient \/ WriteDisconnected
  PROVE  TInv'
<1>1. PICK c \in Range(clients) : Close(c) /\ UNCHANGED limit
  BY DEF CloseClient, WriteDisconnected, build, FInv, IInv, PointersLive
<1>2. /\ c \in Client
      /\ sent' = [sent EXCEPT ![c] = 0] /\ read' = [read EXCEPT ![c] = 0]
      /\ taken' = [taken EXCEPT ![c] = 0] /\ waiting' = [waiting EXCEPT ![c] = 0]
      /\ Range(clients') = Range(clients) \ {c}
  BY <1>1, ClientsOf, CloseLists DEF Close, FInv
<1>3. UNCHANGED <<listen_fds, sigint_received>> /\ pc' \in {"scan", "send"}
  BY DEF CloseClient, WriteDisconnected
<1>4. ASSUME NEW d \in Client PROVE InBuffer(d)'
  <2>1. CASE d = c
    BY <1>2, <2>1, EmptyBuffer DEF TInv
  <2>2. CASE d # c
    BY <1>2, <2>2 DEF TInv, InBuffer
  <2> QED
    BY <2>1, <2>2
<1> QED
  BY <1>2, <1>3, <1>4, ChatAssumption DEF TInv, Points

(* The pointers of the loops are set to clients of the list, or to none.   *)
Pointers == {curr, dest_c} \subseteq Client \cup {None}

LEMMA NextPointers == FInv /\ FInv' /\ Pointers /\ [Next]_vars => Pointers'
<1> SUFFICES ASSUME FInv, FInv', Pointers, [Next]_vars PROVE Pointers'
  OBVIOUS
<1> DEFINE InScan == {"scan", "read", "name", "echo", "send", "close"}
<1>1. /\ pc \in InScan => curr \in Client \cup {None}
      /\ pc = "send" => dest_c \in Client \cup {None}
      /\ pc' \in InScan => curr' \in Client \cup {None}
      /\ pc' = "send" => dest_c' \in Client \cup {None}
  <2>1. Range(clients) \subseteq Client /\ Range(clients') \subseteq Client
    <3>1. /\ clients \in Seq(Client) /\ DOMAIN clients = 1 .. Len(clients)
          /\ clients' \in Seq(Client) /\ DOMAIN clients' = 1 .. Len(clients')
      BY DEF FInv, IInv, Lists
    <3> QED
      BY <3>1 DEF Range
  <2> QED
    BY <2>1 DEF FInv, IInv, PointersLive
<1>2. /\ curr' \in {curr, None} \/ pc' \in InScan
      /\ dest_c' \in {dest_c, None} \/ pc' = "send"
  <2>1. CASE \E c \in Client : Connect(c) \/ Send(c) \/ Receive(c) \/ Leave(c)
    BY <2>1 DEF Connect, Send, Receive, Leave, server, sending
  <2>2. CASE SetupFails \/ KilledBySigint \/ AcceptFails \/ CleanExit \/ AssertFails
    BY <2>2 DEF SetupFails, KilledBySigint, AcceptFails, CleanExit, AssertFails, Exits
  <2>3. CASE \/ Listen \/ InstallHandler \/ Select \/ SelectReturns \/ SelectFails \/ AcceptNone \/ Accept
             \/ AcceptRefuses \/ LoopAgain \/ Sigint \/ SetUsername \/ BadUsername
             \/ ScanEnds \/ ScanFinds \/ ReadEnd \/ ReadError \/ ReadStub
    BY <2>3 DEF Listen, InstallHandler, Select, SelectReturns, SelectFails, AcceptNone, Accept, AcceptRefuses,
       LoopAgain, Sigint, SetUsername, BadUsername, ScanEnds, ScanFinds, ReadEnd, ReadError, ReadStub, Go, Turn, sending
  <2>4. CASE CheckSigint \/ ScanSkips \/ NoMessage \/ ReadSome \/ CloseClient
    BY <2>4 DEF CheckSigint, ScanSkips, NoMessage, ReadSome, CloseClient, Go, Turn, sending
  <2>5. CASE GetMessage \/ Write \/ WriteError \/ WriteDisconnected \/ SendSkips \/ SendEnds
    BY <2>5 DEF GetMessage, Write, WriteError, WriteDisconnected, SendSkips, SendEnds
  <2>6. CASE UNCHANGED vars
    BY <2>6 DEF vars, server, sending
  <2> QED
    BY <2>1, <2>2, <2>3, <2>4, <2>5, <2>6 DEF Next, Runs, Fails
<1> QED
  BY <1>1, <1>2 DEF Pointers

THEOREM NextTInv == FInv /\ TInv /\ [Next]_vars => TInv'
<1> SUFFICES ASSUME FInv, TInv, [Next]_vars PROVE TInv'
  OBVIOUS
<1>1. CASE \E c \in Client : Connect(c) \/ Send(c) \/ Receive(c) \/ Leave(c)
  BY <1>1, NetworkType
<1>2. CASE SetupFails \/ KilledBySigint \/ AcceptFails \/ CleanExit \/ AssertFails
  <2>1. PICK how \in Stopped : Exits(how)
    BY <1>2 DEF SetupFails, KilledBySigint, AcceptFails, CleanExit, AssertFails, Stopped
  <2> QED
    BY <2>1, ExitType
<1>3. CASE UNCHANGED vars
  <2>1. UNCHANGED <<sent, read, taken, waiting, clients, listen_fds, pc, curr, sigint_received>>
    BY <1>3 DEF vars, network, server, buffers
  <2> QED
    BY <2>1, BuffersKept DEF TInv, Complete
<1> QED
  BY <1>1, <1>2, <1>3, MainType, RefuseType, ReadType, TakeType, WriteType, CloseType
  DEF Next, Runs, Fails

(* As many messages as were taken end in the pieces that were read. *)
LEMMA TakenEnd ==
  ASSUME TInv, NEW c \in Client
  PROVE  taken[c] \in 0 .. Cardinality({i \in DOMAIN Ends[c] : Ends[c][i] <= read[c]})
<1> DEFINE S == {i \in DOMAIN Ends[c] : Ends[c][i] <= read[c]}
           T == 1 .. taken[c]
<1>1. /\ DOMAIN Ends[c] = 1 .. Len(Ends[c]) /\ Len(Ends[c]) \in Nat
      /\ \A i \in 1 .. Len(Ends[c]) : Ends[c][i] \in Nat
      /\ taken[c] \in 0 .. Len(Ends[c]) /\ read[c] \in Nat
  BY PiecesType DEF TInv, InBuffer
<1>2. ASSUME NEW i \in T PROVE i \in S
  <2>1. taken[c] \in 1 .. Len(Ends[c]) /\ i \in 1 .. Len(Ends[c]) /\ Ends[c][taken[c]] <= read[c]
    BY <1>1 DEF TInv, InBuffer
  <2>2. i < taken[c] => Ends[c][i] < Ends[c][taken[c]]
    BY <1>1, <2>1, ChatAssumption
  <2> QED
    BY <1>1, <2>1, <2>2
<1>3. IsFiniteSet(S)
  <2>1. IsFiniteSet(1 .. Len(Ends[c]))
    BY <1>1, FS_Interval
  <2> QED
    BY <1>1, <2>1, FS_Subset
<1>4. Cardinality(T) = taken[c]
  <2>1. taken[c] \in Nat /\ 1 \in Int /\ taken[c] \in Int
    BY <1>1
  <2>2. Cardinality(1 .. taken[c]) = IF 1 > taken[c] THEN 0 ELSE taken[c] - 1 + 1
    BY <2>1, FS_Interval
  <2> QED
    BY <2>1, <2>2
<1>5. Cardinality(T) <= Cardinality(S) /\ Cardinality(S) \in Nat
  <2> HIDE DEF S, T
  <2> QED
    BY <1>2, <1>3, FS_Subset, FS_CardinalityType
<1> QED
  BY <1>1, <1>4, <1>5

(* The state of the server and its clients has its types: no message is    *)
(* taken before it was read, nothing read before it was sent, and no       *)
(* socket holds more than it can.                                          *)
THEOREM TypeCorrect == Spec => []TypeOK
<1>1. Init => TInv
  <2> SUFFICES ASSUME Init PROVE TInv
    OBVIOUS
  <2>1. \A c \in Client : InBuffer(c)
    BY PiecesType DEF Init, Zero, InBuffer
  <2>2. waiting \in [Client -> 0..Capacity]
    BY ChatAssumption DEF Init, Zero
  <2> QED
    BY <2>1, <2>2 DEF Init, Zero, TInv, Points
<1>2. Init => Pointers
  BY DEF Init, Pointers
<1>3. FInv /\ TInv /\ Pointers => TypeOK
  <2> SUFFICES ASSUME FInv, TInv, Pointers PROVE TypeOK
    OBVIOUS
  <2>1. \A c \in Client : taken[c] \in 0 .. Cardinality({i \in DOMAIN Ends[c] : Ends[c][i] <= read[c]})
    BY TakenEnd
  <2>2. Range(clients) \subseteq Client
    BY ClientsOf DEF FInv
  <2>3. all_fds \subseteq Nat
    BY <2>2 DEF FInv, Fds
  <2> QED
    BY <2>1, <2>3 DEF Pointers, FInv, IInv, Lists, Names, Fds, TInv, InBuffer, Points, TypeOK
<1> QED
  BY <1>1, <1>2, <1>3, FInvHolds, NextTInv, NextPointers, PTL DEF Spec
=============================================================================
