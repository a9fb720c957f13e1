------------------------------- MODULE ChatRoom -------------------------------
(***************************************************************************)
(* What the chat server promises, told without sockets, lists and loops:   *)
(* a room in which one message at a time goes to everybody but its author. *)
(* A message is done with when each of them has got it, has left, or could *)
(* not be reached; only then the next one of some author is taken.  So     *)
(* nobody gets a message twice, or two of one author in the wrong order,   *)
(* or one that was written before they came.                               *)
(***************************************************************************)
EXTENDS Naturals, Sequences

CONSTANTS Client, None

VARIABLES
  open,       \* is the room open?
  members,    \* who is in it
  said,       \* how many messages each member has sent
  message,    \* the one that is going round, an author and a number
  audience,   \* who still has to get it
  missed,     \* who could not be reached
  reached     \* who has got it, one after the other

vars == <<open, members, said, message, audience, missed, reached>>

NoMessage == <<None, 0>>
Silence == [c \in Client |-> 0]

Join(c) ==
  /\ open
  /\ message = NoMessage
  /\ c \notin members
  /\ members' = members \cup {c}
  /\ UNCHANGED <<open, said, message, audience, missed, reached>>

(* The author of a message stays until it has gone round. *)
Leave(c) ==
  /\ message[1] # c
  /\ c \in members
  /\ members' = members \ {c}
  /\ audience' = audience \ {c}
  /\ said' = [said EXCEPT ![c] = 0]
  /\ UNCHANGED <<open, message, missed, reached>>

Post(c) ==
  /\ message = NoMessage
  /\ c \in members
  /\ message' = <<c, said[c] + 1>>
  /\ said' = [said EXCEPT ![c] = @ + 1]
  /\ audience' = members \ {c}
  /\ UNCHANGED <<open, members, missed, reached>>

Deliver(c) ==
  /\ c \in audience
  /\ audience' = audience \ {c}
  /\ reached' = Append(reached, c)
  /\ UNCHANGED <<open, members, said, message, missed>>

Miss(c) ==
  /\ c \in audience
  /\ audience' = audience \ {c}
  /\ missed' = missed \cup {c}
  /\ UNCHANGED <<open, members, said, message, reached>>

Done ==
  /\ message # NoMessage
  /\ audience = {}
  /\ message' = NoMessage
  /\ reached' = << >>
  /\ missed' = {}
  /\ UNCHANGED <<open, members, said, audience>>

(* A message that goes round is not cut off. *)
Shut ==
  /\ open
  /\ message = NoMessage
  /\ open' = FALSE
  /\ members' = {}
  /\ said' = Silence
  /\ UNCHANGED <<message, audience, missed, reached>>

Init ==
  /\ open = TRUE
  /\ members = {}
  /\ said = Silence
  /\ message = NoMessage
  /\ audience = {}
  /\ missed = {}
  /\ reached = << >>

Next == Done \/ Shut \/ \E c \in Client : Join(c) \/ Leave(c) \/ Post(c) \/ Deliver(c) \/ Miss(c)

Spec == Init /\ [][Next]_vars
===============================================================================
